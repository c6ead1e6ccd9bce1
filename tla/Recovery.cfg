CONSTANTS
    MaxAttempts = 2
    MaxTx = 2
    Seeds <- EightSeeds
    MaxFaults = 3
    Faults <- AllFaults
SPECIFICATION Spec
INVARIANTS
    TypeOK
    HomeWorldKept
    ResetParsable
    SettledConsistent
    OneServer
    AcceptedHealthIsCurrent
    PastWorldsArchived
PROPERTIES
    LineageAdvancesVerified
    ReleaseDecided
    ImplementsSuccession
