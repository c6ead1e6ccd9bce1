\* Three runners, two signals or kills.
SPECIFICATION Spec
CONSTANTS
    r1 = r1
    r2 = r2
    r3 = r3
    NoRunner = none
    Runners <- ThreeRunners
    Faults <- AllFaults
    MaxFaults = 2
INVARIANTS
    TypeOK
    SessionUnderLock
    OwnerHoldsLock
    OwnerPublished
SYMMETRY AnyRunner
\* A run ends when every runner has ended.
CHECK_DEADLOCK FALSE
