CONSTANTS
    MaxAttempts = 2
    MaxTx = 2
    Seeds <- EightSeeds
    MaxFaults = 2
    Faults <- ProcessFaults
SPECIFICATION FairSpec
PROPERTIES
    InhabitedCandidatePreserved
    GivenUpOnlyExhausted
    ResetsDecided
