CONSTANTS
    MaxAttempts = 2
    MaxTx = 1
    Seeds <- EightSeeds
    MaxFaults = 1
    Faults <- PublishFaults
SPECIFICATION Spec
INVARIANTS
    VerifiedArchiveExists
