CONSTANTS
    MaxAttempts = 2
    MaxTx = 1
    Seeds <- EightSeeds
    MaxFaults = 2
    Faults <- ArchiveFaults
SPECIFICATION Spec
PROPERTIES
    InhabitedCandidatePreserved
