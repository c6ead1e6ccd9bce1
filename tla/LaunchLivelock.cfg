CONSTANTS
    MaxAttempts = 2
    MaxTx = 1
    Seeds <- EightSeeds
    MaxFaults = 1
    Faults <- CrashOnly
SPECIFICATION FairSpec
PROPERTIES
    FailingLaunchesEnd
