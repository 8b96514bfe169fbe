CONSTANTS
    MaxThreads = {512, 1024}
    MaxFaults = 2
SPECIFICATION Spec
INVARIANTS
    OkMeansComputed
    FailureExplained
CHECK_DEADLOCK FALSE
