SPECIFICATION EitherFairSpec
CONSTANTS
    MaxHead = 9
    MaxReorgs = 2
    ReorgDepth = 3
    ReorgGains = {1}
    BlocksDelay = 1
    BlocksSafe = 2
    BlockBatch = 2
    EndHeight = 6
    U64 = 65536
    StoredHeights = {0, 4}
    HeadsAtBoot = {2,6,7}
    Boots <- BootStates
    Callers = {p}
    MaxFails = 1
    Prompt = TRUE
INVARIANTS
    QuietAfterStop
    FinishedIsComplete
PROPERTIES
    EndlessStopReturns
    EndlessCatchesUp
CHECK_DEADLOCK FALSE
