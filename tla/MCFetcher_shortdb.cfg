SPECIFICATION Spec
CONSTANTS
    MaxHead = 8
    MaxReorgs = 1
    ReorgDepth = 3
    ReorgGains = {0, 1}
    BlocksDelay = 1
    BlocksSafe = 2
    BlockBatch = 2
    EndHeight = 0
    U64 = 65536
    StoredHeights = {1, 2, 3}
    HeadsAtBoot = {5, 6}
    Boots <- BootStates
    Callers = {}
    MaxFails = 1
    Prompt = TRUE
INVARIANT
    FeedIsChain
CHECK_DEADLOCK FALSE
