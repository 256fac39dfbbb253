SPECIFICATION Spec
CONSTANTS
    MaxHead = 10
    MaxReorgs = 3
    ReorgDepth = 3
    ReorgGains = {0, 1}
    BlocksDelay = 1
    BlocksSafe = 2
    BlockBatch = 3
    EndHeight = 0
    U64 = 65536
    StoredHeights = {0, 4}
    HeadsAtBoot = {5, 7}
    Boots <- BootStates
    Callers = {p}
    MaxFails = 1
    Prompt = TRUE
INVARIANTS
    TypeOK
    FeedIsStack
    OnlyOrphansRevert
    CacheIsPublished
    FeedIsChain
    NeverLost
PROPERTIES
    ImplementsChainLog
CHECK_DEADLOCK FALSE
