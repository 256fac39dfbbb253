SPECIFICATION FairTools
CONSTANTS
    Chosen = {"compensation", "batches", "itxpatcher"}
    Keys = {1, 2, 3}
    CacheSize = 1
    FalsePositives = TRUE
    StartHeight = 1
    EndHeight = 8
    BatchBlockCount = 1
    MultiCallContract = TRUE
    Touches <- TouchesOf
    Heads = {5, 8}
    MaxHead = 9
    RetryTimes = 1
    MaxFailures = 1
    U64 = 65536
INVARIANTS
    LeavesNoHole
PROPERTIES
    ToolsEnd
CHECK_DEADLOCK FALSE
