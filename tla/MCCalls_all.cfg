SPECIFICATION FairCalls
CONSTANTS
    Chosen = {"getblocks", "one_worker", "reader", "multicall", "writer"}
    MaxHead = 2
    MaxReorgs = 1
    ReorgDepth = 2
    ReorgGains <- Gains
    Low = 1
    High = 3
    BlockWorker = 2
    TxWorker = 2
    TxBatch = 1
    IsDealInternal = TRUE
    Txs <- TxsOfBlocks
    MaxFails = 2
INVARIANTS
    BlocksWhole
    OutputsMatch
    SavedOnce
PROPERTIES
    CallsReturn
    IsOneRound
CHECK_DEADLOCK FALSE
