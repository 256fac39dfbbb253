SPECIFICATION BalancesSpec
CONSTANTS
    Blocks <- BlockTree
    GenesisHash <- GenesisBlockHash
    StartChain <- FirstChain
    WordSize = 64
    CompensationCap = 10
    Chosen = {"native_balance", "erc20_batch", "erc20_call", "erc1155_balance"}
    Height = 3
    Fork = 1
    Stored0 = 2
    StartNumber = 1
    BatchBlockCount = 1
    EndNumber = 0
    BufferSize = 1
    RetryTimes = 1
    Keys = {1, 2}
    CacheSize = 1
    FalsePositives = TRUE
    MaxEvents = 5
    MaxRestarts = 0
    BaseFirst = TRUE
    MaxReorgs = 1
    MaxLag = 1
    MaxFails = 1
INVARIANTS
    BalanceFresh
    BalanceStands
CHECK_DEADLOCK FALSE
