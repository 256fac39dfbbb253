SPECIFICATION FairSpec
CONSTANTS
    Blocks <- BlockTree
    GenesisHash <- GenesisBlockHash
    StartChain <- FirstChain
    WordSize = 64
    CompensationCap = 10
    Chosen = {"erc1155_basic", "dex_pair"}
    Height = 3
    Fork = 1
    Stored0 = 2
    StartNumber = 0
    BufferSize = 2
    EndNumber = 0
    RetryTimes = 0
    MaxEvents = 3
    MaxRestarts = 0
    BaseFirst = FALSE
    MaxBlockCount = 1
    BatchBlockCount = 1
    LostAnswers = FALSE
    Tokens = {t1}
    Supplies = {"1"}
PROPERTIES
    CatchesUp
CHECK_DEADLOCK FALSE
