SPECIFICATION TasksSpec
CONSTANTS
    Blocks <- BlockTree
    GenesisHash <- GenesisBlockHash
    StartChain <- FirstChain
    WordSize = 64
    CompensationCap = 10
    Chosen = {"erc1155_basic","erc20_tx","erc721_basic","dex_pair","push_kafka"}
    Height = 3
    Fork = 1
    Stored0 = 2
    StartNumber = 0
    BufferSize = 2
    EndNumber = 0
    RetryTimes = 1
    MaxEvents = 3
    MaxRestarts = 1
    BaseFirst = FALSE
    MaxBlockCount = 2
    BatchBlockCount = 1
    LostAnswers = TRUE
    Tokens = {t1}
    Supplies = {"1"}
CHECK_DEADLOCK FALSE
INVARIANTS
    RowsStand
    NothingLost
    OnceWithHeight
    OriginsKept
    OwnersFollow
PROPERTIES
    TwiceOnlyUnrecorded
