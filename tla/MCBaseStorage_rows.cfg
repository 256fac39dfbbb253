SPECIFICATION FairSpec
CONSTANTS
    Height = 4
    Contract = c1
    Blocks <- BlockTree
    GenesisHash <- GenesisBlockHash
    BufferSize = 2
    MaxBlockCount = 2
    RetryTimes = 1
    MaxEvents = 7
    MaxRestarts = 2
INVARIANTS
    TypeOK
    OneOkRow
    NoGaps
    DBFollowsFeed
    NeverUnexpected
PROPERTIES
    DBImplementsChainLog
    Saved
CHECK_DEADLOCK FALSE
