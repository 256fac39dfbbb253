SPECIFICATION DelayFairSpec
CONSTANTS
    GenesisHash <- GenesisBlockHash
    Blocks <- BlockTree
    StartChain <- FirstChain
    QueryBatch = 3
    BufferSize = 2
    Height = 6
    Fork = 2
    Delay = 2
    Stored0 = 3
    StartNumber = 0
    MaxEvents = 5
    EventsAtHand = 8
    MaxRestarts = 1
    BaseFirst = FALSE
    MaxFailures = 1
INVARIANTS
    SendsDue
PROPERTIES
    KeepsDelay
    DelayCatchesUp
CHECK_DEADLOCK FALSE
