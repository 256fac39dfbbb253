SPECIFICATION FairSpec
CONSTANTS
    Tasks <- TaskNames
    Kind <- KindOf
    Bounded = {"erc20_tx"}
    BufferSize = 1
    MaxEvents = 2
    MaxSignals = 2
INVARIANTS
    NoSendToEnded
    TerminatedMeansEnded
PROPERTIES
    SignalEnds
CHECK_DEADLOCK FALSE
