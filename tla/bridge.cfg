CONSTANTS
    MaxSlots = 3
    MaxGeneration = 2
    MaxOperation = 2
    CallsInUse = {"OpenWriter", "WriterWrite", "WriterFinish", "WriterAbort"}
SPECIFICATION FairSpec
CHECK_DEADLOCK FALSE
INVARIANT LeasesHold
PROPERTIES
    ExchangeIsWhole
    TerminalSticks
    ImplementsHandleTable
    BusyEnds
