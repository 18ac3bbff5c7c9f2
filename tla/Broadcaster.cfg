SPECIFICATION WSFairSpec
CONSTANTS
    TxIds = {t1}
    NewAddress = NewAddress
    NoEvent = NoEvent
    MaxSeq = 2
    Clients = {c1, c2}
    ChannelSize = 1
    WSTriggerCapacity = 1
    MaxWSFaults = 1
INVARIANTS
    NothingMissed
PROPERTIES
    WrittenInOrder
    EveryEventWritten
