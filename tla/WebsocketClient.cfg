CONSTANTS
    StartSeq = 2
    MaxSeq = 6
    ChannelSize = 2
    Window = 2
    Messages = 1
    MayDie = TRUE
SPECIFICATION Spec
INVARIANT GotWithoutGap
PROPERTIES
    CloseReturns
    SubscriptionEnds
    EndIsNoticed
CHECK_DEADLOCK FALSE
