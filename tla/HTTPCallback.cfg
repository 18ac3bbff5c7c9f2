SPECIFICATION FairSpec
CONSTANTS
    TxIds = {t1, t2}
    NewAddress = NewAddress
    NoEvent = NoEvent
    MaxSeq = 2
    Backoff = 2
    TriggerCapacity = 2
    SaveRetries = 1
    Faults = {"readFail", "lockLost", "saveFail", "saveLost", "muteLost", "crash"}
    MaxFaults = 2
INVARIANTS
    NothingSkipped
    OneRetryDue
    GivenUpAfterBackoff
PROPERTIES
    AcknowledgedNeverResent
    SentInOrder
    EveryEventSettled
