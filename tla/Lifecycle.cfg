CONSTANTS
    WalletRequests = {w1}
    HotRequests = {}
    MuteRequests = {m1, m2}
    HotSettings = {"none", "foreign"}
    ColdSettings = {"none", "mine"}
    MuteCapacity = 1
    Faults = {"nodeError", "dbFail", "dbLost", "listenError", "panic", "crash"}
    MaxFaults = 1
    MaxRuns = 2
SPECIFICATION Spec
INVARIANTS
    WorkAfterStop
PROPERTIES
    HandlersNotStuck
    Terminates
    HotAddressStable
CHECK_DEADLOCK FALSE
