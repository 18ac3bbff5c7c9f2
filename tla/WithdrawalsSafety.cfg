SPECIFICATION Spec
CONSTANTS
    small = small
    medium = medium
    large = large
    cold = cold
    internal = internal
    NoId = NoId
    Ids = {small, large, cold, internal}
    Amount <- MCAmount
    ColdIds = {cold}
    InternalIds = {internal}
    RefusedIds = {}
    MinWithdraw = 1
    MinWithdrawWithoutManualConfirmation = 2
    Deposits = {d1}
    DepositAmount = 2
    InitialBalance = 2
    WithdrawSaveRetries = 1
    TriggerCapacity = 1
    MaxTimers = 1
    Faults = {"dbFail", "dbLost", "nodeError", "nodeShort", "dbFailLate", "crash"}
    MaxFaults = 2
INVARIANTS
    PaidAtMostOnce
    BroadcastIsRecorded
    AnnouncedAtMostOnce
    RequiredCoversPending
PROPERTIES
    ImplementsLedger
