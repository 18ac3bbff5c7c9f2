SPECIFICATION Spec
CONSTANTS
    small = small
    medium = medium
    large = large
    cold = cold
    internal = internal
    NoId = NoId
    Ids = {small, medium}
    Amount <- MCAmount
    ColdIds = {}
    InternalIds = {}
    RefusedIds = {}
    MinWithdraw = 1
    MinWithdrawWithoutManualConfirmation = 3
    Deposits = {d1, d2}
    DepositAmount = 2
    InitialBalance = 1
    WithdrawSaveRetries = 1
    TriggerCapacity = 1
    MaxTimers = 1
    Faults = {"dbFailLate"}
    MaxFaults = 1
INVARIANTS
    AnnouncedExactlyOnce
