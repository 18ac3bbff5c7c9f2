CONSTANTS
    Txs = {deposit}
    NoTx = NoTx
    Kind <- KindOf
    DoubleSpendable = {deposit}
    MaxConfirmations = 1
    MaxBlocks = 4
    Faults = {"nodeError", "dbFail", "dbLost", "crash"}
    MaxFaults = 1
    deposit = deposit
    withdrawal = withdrawal
    hot = hot
    cold = cold
SPECIFICATION Spec
PROPERTIES
    RowsFollowNode
CHECK_DEADLOCK TRUE
