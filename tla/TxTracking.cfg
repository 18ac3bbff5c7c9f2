CONSTANTS
    Txs = {deposit, withdrawal}
    NoTx = NoTx
    Kind <- KindOf
    DoubleSpendable = {}
    MaxConfirmations = 2
    MaxBlocks = 3
    Faults = {"nodeError", "dbFail", "dbFailLate", "dbLost", "crash"}
    MaxFaults = 1
    deposit = deposit
    withdrawal = withdrawal
    hot = hot
    cold = cold
SPECIFICATION Spec
INVARIANTS
    NothingMissed
    EventsNameBlocks
    DepositsKnown
PROPERTIES
    FeedSpec
    RowsFollowNode
    PendingReconsidered
CHECK_DEADLOCK TRUE
