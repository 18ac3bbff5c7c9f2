CONSTANTS
    Width = 4
    Ids = {w1, w2}
    Request <- Requests
    Deposits = {d1}
    PaysTo <- Pays
    AccountAddress = account
    HotAddress = hotwallet
    MaxConfirmations = 1
    MaxBlocks = 2
    MaxEvents = 3
    w1 = w1
    w2 = w2
    d1 = d1
    account = account
    hotwallet = hotwallet
    outside = outside
SPECIFICATION Spec
INVARIANTS
    
    EventsReadBack
PROPERTIES
    PgKeepsTable
CHECK_DEADLOCK TRUE
