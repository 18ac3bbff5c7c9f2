CONSTANTS
    Callers = {updater, api}
    Nobody = Nobody
    Recipient = Recipient
    Change = Change
    Payments <- MCPayments
    InitialCoins <- MCCoins
    DepositValue = 3
    MaxDeposits = 1
    MaxPayments = 2
    AutoFees = {1, 3}
    Dust = 2
    Word = 32
    MaxFaults = 1
SPECIFICATION Spec
INVARIANTS
    ExactAmount
