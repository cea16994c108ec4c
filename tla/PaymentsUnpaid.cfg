SPECIFICATION Spec
CONSTANTS
    N = 2
    Coins = 2
    Refilled = 0
    MAX_MERCHANT_TOKENS = 2
    MaxPayments = 2
CHECK_DEADLOCK FALSE
INVARIANT PaidFirst
