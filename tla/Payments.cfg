SPECIFICATION FairSpec
INVARIANTS
    PaymentsSound
PROPERTIES
    PaymentsEnd
CONSTANTS
    N = 2
    Coins = 3
    Refilled = 1
    MAX_MERCHANT_TOKENS = 2
    MaxPayments = 3
CHECK_DEADLOCK FALSE
