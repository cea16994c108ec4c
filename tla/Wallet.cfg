SPECIFICATION WalletSpec
INVARIANTS
    ClientSound
    CoinsSound
PROPERTIES
    DepositsOver
CONSTANTS
    a1 = a1  a2 = a2  b1 = b1
    Coins = {a1, a2, b1}
    IntervalOf <- MCIntervalOf
    ACOIN_LOW_LEVEL = 1
    ACOIN_HIGH_LEVEL = 1
    ACOIN_BATCH_SIZE = 1
    StartBalance = 1
    MaxInterval = 3
    MaxJump = 1
    MaxNum = 2
    MaxFailures = 1
    MaxCrashes = 0
    BankErrors = FALSE
    Stops = FALSE
    Prompt = TRUE
