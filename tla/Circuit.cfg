SPECIFICATION CircuitSpec
INVARIANTS
    ExactPayments
    RefillSound
    TokensSound
    
PROPERTIES
    CircuitLive
CHECK_DEADLOCK FALSE
CONSTANTS
    BYTES_PER_CELL = 3
    CELLS_PER_PAYMENT = 15
    LOW_PAR_BYTES = 9
    MAX_MERCHANT_TOKENS = 4
    CIRCWINDOW_START = 2
    CIRCWINDOW_INCREMENT = 1
    MaxCells = 15
