CONSTANTS
    STORE_RATE = 3
    SEQ_LIMIT = 3
    MIN_HOURS = 2
    IV_MAX = 4
    SEQ_MAX = 5
    RESTARTS = 2
    TRANSFERS = 2
SPECIFICATION Spec
 
PROPERTIES TransferKeepsIv UpdateEnds
CHECK_DEADLOCK FALSE
