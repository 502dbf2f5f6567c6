CONSTANTS
    MESSAGES = 2
    SEG_N = 1
    CONTEXTS = 2
    ATTEMPTS = 2
    ON_AIR = 2
    ON_AIR_ACKS = 2
SPECIFICATION Spec
INVARIANTS OnceInOrder OkMeansDelivered
PROPERTIES KeepsIncomplete 
CHECK_DEADLOCK FALSE
