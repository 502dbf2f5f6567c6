CONSTANTS
    LINKS = 2
    LOSSES = 1
    REPEATS = 1
    TIMEOUTS = 1
    NOBUFS = 1
SPECIFICATION Spec
INVARIANTS NeverInvalid
PROPERTIES ImplementsChannel PdusArrive LinksEnd
CHECK_DEADLOCK FALSE
