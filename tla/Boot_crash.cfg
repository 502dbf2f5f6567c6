CONSTANTS
    RESTARTS = 2
    CRASHES = 3
    LAGS = {FALSE, TRUE}
SPECIFICATION Spec
INVARIANTS NothingForgotten ConfiguredHasKey DatabaseAgrees FirstBootSharesKey
PROPERTIES StoredKeysStay ComesUp
CHECK_DEADLOCK FALSE
