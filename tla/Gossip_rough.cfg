\* The name of a board may be lost, and a beacon board and the provisioner restart.
CONSTANTS
    Beacons = {1, 2}
    Prov = 6
    STAT_COUNT = 3
    LOSSY = TRUE
    RESTARTS = {1, 6}
SPECIFICATION Spec
INVARIANTS
    NoPairTwice
CHECK_DEADLOCK FALSE
