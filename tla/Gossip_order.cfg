\* Two beacon boards and the provisioner, as many as the database holds; the name
\* of a board reaches it.
CONSTANTS
    Beacons = {1, 2}
    Prov = 6
    STAT_COUNT = 3
    LOSSY = FALSE
    RESTARTS = {}
SPECIFICATION Spec
INVARIANTS
    TypeOK
    ConfiguredListed
    
PROPERTIES
    AllReport
    TablesComplete
CHECK_DEADLOCK FALSE
