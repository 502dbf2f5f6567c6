\* Every sequence of calls on three node slots, with ranges of up to three elements,
\* and on two subnets.
SPECIFICATION Spec
CONSTANTS
    NODE_COUNT = 3
    UNICAST_MAX = 6
    ELEM_MAX = 3
    Uuids = {u1}
    NoUuid = NoUuid
    SUBNET_COUNT = 2
    APP_KEY_COUNT = 1
    NetIdxs = {0, 1}
    AppIdxs = {0}
INVARIANTS
    TypeOK
    NodesDisjoint
    FindsLowestFree
    SubnetsUnique
PROPERTIES
    LiveNodesStable
    ImplementsPool
