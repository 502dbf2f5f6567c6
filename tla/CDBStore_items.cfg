\* Boards are added and configured.  In one environment flash writes keep the
\* processor; in the other they sleep and nodes are deleted.  Three addresses, so
\* that updates run out.
CONSTANTS
    NODE_COUNT = 2
    UNICAST_MAX = 3
    ELEM_MAX = 1
    Uuids = {u1}
    NoUuid = none
    ENVS = {"calm", "rough"}
SPECIFICATION Spec

    
PROPERTIES
    RestartRestoresItems
