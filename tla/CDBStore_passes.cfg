\* Flash writes sleep, and boards are lost while main is configuring their nodes.
CONSTANTS
    NODE_COUNT = 2
    UNICAST_MAX = 2
    ELEM_MAX = 1
    Uuids = {u1}
    NoUuid = none
    ENVS = {"early"}
SPECIFICATION Spec
PROPERTIES
    UpdatesAreCarriedOut
