\* Links finish within the 10 s wait and mesh messages arrive in order: every
\* board is provisioned and configured.
CONSTANTS
    NODE_COUNT = 3
    UNICAST_MAX = 7
    ELEM_MAX = 1
    NoUuid = none
    Self = self
    Uuids = {self, d1, d2}
    SELF_ADDRESS = 6
    SEM_LIMIT = 1
    SLOW_LINKS = 0
    FAILURES = 2
    LOSSY = FALSE
    MSG_MAX = 3
SPECIFICATION Spec

    
PROPERTIES
    LinkCloses
    LoopGoesOn
    AllConfigured
