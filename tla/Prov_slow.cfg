\* A link outlasts the 10 s wait, a link fails, and mesh messages are lost and
\* overtake each other.
CONSTANTS
    NODE_COUNT = 3
    UNICAST_MAX = 7
    ELEM_MAX = 1
    NoUuid = none
    Self = self
    Uuids = {self, d1, d2}
    SELF_ADDRESS = 6
    SEM_LIMIT = 1
    SLOW_LINKS = 1
    FAILURES = 1
    LOSSY = TRUE
    MSG_MAX = 2
SPECIFICATION Spec
SYMMETRY BoardSymmetry
INVARIANTS
    CompletedNodesKept
    IdentitiesDistinct
