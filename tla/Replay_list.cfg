\* One source more than slots, and as many IV updates as it takes to discard an
\* entry, to load its item again and to discard it once more.
CONSTANTS
    Sources = {s1, s2, s3}
    SLOTS = 2
    IV_MAX = 3
    SEQ_MAX = 1
SPECIFICATION Spec
SYMMETRY SourceSymmetry
INVARIANTS ReplaysRefused NewPasses
