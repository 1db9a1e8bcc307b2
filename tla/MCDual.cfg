SPECIFICATION Spec
CONSTANTS
    k1 = k1 k2 = k2 v1 = v1 v2 = v2 bad = bad none = none
    Keys = {k1, k2}
    Vals = {v1, v2, bad}
    NoVal = none
    Norm <- Clean
    Alt <- NoAlt
    KeyIds = {0}
    DeleteBy = "read"
INVARIANTS Divergence
PROPERTIES OkApplied Undone
