CONSTANTS
    Nobody = Nobody
    Requests = {r1, r2, r3}
    Digests = {d1}
    Reconciles = FALSE
    Resends = TRUE
SPECIFICATION Spec
CHECK_DEADLOCK FALSE
SYMMETRY RequestSymmetry
INVARIANTS OnlyOnce
