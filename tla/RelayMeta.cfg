CONSTANTS
    Nobody = Nobody
    Requests = {r1, r2, r3}
    Digests = {d1, d2}
    Reconciles = FALSE
    Resends = TRUE
SPECIFICATION Spec
CHECK_DEADLOCK FALSE
CONSTRAINT FewStrays
SYMMETRY RequestSymmetry
INVARIANTS AtMostOnce RepliesAgree RejectedUndelivered
PROPERTIES SettledForGood KeepsPromise
