CONSTANTS
    Workers = {w1, w2}
    Recipients = {r1, r2}
    Nobody = Nobody
    MaxGen = 2
    MaxFaults = 1
SPECIFICATION Spec
SYMMETRY Symmetry
INVARIANTS SentOnce SentWhileRunning CountersAgree
PROPERTIES ImplementsMailing
CHECK_DEADLOCK FALSE
