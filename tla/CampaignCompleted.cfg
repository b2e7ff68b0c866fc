CONSTANTS
    Workers = {w1, w2}
    Recipients = {r1, r2}
    Nobody = Nobody
    MaxGen = 2
    MaxFaults = 0
SPECIFICATION Spec
INVARIANTS CompletedIsProcessed
CHECK_DEADLOCK FALSE
