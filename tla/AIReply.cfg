CONSTANTS
    Workers = {w1, w2}
    Messages = {m1, m2}
    Nobody = Nobody
    MaxGen = 1
    MaxFaults = 1
SPECIFICATION LiveSpec
INVARIANTS AskedOnce FenceHolds RepliedRightly LostUnanswered
PROPERTIES SettledStays CutoffFinal ImplementsStandIn EventuallySettled
