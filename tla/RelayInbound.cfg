SPECIFICATION LiveSpec
CONSTANTS
    Replicas = {r1, r2}
    d1 = d1
    d2 = d2
    j1 = j1
    j2 = j2
    Deliveries = {d1, d2}
    Jobs = {j1, j2}
    JobsOf <- Overlapping
    Concurrency = 1
    MaxAttempts = 2
    MaxFaults = 1
INVARIANTS QueuedWhileStored AcknowledgedKept FreshBudget
PROPERTIES ImplementsInbox EventuallySettled
CHECK_DEADLOCK FALSE
