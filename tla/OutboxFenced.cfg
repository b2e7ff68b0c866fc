CONSTANTS
    acct = acct
    acct2 = acct2
    ai = ai
    ai2 = ai2
    h1 = h1
    None = None
    Workers = {w1, w2}
    Jobs = {h1, ai}
    Accounts = {acct, acct2}
    AccountOf <- Apart
    Kind <- InstagramThreads
    AIJobs = {ai}
    MaxAttempts = 2
    MaxGen = 1
    MaxFaults = 1
SPECIFICATION Spec
SYMMETRY WorkerSymmetry
CONSTRAINT OneReconnected
INVARIANTS SingleAttempt OneDispatcher InstagramGeneration CancelledUnsent
PROPERTIES NoReplyAfterHandover ImplementsOutbox SettledForGood
