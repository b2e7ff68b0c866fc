CONSTANTS
    acct = acct
    acct2 = acct2
    ai = ai
    ai2 = ai2
    h1 = h1
    None = None
    Workers = {w1, w2}
    Jobs = {h1, ai}
    Accounts = {acct}
    AccountOf <- OneAccount
    Kind <- Messenger
    AIJobs = {ai}
    MaxAttempts = 2
    MaxGen = 1
    MaxFaults = 1
SPECIFICATION Spec
INVARIANT ManagedGeneration
