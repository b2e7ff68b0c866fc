CONSTANTS
    acct = acct
    acct2 = acct2
    ai = ai
    ai2 = ai2
    h1 = h1
    None = None
    Workers = {w1}
    Jobs = {h1, ai, h2, ai2}
    Accounts = {acct, acct2}
    AccountOf <- TwoAccounts
    Kind <- MessengerStatic
    AIJobs = {ai, ai2}
    MaxAttempts = 2
    MaxGen = 1
    MaxFaults = 1
SPECIFICATION LiveSpec
CONSTRAINT OneAccountUsed
INVARIANT FencedBudget
PROPERTY EventuallySettled
