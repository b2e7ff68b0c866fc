CONSTANTS
    Agents = {a1, a2}
    Processors = {p1, p2}
    Nobody = Nobody
    MaxTransfers = 2
    MaxFaults = 1
SPECIFICATION LiveSpec
CONSTRAINT SecondIsQuiet
INVARIANTS ToldOnce
PROPERTIES ImplementsHandover ExpiryActedOn
