\* One trade, two restarts at any moment, two documents on their way to the file.
CONSTANTS
    Trades = {t1}
    SuperTrades = {}
    Secs = {sec1}
    sec1 = sec1
    SecOf <- OneSec
    Loop = loop
    Guard = guard
    Clients = {}
    None = none
    MaxOutside = 0
    MaxCrash = 2
    MaxHeld = 2
SPECIFICATION RestartSpec
INVARIANTS ExitBudget LedgerOnceEverywhere
