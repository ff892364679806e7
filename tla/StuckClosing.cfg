\* A restart from a file saved while a position was closing.
CONSTANTS
    Trades = {t1}
    SuperTrades = {}
    Secs = {sec1}
    sec1 = sec1
    SecOf <- OneSec
    Loop = loop
    Guard = guard
    Clients = {}
    None = none
    MaxOutside = 0
    MaxCrash = 1
    MaxHeld = 1
SPECIFICATION RestartSpec
INVARIANT AlwaysClosable
