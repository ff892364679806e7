\* One super-order trade; the loop, the guardian and a request go for it, with a
\* square-off, a trade made outside the engine or a midnight among them.
CONSTANTS
    Trades = {t1}
    SuperTrades = {t1}
    Secs = {sec1}
    sec1 = sec1
    SecOf <- OneSec
    Loop = loop
    Guard = guard
    Clients = {c1}
    None = none
    MaxOutside = 1
SPECIFICATION FairSpec
INVARIANTS TypeOK ExitOnce ClosingOwned LedgerOnce OrphansReported
PROPERTIES RefinesLedger SweepDrains
