---------------------------- MODULE MCLiveTrades ----------------------------
(* Small instances of LiveTrades: which security each trade is on.         *)
EXTENDS LiveTrades

CONSTANT sec1

\* Every trade on one security: the case in which quantities add up.
OneSec == [e \in Trades |-> sec1]
=============================================================================
