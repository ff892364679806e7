-------------------------- MODULE MCRestartedTrades --------------------------
(* A small instance of RestartedTrades.                                    *)
EXTENDS RestartedTrades

CONSTANT sec1

OneSec == [e \in Trades |-> sec1]
=============================================================================
