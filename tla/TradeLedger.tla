----------------------------- MODULE TradeLedger -----------------------------
(***************************************************************************)
(* What the realtime engine promises of each trade, whoever closes it and  *)
(* whatever the broker answers: it is opened at most once, claimed by one  *)
(* closer, gets at most one exit order and is booked once, in that order.  *)
(***************************************************************************)
EXTENDS Naturals

CONSTANT Trades

VARIABLES
    stage,  \* where the trade is in the engine's book
    sent    \* exit orders the broker accepted for it

vars == <<stage, sent>>

Stages == {"none", "open", "closing", "closed"}

TypeOK == stage \in [Trades -> Stages] /\ sent \in [Trades -> 0..1]

Init ==
    /\ stage = [e \in Trades |-> "none"]
    /\ sent = [e \in Trades |-> 0]

Move(e, from, to) == stage[e] = from /\ stage' = [stage EXCEPT ![e] = to]

Open(e) == Move(e, "none", "open") /\ UNCHANGED sent

Claim(e) == Move(e, "open", "closing") /\ UNCHANGED sent

Exit(e) ==
    /\ stage[e] = "closing" /\ sent[e] = 0
    /\ sent' = [sent EXCEPT ![e] = 1]
    /\ UNCHANGED stage

Book(e) == Move(e, "closing", "closed") /\ UNCHANGED sent

Next == \E e \in Trades : Open(e) \/ Claim(e) \/ Exit(e) \/ Book(e)

Spec == Init /\ [][Next]_vars
=============================================================================
