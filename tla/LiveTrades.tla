----------------------------- MODULE LiveTrades -----------------------------
(***************************************************************************)
(* The live order path of the realtime engine                              *)
(* (crates/server/src/realtime.rs): every task that can open or close a    *)
(* position, sharing one RtDoc behind a mutex and talking to the broker    *)
(* outside that mutex.                                                     *)
(*                                                                         *)
(* One step of a task is one critical section on `doc` or one broker call: *)
(* between two steps any other task runs, which is what `.await` and the   *)
(* multi-threaded runtime allow.  A trade is one run of open_entry that    *)
(* the exchange may accept; it is long and one lot, so quantities are      *)
(* units.                                                                  *)
(***************************************************************************)
EXTENDS Integers, FiniteSets

CONSTANTS
    Trades,       \* entry attempts, each naming the position it would create
    SuperTrades,  \* those sent while method = "super": native exit legs
    Secs,         \* security ids
    SecOf,        \* the security a trade is on
    Loop,         \* the 100 ms engine task (spawn_engine)
    Guard,        \* the 50 ms position guardian (spawn_guard)
    Clients,      \* concurrent HTTP requests
    None,
    MaxOutside    \* bound: square-offs the operator asks for, trades made outside
                  \* the engine, and midnights, taken together

ASSUME TradesAssumption ==
    /\ SuperTrades \subseteq Trades
    /\ SecOf \in [Trades -> Secs]
    /\ None \notin Trades

ASSUME TasksAssumption ==
    /\ Loop # Guard
    /\ Loop \notin Clients
    /\ Guard \notin Clients

ASSUME BoundsAssumption == MaxOutside \in Nat

Tasks == {Loop, Guard} \cup Clients

VARIABLES
    doc,       \* RtDoc under its mutex
    task,      \* what each task is doing
    force,     \* the force_tick flag
    late,      \* the auto square-off time of day has passed
    entryOrd,  \* entry order of a trade at the exchange
    leg,       \* native stop / target leg of a super order
    exits,     \* exit orders of a trade the broker accepted
    lost,      \* accepted entries whose answer the engine never took in
    cut,       \* super orders given up at a later slice, the earlier accepted
    dropped,   \* trades whose closer was dropped between claim and booking
    net,       \* the broker's net quantity per security
    snap,      \* broker_positions, the cached copy of net
    outside    \* what counts for MaxOutside, so far

engineVars == <<doc, task, force>>
brokerVars == <<entryOrd, leg, exits, lost, cut, dropped, net>>
vars == <<engineVars, brokerVars, late, snap, outside>>

-----------------------------------------------------------------------------
(* Types *)

PosState == {"absent", "running", "closing"}

Doc == [on: BOOLEAN, armed: BOOLEAN, squared: BOOLEAN,
        pos: [Trades -> PosState], closed: [Trades -> Nat]]

EntryPcs == {"entry", "slice", "push"}
ClosePcs == {"claim", "send", "book"}
Pcs == {"top", "square", "disarm", "arm", "scan", "super",
        "manage", "legs", "seen", "ids", "sweep", "residual"} \cup EntryPcs \cup ClosePcs

RetPcs == {"top", "legs", "manage", "sweep"}

TaskState == [pc: Pcs, e: Trades \cup {None}, ret: RetPcs,
              todo: SUBSET Trades, signed: [Secs -> {0, 1}], seen: [Secs -> Int]]

\* A task inside open_entry or close_position is at work on a trade.
TaskOK ==
    /\ task \in [Tasks -> TaskState]
    /\ \A t \in Tasks : task[t].pc \in EntryPcs \cup ClosePcs => task[t].e \in Trades

TypeOK ==
    /\ doc \in Doc
    /\ TaskOK
    /\ force \in BOOLEAN /\ late \in BOOLEAN
    /\ entryOrd \in [Trades -> {"none", "open", "traded", "rejected"}]
    /\ leg \in [Trades -> {"none", "armed", "hit", "cancelled"}]
    /\ exits \in [Trades -> Nat]
    /\ lost \subseteq Trades /\ cut \subseteq Trades /\ dropped \subseteq Trades
    /\ net \in [Secs -> Int] /\ snap \in [Secs -> Int]
    /\ outside \in Nat

-----------------------------------------------------------------------------
(* Helpers *)

Flat == [s \in Secs |-> 0]

Idle == [pc |-> "top", e |-> None, ret |-> "top", todo |-> {},
         signed |-> Flat, seen |-> Flat]

Goto(t, pc) == task' = [task EXCEPT ![t].pc = pc]

\* One more step that MaxOutside bounds.
CountOutside == outside < MaxOutside /\ outside' = outside + 1

\* A finished request, or the bottom of a task's loop, forgets its locals.
Finish(t) == task' = [task EXCEPT ![t] = Idle]

InBook(e) == doc.pos[e] # "absent"
Booked == {e \in Trades : InBook(e)}

\* The trade was pushed as a position, and may since have been closed.
Opened(e) == InBook(e) \/ doc.closed[e] > 0

\* A trade nobody has tried to enter yet: open_entry mints a fresh position.  An
\* id is a prefix and the millisecond (gen_id), so two entries of one millisecond
\* would share theirs; the model takes ids to be unique.
Fresh(e) ==
    /\ entryOrd[e] = "none"
    /\ \A t \in Tasks : task[t].e # e

\* close_position is called on e and the caller carries on at ret.
CallClose(t, e, ret) ==
    LET r == task[t] IN
    task' = [task EXCEPT ![t] = [r EXCEPT !.pc = "claim", !.e = e, !.ret = ret,
                                          !.todo = r.todo \ {e}]]

\* open_entry is called for e.
CallEntry(t, e) ==
    task' = [task EXCEPT ![t] = [Idle EXCEPT !.pc = "entry", !.e = e]]

\* A handler has collected the ids it is going to visit one by one.
Collect(t, pc, ids) ==
    task' = [task EXCEPT ![t] = [Idle EXCEPT !.pc = pc, !.todo = ids]]

\* Visiting e without calling close_position.
Skip(t, e) == task' = [task EXCEPT ![t].todo = @ \ {e}]

\* The end of close_position.
Return(t) ==
    LET r == task[t] IN
    task' = [task EXCEPT ![t] = IF r.ret = "top" THEN Idle
                                ELSE [r EXCEPT !.pc = r.ret, !.e = None, !.ret = "top"]]

Init ==
    /\ doc = [on |-> FALSE, armed |-> FALSE, squared |-> FALSE,
              pos |-> [e \in Trades |-> "absent"], closed |-> [e \in Trades |-> 0]]
    /\ task = [t \in Tasks |-> Idle]
    /\ force = FALSE /\ late = FALSE
    /\ entryOrd = [e \in Trades |-> "none"]
    /\ leg = [e \in Trades |-> "none"]
    /\ exits = [e \in Trades |-> 0]
    /\ lost = {} /\ cut = {} /\ dropped = {}
    /\ net = Flat /\ snap = Flat
    /\ outside = 0

-----------------------------------------------------------------------------
(* Operator requests that are one critical section.                        *)

ArmPost(on) ==
    /\ doc' = [doc EXCEPT !.armed = on, !.on = @ \/ on]
    /\ UNCHANGED <<task, force, brokerVars, late, snap, outside>>

EnginePost(on) ==
    /\ doc' = [doc EXCEPT !.on = on, !.armed = @ /\ on]
    /\ UNCHANGED <<task, force, brokerVars, late, snap, outside>>

TickPost ==
    /\ force' = TRUE
    /\ UNCHANGED <<doc, task, brokerVars, late, snap, outside>>

(* Operator requests that run for several steps.                           *)

EntryPost(c, e) ==
    /\ task[c].pc = "top" /\ doc.armed /\ Fresh(e)
    /\ CallEntry(c, e)
    /\ UNCHANGED <<doc, force, brokerVars, late, snap, outside>>

ClosePost(c, e) ==
    /\ task[c].pc = "top" /\ InBook(e)
    /\ CallClose(c, e, "top")
    /\ UNCHANGED <<doc, force, brokerVars, late, snap, outside>>

\* The engine's own signed quantity per security, collected into a map keyed by
\* the security: of several positions on one security the map keeps the last.
OwnPerSec == [s \in Secs |-> IF \E e \in Booked : SecOf[e] = s THEN 1 ELSE 0]

\* square_off_all copies what it will flatten before the first exit, one lock
\* after the other: its own quantities, the cached broker positions and the ids.
StartSweep(t) ==
    /\ task' = [task EXCEPT ![t] = [Idle EXCEPT !.pc = "seen", !.signed = OwnPerSec]]
    /\ UNCHANGED <<doc, force, brokerVars, late, snap>>

SquareOffPost(c) ==
    /\ task[c].pc = "top"
    /\ CountOutside
    /\ StartSweep(c)

-----------------------------------------------------------------------------
(* open_entry, from the first check to the booked position.                *)

\* open_entry returns: the scan goes on with the next strategy, a request ends.
EntryReturn(t) ==
    task' = [task EXCEPT ![t] = IF t = Loop THEN [Idle EXCEPT !.pc = "scan"] ELSE Idle]

\* No session, no price, zero quantity, margin exceeded, or a broker refusal.
EntryFail(t) ==
    /\ task[t].pc = "entry"
    /\ EntryReturn(t)
    /\ UNCHANGED <<doc, force, brokerVars, late, snap, outside>>

\* The broker accepts the order, or one more slice of a super order (the slices
\* share one fate at the exchange).  Its answer arrives, or is lost (the REST
\* client gives up after its timeout) and open_entry returns the error.
EntryPlace(t) ==
    LET e == task[t].e IN
    /\ task[t].pc \in {"entry", "slice"}
    /\ entryOrd' = IF entryOrd[e] = "none" THEN [entryOrd EXCEPT ![e] = "open"] ELSE entryOrd
    /\ \/ Goto(t, "push") /\ UNCHANGED lost
       \/ e \in SuperTrades /\ Goto(t, "slice") /\ UNCHANGED lost
       \/ lost' = lost \cup {e} /\ EntryReturn(t)
    /\ UNCHANGED <<doc, force, leg, exits, cut, dropped, net, late, snap, outside>>

\* The broker refuses a later slice: open_entry returns the error and forgets
\* the slices it had placed.
SliceRefused(t) ==
    /\ task[t].pc = "slice"
    /\ cut' = cut \cup {task[t].e}
    /\ EntryReturn(t)
    /\ UNCHANGED <<doc, force, entryOrd, leg, exits, lost, dropped, net, late, snap, outside>>

\* Mutant: only an order that has already traded becomes a position.
EntryPushTraded(t) ==
    /\ task[t].pc = "push"
    /\ doc' = IF entryOrd[task[t].e] = "traded"
              THEN [doc EXCEPT !.pos[task[t].e] = "running"] ELSE doc
    /\ EntryReturn(t)
    /\ UNCHANGED <<force, brokerVars, late, snap, outside>>

\* Mutant: the status is left at its empty default.
EntryPushUnset(t) ==
    /\ task[t].pc = "push"
    /\ doc' = [doc EXCEPT !.pos[task[t].e] = ""]
    /\ EntryReturn(t)
    /\ UNCHANGED <<force, brokerVars, late, snap, outside>>

\* The position is pushed as "running" whatever the exchange made of the order.
EntryPush(t) ==
    /\ task[t].pc = "push"
    /\ doc' = [doc EXCEPT !.pos[task[t].e] = "running"]
    /\ EntryReturn(t)
    /\ UNCHANGED <<force, brokerVars, late, snap, outside>>

-----------------------------------------------------------------------------
(* close_position: claim, send the exit order, book.                       *)

\* Mutant: the claim looks only at whether the position is still in the book.
ClaimUnchecked(t) ==
    LET e == task[t].e IN
    /\ task[t].pc = "claim"
    /\ IF InBook(e)
       THEN /\ doc' = [doc EXCEPT !.pos[e] = "closing"]
            /\ Goto(t, "send")
       ELSE Return(t) /\ UNCHANGED doc
    /\ UNCHANGED <<force, brokerVars, late, snap, outside>>

\* The status test and its update are one critical section.
Claim(t) ==
    LET e == task[t].e IN
    /\ task[t].pc = "claim"
    /\ IF doc.pos[e] = "running"
       THEN /\ doc' = [doc EXCEPT !.pos[e] = "closing"]
            /\ Goto(t, "send")
       ELSE Return(t) /\ UNCHANGED doc
    /\ UNCHANGED <<force, brokerVars, late, snap, outside>>

\* Mutant: a refused exit order makes close_position return its error at once.
SendOrReturn(t) ==
    LET e == task[t].e IN
    /\ task[t].pc = "send"
    /\ \/ Return(t) /\ UNCHANGED <<exits, net>>
       \/ /\ Goto(t, "book")
          /\ exits' = [exits EXCEPT ![e] = @ + 1]
          /\ net' = [net EXCEPT ![SecOf[e]] = @ - 1]
    /\ UNCHANGED <<doc, force, entryOrd, leg, lost, cut, dropped, late, snap, outside>>

\* With a session, a super order's legs are cancelled first, the answer ignored
\* (an entry still open is withdrawn with them); then a market order for the
\* whole quantity goes out and fills, or is refused.  Without a session nothing
\* goes out.  Whatever happened, close_position goes on to book the trade.
Send(t) ==
    LET e == task[t].e IN
    /\ task[t].pc = "send"
    /\ Goto(t, "book")
    /\ \E cancelled, sent \in BOOLEAN :
        /\ cancelled => e \in SuperTrades
        /\ leg' = IF cancelled /\ leg[e] = "armed" THEN [leg EXCEPT ![e] = "cancelled"] ELSE leg
        /\ entryOrd' = IF cancelled /\ entryOrd[e] = "open"
                       THEN [entryOrd EXCEPT ![e] = "rejected"] ELSE entryOrd
        /\ exits' = IF sent THEN [exits EXCEPT ![e] = @ + 1] ELSE exits
        /\ net' = IF sent THEN [net EXCEPT ![SecOf[e]] = @ - 1] ELSE net
    /\ UNCHANGED <<doc, force, lost, cut, dropped, late, snap, outside>>

\* Mutant: the trade is banked and its position stays in the book.
BookKeepsPosition(t) ==
    /\ task[t].pc = "book"
    /\ doc' = [doc EXCEPT !.closed[task[t].e] = @ + 1]
    /\ Return(t)
    /\ UNCHANGED <<force, brokerVars, late, snap, outside>>

Book(t) ==
    LET e == task[t].e IN
    /\ task[t].pc = "book"
    /\ doc' = [doc EXCEPT !.pos[e] = "absent", !.closed[e] = @ + 1]
    /\ Return(t)
    /\ UNCHANGED <<force, brokerVars, late, snap, outside>>

-----------------------------------------------------------------------------
(* square_off_all after its first step.                                    *)

SweepSeen(t) ==
    /\ task[t].pc = "seen"
    /\ task' = [task EXCEPT ![t].pc = "ids", ![t].seen = snap]
    /\ UNCHANGED <<doc, force, brokerVars, late, snap, outside>>

SweepIds(t) ==
    /\ task[t].pc = "ids"
    /\ task' = [task EXCEPT ![t].pc = "sweep", ![t].todo = Booked]
    /\ UNCHANGED <<doc, force, brokerVars, late, snap, outside>>

\* Every id of the snapshot that is still in the book is closed; the status is
\* looked at by the claim.
SweepVisit(t) ==
    /\ task[t].pc = "sweep"
    /\ \E e \in task[t].todo : IF InBook(e) THEN CallClose(t, e, "sweep") ELSE Skip(t, e)
    /\ UNCHANGED <<doc, force, brokerVars, late, snap, outside>>

SweepEnd(t) ==
    /\ task[t].pc = "sweep" /\ task[t].todo = {}
    /\ Goto(t, "residual")
    /\ UNCHANGED <<doc, force, brokerVars, late, snap, outside>>

\* What the engine's own signed quantity does not explain of the cached broker
\* position is sold (or bought back), security by security; each order may be
\* refused.  The securities do not interact, so they are one step.
Residual(t) ==
    LET rest(s) == task[t].seen[s] - task[t].signed[s] IN
    /\ task[t].pc = "residual"
    /\ \E sent \in SUBSET {s \in Secs : rest(s) # 0} :
        net' = [s \in Secs |-> IF s \in sent THEN net[s] - rest(s) ELSE net[s]]
    /\ IF t = Loop THEN task' = [task EXCEPT ![t] = [Idle EXCEPT !.pc = "disarm"]] ELSE Finish(t)
    /\ UNCHANGED <<doc, force, entryOrd, leg, exits, lost, cut, dropped, late, snap, outside>>

-----------------------------------------------------------------------------
(* spawn_engine: one pass of the loop.                                     *)

\* refresh() may renew the cached broker positions (every 4 s, if the call
\* succeeds); a pending Run / Tick Now switches the engine on.
LoopTop ==
    /\ task[Loop].pc = "top"
    /\ snap' \in {snap, net}
    /\ doc' = [doc EXCEPT !.on = @ \/ force]
    /\ force' = FALSE
    /\ IF doc'.on THEN Goto(Loop, "square") ELSE UNCHANGED task
    /\ UNCHANGED <<brokerVars, late, outside>>

\* check_square_off: once a day, and only when the book is not empty.
LoopSquareOff ==
    /\ task[Loop].pc = "square"
    /\ late /\ ~doc.squared /\ Booked # {}
    /\ StartSweep(Loop)
    /\ UNCHANGED outside

LoopNoSquareOff ==
    /\ task[Loop].pc = "square"
    /\ ~late \/ doc.squared \/ Booked = {}
    /\ Goto(Loop, "arm")
    /\ UNCHANGED <<doc, force, brokerVars, late, snap, outside>>

LoopDisarm ==
    /\ task[Loop].pc = "disarm"
    /\ doc' = [doc EXCEPT !.squared = TRUE, !.armed = FALSE]
    /\ Goto(Loop, "arm")
    /\ UNCHANGED <<force, brokerVars, late, snap, outside>>

\* The only place the loop reads `armed`: the scan that follows does not.
LoopArmCheck ==
    /\ task[Loop].pc = "arm"
    /\ Goto(Loop, IF doc.armed THEN "scan" ELSE "super")
    /\ UNCHANGED <<doc, force, brokerVars, late, snap, outside>>

\* scan_signals: some strategy's signal fires, or the pass is over.
ScanEntry ==
    /\ task[Loop].pc = "scan"
    /\ \E e \in Trades :
        /\ Fresh(e)
        /\ CallEntry(Loop, e)
    /\ UNCHANGED <<doc, force, brokerVars, late, snap, outside>>

ScanEnd ==
    /\ task[Loop].pc = "scan"
    /\ Goto(Loop, "super")
    /\ UNCHANGED <<doc, force, brokerVars, late, snap, outside>>

\* reconcile_super fetches the super orders and books those whose exit leg
\* traded; the fetch may fail.
SuperFetch ==
    /\ task[Loop].pc = "super"
    /\ \/ Finish(Loop)
       \/ Collect(Loop, "legs", {e \in Booked \cap SuperTrades : leg[e] = "hit"})
    /\ UNCHANGED <<doc, force, brokerVars, late, snap, outside>>

SuperVisit ==
    /\ task[Loop].pc = "legs"
    /\ \/ \E e \in task[Loop].todo :
            IF InBook(e) THEN CallClose(Loop, e, "legs") ELSE Skip(Loop, e)
       \/ task[Loop].todo = {} /\ Finish(Loop)
    /\ UNCHANGED <<doc, force, brokerVars, late, snap, outside>>

-----------------------------------------------------------------------------
(* spawn_guard and manage_positions.                                       *)

\* The guardian looks at engine_on, never at armed, and leaves out positions
\* somebody is already closing.
GuardWake ==
    /\ task[Guard].pc = "top" /\ doc.on
    /\ Collect(Guard, "manage", {e \in Booked : doc.pos[e] = "running"})
    /\ UNCHANGED <<doc, force, brokerVars, late, snap, outside>>

\* Each id is looked up again; an exit level may be breached or not.
GuardVisit ==
    /\ task[Guard].pc = "manage"
    /\ \/ \E e \in task[Guard].todo :
            \/ InBook(e) /\ CallClose(Guard, e, "manage")
            \/ Skip(Guard, e)
       \/ task[Guard].todo = {} /\ Finish(Guard)
    /\ UNCHANGED <<doc, force, brokerVars, late, snap, outside>>

-----------------------------------------------------------------------------
(* The connection of a request, the exchange, the clock, and the operator  *)
(* outside the engine.                                                     *)

\* A request is served inside its connection's future: when the browser goes
\* away the handler is dropped at the await it has reached.
HangUp(c) ==
    LET r == task[c] IN
    /\ r.pc # "top"
    /\ lost' = IF r.pc \in {"slice", "push"} THEN lost \cup {r.e} ELSE lost
    /\ dropped' = IF r.pc \in {"send", "book"} THEN dropped \cup {r.e} ELSE dropped
    /\ Finish(c)
    /\ UNCHANGED <<doc, force, entryOrd, leg, exits, cut, net, late, snap, outside>>

Fill(e) ==
    /\ entryOrd[e] = "open"
    /\ entryOrd' = [entryOrd EXCEPT ![e] = "traded"]
    /\ net' = [net EXCEPT ![SecOf[e]] = @ + 1]
    /\ leg' = IF e \in SuperTrades THEN [leg EXCEPT ![e] = "armed"] ELSE leg
    /\ UNCHANGED <<engineVars, exits, lost, cut, dropped, late, snap, outside>>

RejectEntry(e) ==
    /\ entryOrd[e] = "open"
    /\ entryOrd' = [entryOrd EXCEPT ![e] = "rejected"]
    /\ UNCHANGED <<engineVars, leg, exits, lost, cut, dropped, net, late, snap, outside>>

LegHit(e) ==
    /\ leg[e] = "armed"
    /\ leg' = [leg EXCEPT ![e] = "hit"]
    /\ net' = [net EXCEPT ![SecOf[e]] = @ - 1]
    /\ UNCHANGED <<engineVars, entryOrd, exits, lost, cut, dropped, late, snap, outside>>

ManualTrade(s) ==
    /\ CountOutside
    /\ net' = [net EXCEPT ![s] = @ + 1]
    /\ UNCHANGED <<engineVars, entryOrd, leg, exits, lost, cut, dropped, late, snap>>

SquareOffTime ==
    /\ late' = TRUE
    /\ UNCHANGED <<engineVars, brokerVars, snap, outside>>

\* The day key changes, so that a last_square_off_day of yesterday's counts no
\* more, in the document or in the file.
Midnight ==
    /\ late
    /\ CountOutside
    /\ late' = FALSE
    /\ doc' = [doc EXCEPT !.squared = FALSE]
    /\ UNCHANGED <<task, force, brokerVars, snap>>

-----------------------------------------------------------------------------

CloseStep(t) == Claim(t) \/ Send(t) \/ Book(t)
EntryStep(t) == EntryFail(t) \/ EntryPlace(t) \/ SliceRefused(t) \/ EntryPush(t)
SweepStep(t) == SweepSeen(t) \/ SweepIds(t) \/ SweepVisit(t) \/ SweepEnd(t) \/ Residual(t)

LoopStep ==
    \/ LoopTop \/ LoopSquareOff \/ LoopNoSquareOff \/ LoopDisarm \/ LoopArmCheck
    \/ ScanEntry \/ ScanEnd \/ SuperFetch \/ SuperVisit

\* What a task does by itself; a request's first step is the operator's.
TaskStep(t) ==
    \/ CloseStep(t) \/ EntryStep(t) \/ SweepStep(t)
    \/ t = Loop /\ LoopStep
    \/ t = Guard /\ (GuardWake \/ GuardVisit)

Request(c) ==
    \/ \E e \in Trades : EntryPost(c, e) \/ ClosePost(c, e)
    \/ SquareOffPost(c) \/ HangUp(c)

Operator ==
    \/ \E on \in BOOLEAN : ArmPost(on) \/ EnginePost(on)
    \/ TickPost

Exchange ==
    \/ \E e \in Trades : Fill(e) \/ RejectEntry(e) \/ LegHit(e)
    \/ \E s \in Secs : ManualTrade(s)

Next ==
    \/ \E t \in Tasks : TaskStep(t)
    \/ \E c \in Clients : Request(c)
    \/ Operator \/ Exchange \/ SquareOffTime \/ Midnight

Spec == Init /\ [][Next]_vars

\* What a square-off waits for: the loop that runs it, and whoever is closing a
\* position.  Tasks are scheduled and every broker call returns: the runtime is
\* preemptive across worker threads and the REST client has a 15 s timeout.
FairSpec ==
    Spec /\ WF_vars(SweepStep(Loop)) /\ \A t \in Tasks : WF_vars(CloseStep(t))

-----------------------------------------------------------------------------
(* What must hold.                                                         *)

\* A task between claiming a position and booking it.
Closing(t, e) == task[t].pc \in {"send", "book"} /\ task[t].e = e

\* The guardian, the broker reconciliation, operator closes and square-offs may
\* all go for one position: at most one of them ever gets an exit order accepted
\* (the atomic claim of close_position), and none does after the trade is booked
\* by another.
ExitOnce == \A e \in Trades : exits[e] <= 1

\* A position is "closing" while one task is between its claim and its booking,
\* and only then or when a dropped request left it so: no failure of the exit
\* order leaves the claim behind, and no two tasks hold it.
ClosingOwned ==
    /\ \A e \in Trades :
         doc.pos[e] = "closing" <=> (\E t \in Tasks : Closing(t, e)) \/ e \in dropped
    /\ \A t, u \in Tasks, e \in Trades : Closing(t, e) /\ Closing(u, e) => t = u
    /\ \A t \in Tasks, e \in dropped : ~Closing(t, e)

\* A trade is banked once: never twice in the closed ledger, and never both open
\* and closed, whoever raced to close it.
LedgerOnce ==
    \A e \in Trades : doc.closed[e] <= IF doc.pos[e] = "absent" THEN 1 ELSE 0

\* open_entry has an order of the trade accepted and has not returned.
Placing(t, e) == task[t].pc \in {"slice", "push"} /\ task[t].e = e

\* An entry order the broker accepted is a position, a closed trade, or in the
\* hands of the open_entry that placed it.  The engine forgets it in two cases
\* only: the answer did not reach it or its request went away, or the order is a
\* super order and a later slice of it was refused.
OrphansReported ==
    \A e \in Trades :
        entryOrd[e] # "none" =>
            \/ e \in lost \/ e \in cut \cap SuperTrades \/ Opened(e)
            \/ \E t \in Tasks : Placing(t, e)

\* Where a trade is in the book, as TradeLedger sees it.
stage == [e \in Trades |-> CASE doc.pos[e] = "running" -> "open"
                             [] doc.pos[e] = "closing" -> "closing"
                             [] OTHER -> IF doc.closed[e] > 0 THEN "closed" ELSE "none"]

Ledger == INSTANCE TradeLedger WITH sent <- exits

\* Every interleaving of the tasks, the exchange and the operator moves a trade
\* none -> open -> closing -> closed, with at most one exit order while closing.
RefinesLedger == Ledger!Spec

\* Whatever the automatic square-off set out to flatten leaves the book, also when
\* another task is closing it or its exit order fails, unless a dropped request
\* had claimed it.
SweepDrains ==
    \A e \in Trades :
        (task[Loop].pc = "sweep" /\ e \in task[Loop].todo) ~> (~InBook(e) \/ e \in dropped)

-----------------------------------------------------------------------------
(* What the comments of the code promise and the code does not keep.       *)

\* realtime.rs:9: "Square-off (auto or manual) is always allowed": a position in
\* the book can be claimed, or a task is at work on it.
AlwaysClosable ==
    \A e \in Trades : doc.pos[e] = "closing" => \E t \in Tasks : Closing(t, e)
=============================================================================
