-------------------------- MODULE LiveTradesProofs --------------------------
(***************************************************************************)
(* Theorems about LiveTrades and RestartedTrades, for every set of trades,  *)
(* requests and securities, every order of saves and any number of restarts. *)
(***************************************************************************)
EXTENDS RestartedTrades, TLAPS

USE DEF Tasks

-----------------------------------------------------------------------------
(* Types.                                                                  *)

\* A task between two requests or passes is well typed.
LEMMA IdleType == Idle \in TaskState
BY DEF TaskState, Pcs, EntryPcs, ClosePcs, RetPcs, Idle, Flat

\* Updating the fields of a task's record keeps its type.
LEMMA RecordType ==
  ASSUME NEW r \in TaskState
  PROVE  /\ \A pc \in Pcs : [r EXCEPT !.pc = pc] \in TaskState
         /\ \A pc \in Pcs, e \in Trades \cup {None} : [r EXCEPT !.pc = pc, !.e = e] \in TaskState
         /\ \A s \in SUBSET Trades : [r EXCEPT !.todo = s] \in TaskState
         /\ \A pc \in Pcs, e \in Trades \cup {None}, ret \in RetPcs :
               [r EXCEPT !.pc = pc, !.e = e, !.ret = ret] \in TaskState
         /\ \A pc \in Pcs, e \in Trades \cup {None}, ret \in RetPcs, s \in SUBSET Trades :
               [r EXCEPT !.pc = pc, !.e = e, !.ret = ret, !.todo = s] \in TaskState
BY DEF TaskState

\* A task that stores a well-typed record keeps TaskOK: when it is inside
\* open_entry or close_position it must be at work on a trade.
LEMMA TaskWrite ==
  ASSUME TaskOK, NEW t \in Tasks, NEW r \in TaskState,
         r.pc \in EntryPcs \cup ClosePcs => r.e \in Trades,
         task' = [task EXCEPT ![t] = r]
  PROVE  TaskOK'
BY DEF TaskOK

\* Moving on, calling close_position or open_entry, visiting without closing,
\* collecting ids, returning and finishing: the eight ways a task's record
\* changes keep TaskOK.
LEMMA GotoType ==
  ASSUME TaskOK, NEW t \in Tasks, NEW pc \in Pcs,
         pc \in EntryPcs \cup ClosePcs => task[t].e \in Trades,
         Goto(t, pc)
  PROVE  TaskOK'
<1>1. [task[t] EXCEPT !.pc = pc] \in TaskState
  BY RecordType DEF TaskOK
<1>2. task' = [task EXCEPT ![t] = [task[t] EXCEPT !.pc = pc]]
  BY DEF Goto
<1> QED BY <1>1, <1>2, TaskWrite DEF TaskState, TaskOK

\* ... calling close_position,
LEMMA CallCloseType ==
  ASSUME TaskOK, NEW t \in Tasks, NEW e \in Trades, NEW ret \in RetPcs,
         CallClose(t, e, ret)
  PROVE  TaskOK'
<1> DEFINE r == [task[t] EXCEPT !.pc = "claim", !.e = e, !.ret = ret, !.todo = task[t].todo \ {e}]
<1>1. r \in TaskState
  <2>1. task[t] \in TaskState BY DEF TaskOK
  <2>2. "claim" \in Pcs BY DEF Pcs, ClosePcs
  <2>3. task[t].todo \ {e} \in SUBSET Trades BY <2>1 DEF TaskState
  <2> QED BY <2>1, <2>2, <2>3, RecordType
<1>2. task' = [task EXCEPT ![t] = r]
  BY Zenon DEF CallClose
<1>3. r.e = e
  BY DEF TaskOK, TaskState
<1> QED BY <1>1, <1>2, <1>3, TaskWrite

\* ... visiting an id without closing it,
LEMMA SkipType ==
  ASSUME TaskOK, NEW t \in Tasks, NEW e, Skip(t, e)
  PROVE  TaskOK'
<1> DEFINE r == [task[t] EXCEPT !.todo = @ \ {e}]
<1>1. r \in TaskState /\ r.pc = task[t].pc /\ r.e = task[t].e
  <2>1. task[t] \in TaskState BY DEF TaskOK
  <2>2. task[t].todo \ {e} \in SUBSET Trades BY <2>1 DEF TaskState
  <2>3. r \in TaskState BY <2>1, <2>2, RecordType
  <2>4. r.pc = task[t].pc /\ r.e = task[t].e BY <2>1 DEF TaskState
  <2> QED BY <2>3, <2>4
<1>2. task' = [task EXCEPT ![t] = r]
  BY DEF Skip, TaskOK
<1> QED BY <1>1, <1>2, TaskWrite DEF TaskOK

\* ... falling back to a place outside any call,
LEMMA FinishType ==
  ASSUME TaskOK, NEW t \in Tasks, NEW pc \in Pcs \ (EntryPcs \cup ClosePcs),
         task' = [task EXCEPT ![t] = [Idle EXCEPT !.pc = pc]]
  PROVE  TaskOK'
<1>1. [Idle EXCEPT !.pc = pc] \in TaskState /\ [Idle EXCEPT !.pc = pc].pc = pc
  BY IdleType DEF Idle, TaskState
<1> QED BY <1>1, TaskWrite

\* ... returning from close_position,
LEMMA ReturnType ==
  ASSUME TaskOK, NEW t \in Tasks, Return(t)
  PROVE  TaskOK'
<1> DEFINE r == IF task[t].ret = "top" THEN Idle
                ELSE [task[t] EXCEPT !.pc = task[t].ret, !.e = None, !.ret = "top"]
<1>1. r \in TaskState /\ r.pc \in RetPcs
  <2>1. task[t].ret \in RetPcs /\ RetPcs \subseteq Pcs /\ Idle.pc \in RetPcs BY DEF RetPcs, Pcs, TaskOK, TaskState, Idle
  <2>2. CASE task[t].ret = "top" BY <2>1, <2>2, IdleType
  <2>3. CASE task[t].ret # "top" BY <2>1, <2>3 DEF TaskOK, TaskState, RetPcs
  <2> QED BY <2>2, <2>3
<1>2. task' = [task EXCEPT ![t] = r]
  BY DEF Return
<1>3. RetPcs \cap (EntryPcs \cup ClosePcs) = {} BY DEF RetPcs, EntryPcs, ClosePcs
<1> QED BY <1>1, <1>2, <1>3, TaskWrite

\* ... collecting the ids to visit,
LEMMA CollectType ==
  ASSUME TaskOK, NEW t \in Tasks, NEW pc \in Pcs \ (EntryPcs \cup ClosePcs),
         NEW ids \in SUBSET Trades, Collect(t, pc, ids)
  PROVE  TaskOK'
<1> DEFINE r == [Idle EXCEPT !.pc = pc, !.todo = ids]
<1>1. r \in TaskState /\ r.pc = pc
  BY IdleType DEF TaskState
<1> QED BY <1>1, TaskWrite DEF Collect

\* ... calling open_entry.
LEMMA CallEntryType ==
  ASSUME TaskOK, NEW t \in Tasks, NEW e \in Trades, CallEntry(t, e)
  PROVE  TaskOK'
<1> DEFINE r == [Idle EXCEPT !.pc = "entry", !.e = e]
<1>1. r \in TaskState /\ r.e = e
  BY IdleType DEF TaskState, Pcs, EntryPcs
<1> QED BY <1>1, TaskWrite DEF CallEntry

\* The second and third lock of square_off_all write two fields each.
LEMMA SeenWrite ==
  ASSUME NEW t, SweepSeen(t)
  PROVE  task' = [task EXCEPT ![t] = [task[t] EXCEPT !.pc = "ids", !.seen = snap]]
BY Zenon DEF SweepSeen

\* ... the third the place and the ids.
LEMMA IdsWrite ==
  ASSUME NEW t, SweepIds(t)
  PROVE  task' = [task EXCEPT ![t] = [task[t] EXCEPT !.pc = "sweep", !.todo = Booked]]
BY Zenon DEF SweepIds

\* Every step of every task, request and outsider keeps the tasks well typed.
LEMMA TaskTypeStep == TypeOK /\ [Next]_vars => TaskOK'
<1> SUFFICES ASSUME TypeOK, [Next]_vars PROVE TaskOK'
  OBVIOUS
<1>0. TaskOK BY DEF TypeOK
<1> USE <1>0
<1>p. /\ {"send", "book", "slice", "push"} \subseteq Pcs
      /\ {"square", "disarm", "arm", "scan", "super", "legs", "manage", "residual", "top",
           "seen", "ids", "sweep"} \subseteq Pcs \ (EntryPcs \cup ClosePcs)
      /\ {"top", "legs", "manage", "sweep"} = RetPcs
  BY DEF Pcs, EntryPcs, ClosePcs, RetPcs
<1>u. task' = task => TaskOK'
  BY DEF TaskOK
<1>i. Idle = [Idle EXCEPT !.pc = "top"]
  BY DEF Idle
<1>f. ASSUME NEW t \in Tasks, Finish(t) PROVE TaskOK'
  BY <1>f, <1>i, <1>p, FinishType DEF Finish
<1>r. ASSUME NEW t \in Tasks, EntryReturn(t) PROVE TaskOK'
  <2>1. CASE t = Loop
    BY <1>r, <2>1, <1>p, FinishType DEF EntryReturn
  <2>2. CASE t # Loop
    BY <1>r, <2>2, <1>f DEF EntryReturn, Finish
  <2> QED BY <2>1, <2>2
<1>s. ASSUME NEW t \in Tasks, StartSweep(t) PROVE TaskOK'
  <2> DEFINE r == [Idle EXCEPT !.pc = "seen", !.signed = OwnPerSec]
  <2>1. OwnPerSec \in [Secs -> {0, 1}]
    BY DEF OwnPerSec
  <2>3. r \in TaskState /\ r.pc \notin EntryPcs \cup ClosePcs
    BY <2>1, IdleType DEF TaskState, Pcs, EntryPcs, ClosePcs
  <2>4. task' = [task EXCEPT ![t] = r]
    BY <1>s, Zenon DEF StartSweep
  <2> QED BY <2>3, <2>4, TaskWrite
<1>1. ASSUME NEW t \in Tasks, TaskStep(t) PROVE TaskOK'
  <2>w. task[t].pc \in EntryPcs \cup ClosePcs => task[t].e \in Trades
    BY DEF TaskOK
  <2>1. CASE Claim(t)
    BY <2>1, <2>w, <1>p, GotoType, ReturnType DEF Claim, EntryPcs, ClosePcs
  <2>2. CASE Send(t)
    BY <2>2, <2>w, <1>p, GotoType DEF Send, EntryPcs, ClosePcs
  <2>3. CASE Book(t)
    BY <2>3, ReturnType DEF Book
  <2>4. CASE EntryFail(t)
    BY <2>4, <1>r DEF EntryFail
  <2>5. CASE EntryPlace(t)
    <3>1. task[t].e \in Trades
      BY <2>5, <2>w DEF EntryPlace, EntryPcs
    <3>2. Goto(t, "push") \/ Goto(t, "slice") \/ EntryReturn(t)
      BY <2>5 DEF EntryPlace
    <3> QED BY <3>1, <3>2, <1>p, <1>r, GotoType
  <2>5a. CASE SliceRefused(t)
    BY <2>5a, <1>r DEF SliceRefused
  <2>6. CASE EntryPush(t)
    BY <2>6, <1>r DEF EntryPush
  <2>7. CASE SweepVisit(t)
    <3>1. PICK e \in task[t].todo :
            IF InBook(e) THEN CallClose(t, e, "sweep") ELSE Skip(t, e)
      BY <2>7 DEF SweepVisit
    <3>2. e \in Trades
      BY DEF TaskOK, TaskState
    <3> QED BY <3>1, <3>2, <1>p, CallCloseType, SkipType
  <2>7a. CASE SweepSeen(t)
    <3> DEFINE r == [task[t] EXCEPT !.pc = "ids", !.seen = snap]
    <3>1. r \in TaskState /\ r.pc \notin EntryPcs \cup ClosePcs
      <4>1. task[t] \in TaskState /\ "ids" \in Pcs \ (EntryPcs \cup ClosePcs)
        BY <1>p DEF TaskOK
      <4>2. snap \in [Secs -> Int]
        BY DEF TypeOK
      <4> QED BY <4>1, <4>2 DEF TaskState
    <3>2. task' = [task EXCEPT ![t] = r]
      BY <2>7a, SeenWrite
    <3> QED BY <3>1, <3>2, TaskWrite
  <2>7b. CASE SweepIds(t)
    <3> DEFINE r == [task[t] EXCEPT !.pc = "sweep", !.todo = Booked]
    <3>1. r \in TaskState /\ r.pc \notin EntryPcs \cup ClosePcs
      <4>1. task[t] \in TaskState /\ "sweep" \in Pcs \ (EntryPcs \cup ClosePcs)
        BY <1>p DEF TaskOK
      <4>2. Booked \in SUBSET Trades
        BY DEF Booked
      <4> QED BY <4>1, <4>2 DEF TaskState
    <3>2. task' = [task EXCEPT ![t] = r]
      BY <2>7b, IdsWrite
    <3> QED BY <3>1, <3>2, TaskWrite
  <2>8. CASE SweepEnd(t)
    BY <2>8, <1>p, GotoType DEF SweepEnd
  <2>9. CASE Residual(t)
    BY <2>9, <1>p, <1>f, FinishType DEF Residual
  <2>10. CASE t = Loop /\ LoopStep
    <3>1. CASE LoopTop BY <3>1, <1>p, <1>u, GotoType DEF LoopTop
    <3>2. CASE LoopSquareOff BY <3>2, <1>s DEF LoopSquareOff
    <3>3. CASE LoopNoSquareOff BY <3>3, <1>p, GotoType DEF LoopNoSquareOff
    <3>4. CASE LoopDisarm BY <3>4, <1>p, GotoType DEF LoopDisarm
    <3>5. CASE LoopArmCheck BY <3>5, <1>p, GotoType DEF LoopArmCheck
    <3>6. CASE ScanEntry BY <3>6, CallEntryType DEF ScanEntry
    <3>7. CASE ScanEnd BY <3>7, <1>p, GotoType DEF ScanEnd
    <3>8. CASE SuperFetch
      <4>1. {e \in Booked \cap SuperTrades : leg[e] = "hit"} \in SUBSET Trades
        BY DEF Booked
      <4> QED BY <3>8, <4>1, <1>p, <1>f, CollectType DEF SuperFetch
    <3>9. CASE SuperVisit
      <4>1. ASSUME NEW e \in task[Loop].todo,
                   IF InBook(e) THEN CallClose(Loop, e, "legs") ELSE Skip(Loop, e)
            PROVE  TaskOK'
        <5>1. e \in Trades
          BY DEF TaskOK, TaskState
        <5> QED BY <4>1, <5>1, <1>p, CallCloseType, SkipType
      <4> QED BY <3>9, <4>1, <1>f DEF SuperVisit
    <3> QED BY <2>10, <3>1, <3>2, <3>3, <3>4, <3>5, <3>6, <3>7, <3>8, <3>9 DEF LoopStep
  <2>11. CASE t = Guard /\ GuardWake
    <3>1. {e \in Booked : doc.pos[e] = "running"} \in SUBSET Trades
      BY DEF Booked
    <3> QED BY <2>11, <3>1, <1>p, CollectType DEF GuardWake
  <2>12. CASE t = Guard /\ GuardVisit
    <3>1. ASSUME NEW e \in task[Guard].todo,
                 CallClose(Guard, e, "manage") \/ Skip(Guard, e)
          PROVE  TaskOK'
      <4>1. e \in Trades
        BY DEF TaskOK, TaskState
      <4> QED BY <3>1, <4>1, <1>p, CallCloseType, SkipType
    <3> QED BY <2>12, <3>1, <1>f DEF GuardVisit
  <2> QED
    BY <1>1, <2>1, <2>2, <2>3, <2>4, <2>5, <2>5a, <2>6, <2>7, <2>7a, <2>7b, <2>8, <2>9,
       <2>10, <2>11, <2>12
       DEF TaskStep, CloseStep, EntryStep, SweepStep
<1>2. ASSUME NEW c \in Clients, Request(c) PROVE TaskOK'
  <2>1. ASSUME NEW e \in Trades, EntryPost(c, e) PROVE TaskOK'
    BY <2>1, CallEntryType DEF EntryPost
  <2>2. ASSUME NEW e \in Trades, ClosePost(c, e) PROVE TaskOK'
    BY <2>2, <1>p, CallCloseType DEF ClosePost
  <2>3. CASE SquareOffPost(c)
    BY <2>3, <1>s DEF SquareOffPost
  <2>4. CASE HangUp(c)
    BY <2>4, <1>f DEF HangUp
  <2> QED BY <1>2, <2>1, <2>2, <2>3, <2>4 DEF Request
<1>3. CASE Operator \/ Exchange \/ SquareOffTime \/ Midnight \/ UNCHANGED vars
  BY <1>3, <1>u DEF Operator, ArmPost, EnginePost, TickPost, Exchange, Fill, RejectEntry,
       LegHit, ManualTrade, CountOutside, SquareOffTime, Midnight, vars, engineVars
<1> QED BY <1>1, <1>2, <1>3 DEF Next

\* The document, the order book and the broker's quantities keep their types.
LEMMA TypeStep == TypeOK /\ [Next]_vars => TypeOK'
<1> SUFFICES ASSUME TypeOK, [Next]_vars PROVE TypeOK'
  OBVIOUS
<1>t. TaskOK'
  BY TaskTypeStep
<1>a. SecOf \in [Trades -> Secs]
  BY TradesAssumption
<1> USE <1>t DEF TypeOK, Doc, PosState, brokerVars, engineVars
<1>1. ASSUME NEW t \in Tasks, TaskStep(t) PROVE TypeOK'
  <2>w. task[t].pc \in EntryPcs \cup ClosePcs => task[t].e \in Trades
    BY DEF TaskOK
  <2>1. CASE Claim(t)
    BY <2>1 DEF Claim
  <2>2. CASE Send(t)
    <3> DEFINE e == task[t].e
    <3>1. e \in Trades /\ SecOf[e] \in Secs
      BY <2>2, <2>w, <1>a DEF Send, ClosePcs
    <3>2. PICK cancelled, sent \in BOOLEAN :
            /\ leg' = IF cancelled /\ leg[e] = "armed"
                      THEN [leg EXCEPT ![e] = "cancelled"] ELSE leg
            /\ entryOrd' = IF cancelled /\ entryOrd[e] = "open"
                           THEN [entryOrd EXCEPT ![e] = "rejected"] ELSE entryOrd
            /\ exits' = IF sent THEN [exits EXCEPT ![e] = @ + 1] ELSE exits
            /\ net' = IF sent THEN [net EXCEPT ![SecOf[e]] = @ - 1] ELSE net
      BY <2>2, Zenon DEF Send
    <3>3. /\ leg' \in [Trades -> {"none", "armed", "hit", "cancelled"}]
          /\ entryOrd' \in [Trades -> {"none", "open", "traded", "rejected"}]
      BY <3>1, <3>2
    <3>4. exits' \in [Trades -> Nat] /\ net' \in [Secs -> Int]
      BY <3>1, <3>2
    <3> QED BY <2>2, <3>3, <3>4 DEF Send
  <2>3. CASE Book(t)
    <3>1. task[t].e \in Trades
      BY <2>3, <2>w DEF Book, ClosePcs
    <3> DEFINE e == task[t].e
               pos1 == [doc.pos EXCEPT ![e] = "absent"]
               closed1 == [doc.closed EXCEPT ![e] = doc.closed[e] + 1]
    <3>2. doc' \in Doc
      <4>1. pos1 \in [Trades -> PosState] /\ closed1 \in [Trades -> Nat]
        BY <3>1
      <4>2. doc' = [[doc EXCEPT !.pos = pos1] EXCEPT !.closed = closed1]
        BY <2>3 DEF Book
      <4> HIDE DEF pos1, closed1
      <4> QED BY <4>1, <4>2
    <3> QED BY <2>3, <3>2 DEF Book
  <2>4. CASE EntryFail(t)
    BY <2>4 DEF EntryFail
  <2>5. CASE EntryPlace(t)
    BY <2>5, <2>w DEF EntryPlace, EntryPcs
  <2>5a. CASE SliceRefused(t)
    BY <2>5a, <2>w DEF SliceRefused, EntryPcs
  <2>6. CASE EntryPush(t)
    BY <2>6 DEF EntryPush
  <2>7. CASE SweepVisit(t)
    BY <2>7 DEF SweepVisit
  <2>7a. CASE SweepSeen(t) \/ SweepIds(t)
    BY <2>7a DEF SweepSeen, SweepIds
  <2>8. CASE SweepEnd(t)
    BY <2>8 DEF SweepEnd
  <2>9. CASE Residual(t)
    <3> DEFINE rest(s) == task[t].seen[s] - task[t].signed[s]
    <3>1. \A s \in Secs : rest(s) \in Int
      BY DEF TaskOK, TaskState
    <3>2. PICK sent : net' = [s \in Secs |-> IF s \in sent THEN net[s] - rest(s) ELSE net[s]]
      BY <2>9 DEF Residual
    <3>3. net' \in [Secs -> Int]
      BY <3>1, <3>2
    <3> QED BY <2>9, <3>3 DEF Residual
  <2>10. CASE t = Loop /\ LoopStep
    <3>1. CASE LoopTop
      BY <3>1 DEF LoopTop
    <3>2. CASE LoopSquareOff
      BY <3>2 DEF LoopSquareOff, StartSweep
    <3>3. CASE LoopDisarm
      BY <3>3 DEF LoopDisarm
    <3>4. CASE LoopNoSquareOff \/ LoopArmCheck \/ ScanEntry \/ ScanEnd \/ SuperFetch \/ SuperVisit
      BY <3>4 DEF LoopNoSquareOff, LoopArmCheck, ScanEntry, ScanEnd, SuperFetch, SuperVisit
    <3> QED BY <2>10, <3>1, <3>2, <3>3, <3>4 DEF LoopStep
  <2>11. CASE t = Guard /\ (GuardWake \/ GuardVisit)
    BY <2>11 DEF GuardWake, GuardVisit
  <2> QED
    BY <1>1, <2>1, <2>2, <2>3, <2>4, <2>5, <2>5a, <2>6, <2>7, <2>7a, <2>8, <2>9, <2>10,
       <2>11
       DEF TaskStep, CloseStep, EntryStep, SweepStep
<1>2. ASSUME NEW c \in Clients, Request(c) PROVE TypeOK'
  <2>1. CASE HangUp(c)
    <3>1. task[c].pc \in EntryPcs \cup ClosePcs => task[c].e \in Trades
      BY DEF TaskOK
    <3> QED BY <2>1, <3>1 DEF HangUp, EntryPcs, ClosePcs
  <2>2. CASE ~HangUp(c)
    BY <1>2, <2>2 DEF Request, EntryPost, ClosePost, SquareOffPost, CountOutside, StartSweep
  <2> QED BY <2>1, <2>2
<1>3. CASE Operator
  BY <1>3 DEF Operator, ArmPost, EnginePost, TickPost
<1>4. CASE Exchange
  BY <1>4, <1>a DEF Exchange, Fill, RejectEntry, LegHit, ManualTrade, CountOutside
<1>5. CASE SquareOffTime
  BY <1>5 DEF SquareOffTime
<1>5a. CASE Midnight
  <2>1. doc' \in Doc
    BY <1>5a DEF Midnight
  <2>2. outside' \in Nat
    BY <1>5a DEF Midnight, CountOutside
  <2>3. late' \in BOOLEAN
    BY <1>5a, Zenon DEF Midnight
  <2> QED BY <1>5a, <2>1, <2>2, <2>3 DEF Midnight
<1>6. CASE UNCHANGED vars
  BY <1>6 DEF vars
<1> QED BY <1>1, <1>2, <1>3, <1>4, <1>5, <1>5a, <1>6 DEF Next

\* The empty book of new_mode is well typed.
LEMMA TypeInit == Init => TypeOK
<1> SUFFICES ASSUME Init PROVE TypeOK
  OBVIOUS
<1>1. doc \in Doc
  BY DEF Init, Doc, PosState
<1>2. TaskOK
  BY IdleType DEF Init, TaskOK, Idle, EntryPcs, ClosePcs
<1>3. Flat \in [Secs -> Int]
  BY DEF Flat
<1>4. /\ entryOrd \in [Trades -> {"none", "open", "traded", "rejected"}]
      /\ leg \in [Trades -> {"none", "armed", "hit", "cancelled"}]
      /\ exits \in [Trades -> Nat]
  BY DEF Init
<1> QED BY <1>1, <1>2, <1>3, <1>4 DEF Init, TypeOK

\* Type correctness: whatever the tasks, the exchange and the operator do, every
\* variable keeps its type, and a task inside open_entry or close_position is at
\* work on a trade.
THEOREM TypeCorrect == Spec => []TypeOK
BY TypeInit, TypeStep, PTL DEF Spec

-----------------------------------------------------------------------------
(* Who holds a trade.                                                      *)

Entering(t, e) == task[t].pc \in EntryPcs /\ task[t].e = e

\* One open_entry at a time works on a trade, and none once it was pushed.
EntryOwned ==
    /\ \A t, u \in Tasks, e \in Trades : Entering(t, e) /\ Entering(u, e) => t = u
    /\ \A t \in Tasks, e \in Trades : Entering(t, e) => ~Opened(e)
    /\ \A t \in Tasks : task[t].pc = "entry" => entryOrd[task[t].e] = "none"

\* What is in the book, or was, has an entry order the broker accepted; only
\* such a trade is ever claimed.
OpenedWasOrdered ==
    /\ \A e \in Trades : Opened(e) => entryOrd[e] # "none"
    /\ \A t \in Tasks : task[t].pc \in ClosePcs => Opened(task[t].e)

\* Once open_entry has had an order accepted the trade stays ordered.
PushedWasOrdered ==
    \A t \in Tasks : task[t].pc \in {"slice", "push"} => entryOrd[task[t].e] # "none"

\* Only a super order is placed slice by slice.
SlicesAreSuper == \A t \in Tasks : task[t].pc = "slice" => task[t].e \in SuperTrades

\* An exit order was accepted only for a trade booked closed, being booked, or
\* left "closing" by a dropped request.
ExitIsBooked ==
    \A e \in Trades :
        exits[e] > 0 =>
            \/ doc.closed[e] > 0 \/ e \in dropped
            \/ \E t \in Tasks : task[t].pc = "book" /\ task[t].e = e

\* The inductive invariant.
IInv ==
    /\ TypeOK
    /\ EntryOwned /\ OpenedWasOrdered /\ PushedWasOrdered /\ SlicesAreSuper
    /\ ExitIsBooked
    /\ ClosingOwned /\ LedgerOnce /\ ExitOnce /\ OrphansReported

-----------------------------------------------------------------------------
(* Most steps do not touch what the invariant is about.                    *)

\* Task u keeps its place, or leaves a place without consequences for one
\* outside every call, or starts to close a trade that was pushed.
Quiet(u) ==
    \/ task'[u].pc = task[u].pc /\ task'[u].e = task[u].e
    \/ /\ task[u].pc \notin {"slice", "push", "send", "book"}
       /\ \/ task'[u].pc \notin EntryPcs \cup ClosePcs
          \/ task'[u].pc = "claim" /\ Opened(task'[u].e)

\* A step that moves no trade and whose tasks are quiet keeps the invariant.
LEMMA QuietStep ==
  ASSUME IInv, TypeOK',
         doc'.pos = doc.pos, doc'.closed = doc.closed, exits' = exits, lost' = lost, cut' = cut, dropped' = dropped,
         \A e \in Trades : entryOrd'[e] = "none" <=> entryOrd[e] = "none",
         \A u \in Tasks : Quiet(u)
  PROVE  IInv'
<1>w. \A u \in Tasks : task[u].pc \in EntryPcs \cup ClosePcs => task[u].e \in Trades
  BY DEF IInv, TypeOK, TaskOK
<1>w1. \A u \in Tasks : task'[u].pc \in EntryPcs \cup ClosePcs => task'[u].e \in Trades
  BY DEF TypeOK, TaskOK
<1>o. \A e : Opened(e)' <=> Opened(e)
  BY DEF Opened, InBook
<1>e. \A u \in Tasks : task'[u].pc \in EntryPcs =>
        task[u].pc = task'[u].pc /\ task[u].e = task'[u].e
  BY DEF Quiet, EntryPcs
<1>c. \A u \in Tasks : (task'[u].pc \in {"slice", "push", "send", "book"}
                         \/ task[u].pc \in {"slice", "push", "send", "book"}) =>
        task[u].pc = task'[u].pc /\ task[u].e = task'[u].e
  BY DEF Quiet, EntryPcs, ClosePcs
<1>1. EntryOwned'
  BY <1>e, <1>o, <1>w DEF IInv, EntryOwned, Entering, EntryPcs
<1>2. OpenedWasOrdered'
  <2>1. ASSUME NEW u \in Tasks, task'[u].pc \in ClosePcs PROVE Opened(task'[u].e)
    BY <2>1 DEF Quiet, IInv, OpenedWasOrdered, ClosePcs
  <2> QED BY <2>1, <1>o DEF IInv, OpenedWasOrdered
<1>3. ExitIsBooked'
  BY <1>c DEF IInv, ExitIsBooked
<1>4. ClosingOwned'
  BY <1>c DEF IInv, ClosingOwned, Closing
<1>5. LedgerOnce' /\ ExitOnce'
  BY DEF IInv, LedgerOnce, ExitOnce
<1>6. OrphansReported' /\ PushedWasOrdered' /\ SlicesAreSuper'
  <2>1. \A u \in Tasks : task[u].pc \in {"slice", "push"} => task[u].e \in Trades
    BY <1>w DEF EntryPcs
  <2> QED BY <2>1, <1>c, <1>o DEF IInv, OrphansReported, Placing, PushedWasOrdered, SlicesAreSuper
<1> QED BY <1>1, <1>2, <1>3, <1>4, <1>5, <1>6 DEF IInv

\* The task that stores the record r is quiet if r says so; the others are.
LEMMA QuietWrite ==
  ASSUME TaskOK, NEW t \in Tasks, NEW r, task' = [task EXCEPT ![t] = r],
         \/ r.pc = task[t].pc /\ r.e = task[t].e
         \/ /\ task[t].pc \notin {"slice", "push", "send", "book"}
            /\ \/ r.pc \notin EntryPcs \cup ClosePcs
               \/ r.pc = "claim" /\ Opened(r.e)
  PROVE  \A u \in Tasks : Quiet(u)
<1>1. \A u \in Tasks : task'[u] = IF u = t THEN r ELSE task[u]
  BY DEF TaskOK
<1> QED BY <1>1 DEF Quiet

\* The quiet ways to change a task's record: calling close_position on a trade
\* that is in the book, or was,
LEMMA QuietCallClose ==
  ASSUME TaskOK, NEW t \in Tasks, NEW e, NEW ret, CallClose(t, e, ret), Opened(e),
         task[t].pc \notin {"slice", "push", "send", "book"}
  PROVE  \A u \in Tasks : Quiet(u)
<1> DEFINE r == [task[t] EXCEPT !.pc = "claim", !.e = e, !.ret = ret, !.todo = task[t].todo \ {e}]
<1>1. r.pc = "claim" /\ r.e = e
  BY DEF TaskOK, TaskState
<1>2. task' = [task EXCEPT ![t] = r]
  BY Zenon DEF CallClose
<1> HIDE DEF r
<1> QED BY <1>1, <1>2, QuietWrite

\* visiting an id without closing it,
LEMMA QuietSkip ==
  ASSUME TaskOK, NEW t \in Tasks, NEW e, Skip(t, e)
  PROVE  \A u \in Tasks : Quiet(u)
<1> DEFINE r == [task[t] EXCEPT !.todo = @ \ {e}]
<1>1. r.pc = task[t].pc /\ r.e = task[t].e
  BY DEF TaskOK, TaskState
<1>2. task' = [task EXCEPT ![t] = r]
  BY DEF Skip, TaskOK
<1> HIDE DEF r
<1> QED BY <1>1, <1>2, QuietWrite

\* moving on outside every call,
LEMMA QuietGoto ==
  ASSUME TaskOK, NEW t \in Tasks, NEW pc, Goto(t, pc),
         pc \notin EntryPcs \cup ClosePcs, task[t].pc \notin {"slice", "push", "send", "book"}
  PROVE  \A u \in Tasks : Quiet(u)
<1> DEFINE r == [task[t] EXCEPT !.pc = pc]
<1>1. r.pc = pc
  BY DEF TaskOK, TaskState
<1>2. task' = [task EXCEPT ![t] = r]
  BY DEF Goto, TaskOK
<1> HIDE DEF r
<1> QED BY <1>1, <1>2, QuietWrite

\* and storing any record that is outside every call.
LEMMA QuietStore ==
  ASSUME TaskOK, NEW t \in Tasks, NEW r, task' = [task EXCEPT ![t] = r],
         r.pc \notin EntryPcs \cup ClosePcs, task[t].pc \notin {"slice", "push", "send", "book"}
  PROVE  \A u \in Tasks : Quiet(u)
BY QuietWrite

-----------------------------------------------------------------------------
(* The steps that do.                                                      *)

\* open_entry starts on a trade nobody has tried to enter.
LEMMA EnterStep ==
  ASSUME IInv, TypeOK', NEW t \in Tasks, NEW e \in Trades, Fresh(e), CallEntry(t, e),
         task[t].pc \in {"top", "scan"},
         UNCHANGED <<doc, brokerVars>>
  PROVE  IInv'
<1> DEFINE r == [Idle EXCEPT !.pc = "entry", !.e = e]
<1>0. r.pc = "entry" /\ r.e = e
  BY DEF Idle
<1>1. \A u \in Tasks : task'[u] = IF u = t THEN r ELSE task[u]
  BY DEF CallEntry, IInv, TypeOK, TaskOK
<1> HIDE DEF r
<1>2. \A u \in Tasks : u # t => task'[u] = task[u]
  BY <1>1
<1>3. task'[t].pc = "entry" /\ task'[t].e = e
  BY <1>0, <1>1
<1>u. doc' = doc /\ entryOrd' = entryOrd /\ exits' = exits /\ lost' = lost /\ cut' = cut /\ dropped' = dropped
  BY DEF brokerVars
<1>o. \A x : Opened(x)' <=> Opened(x)
  BY <1>u DEF Opened, InBook
<1>4. ~Opened(e)
  BY DEF Fresh, IInv, OpenedWasOrdered
<1>5. EntryOwned'
  BY <1>2, <1>3, <1>4, <1>o, <1>u DEF IInv, EntryOwned, Entering, EntryPcs, Fresh
<1>6. OpenedWasOrdered' /\ PushedWasOrdered' /\ SlicesAreSuper'
  BY <1>2, <1>3, <1>o, <1>u DEF IInv, OpenedWasOrdered, PushedWasOrdered, SlicesAreSuper, ClosePcs
<1>7. ExitIsBooked'
  BY <1>2, <1>3, <1>u DEF IInv, ExitIsBooked
<1>8. ClosingOwned'
  BY <1>2, <1>3, <1>u DEF IInv, ClosingOwned, Closing
<1>9. LedgerOnce' /\ ExitOnce'
  BY <1>u DEF IInv, LedgerOnce, ExitOnce
<1>10. OrphansReported'
  BY <1>2, <1>3, <1>o, <1>u DEF IInv, OrphansReported, Placing
<1> QED BY <1>5, <1>6, <1>7, <1>8, <1>9, <1>10 DEF IInv

\* The broker accepts the entry order or a slice of it: its task goes on to push
\* the position or to the next slice, or the answer is lost and with it the trade.
LEMMA PlaceStep ==
  ASSUME IInv, TypeOK', NEW t \in Tasks, EntryPlace(t)
  PROVE  IInv'
<1> DEFINE e == task[t].e
<1>e. e \in Trades /\ task[t].pc \in {"entry", "slice"} /\ Entering(t, e)
  BY DEF EntryPlace, IInv, TypeOK, TaskOK, EntryPcs, Entering
<1>1. \A u \in Tasks : u # t => task'[u] = task[u]
  BY DEF EntryPlace, Goto, EntryReturn, IInv, TypeOK, TaskOK
<1>2. \/ /\ task'[t].pc \in {"slice", "push"} /\ task'[t].e = e /\ lost' = lost
         /\ task'[t].pc = "slice" => e \in SuperTrades
      \/ task'[t].pc \in {"scan", "top"} /\ lost' = lost \cup {e}
  <2>1. CASE Goto(t, "push") /\ UNCHANGED lost
    BY <2>1 DEF Goto, IInv, TypeOK, TaskOK, TaskState
  <2>2. CASE e \in SuperTrades /\ Goto(t, "slice") /\ UNCHANGED lost
    BY <2>2 DEF Goto, IInv, TypeOK, TaskOK, TaskState
  <2>3. CASE lost' = lost \cup {e} /\ EntryReturn(t)
    BY <2>3 DEF EntryReturn, Idle, IInv, TypeOK, TaskOK
  <2> QED BY <2>1, <2>2, <2>3 DEF EntryPlace
<1>3. /\ \A x \in Trades : x # e => entryOrd'[x] = entryOrd[x]
      /\ entryOrd'[e] # "none"
  BY <1>e DEF EntryPlace, IInv, TypeOK
<1>u. doc' = doc /\ exits' = exits /\ cut' = cut /\ dropped' = dropped
  BY DEF EntryPlace
<1>o. \A x : Opened(x)' <=> Opened(x)
  BY <1>u DEF Opened, InBook
<1>5. EntryOwned'
  <2>1. \A u \in Tasks, x \in Trades : Entering(u, x)' => Entering(u, x)
    BY <1>1, <1>2, <1>e DEF Entering, EntryPcs
  <2>2. ASSUME NEW u \in Tasks, task'[u].pc = "entry" PROVE entryOrd'[task'[u].e] = "none"
    <3>1. u # t /\ task'[u] = task[u] /\ task[u].e \in Trades
      BY <2>2, <1>1, <1>2 DEF IInv, TypeOK, TaskOK, EntryPcs
    <3>2. task[u].e # e
      BY <2>2, <3>1, <1>e DEF IInv, EntryOwned, Entering, EntryPcs
    <3> QED BY <2>2, <3>1, <3>2, <1>3 DEF IInv, EntryOwned
  <2> QED BY <2>1, <2>2, <1>o DEF IInv, EntryOwned
<1>6. OpenedWasOrdered' /\ PushedWasOrdered' /\ SlicesAreSuper'
  <2>1. \A u \in Tasks : task[u].pc \in EntryPcs \cup ClosePcs => task[u].e \in Trades
    BY DEF IInv, TypeOK, TaskOK
  <2>2. OpenedWasOrdered'
    BY <2>1, <1>1, <1>2, <1>3, <1>e, <1>o DEF IInv, OpenedWasOrdered, ClosePcs
  <2>3. PushedWasOrdered' /\ SlicesAreSuper'
    BY <2>1, <1>1, <1>2, <1>3, <1>e DEF IInv, PushedWasOrdered, SlicesAreSuper, EntryPcs
  <2> QED BY <2>2, <2>3
<1>7. ExitIsBooked'
  BY <1>1, <1>e, <1>u DEF IInv, ExitIsBooked
<1>8. ClosingOwned'
  BY <1>1, <1>2, <1>e, <1>u DEF IInv, ClosingOwned, Closing
<1>9. LedgerOnce' /\ ExitOnce'
  BY <1>u DEF IInv, LedgerOnce, ExitOnce
<1>10. OrphansReported'
  <2>1. ASSUME NEW x \in Trades, entryOrd'[x] # "none"
        PROVE  \/ x \in lost' \/ x \in cut' \cap SuperTrades \/ Opened(x)'
               \/ \E u \in Tasks : Placing(u, x)'
    <3>1. CASE x = e
      BY <3>1, <1>2 DEF Placing
    <3>2. CASE x # e
      <4>1. entryOrd[x] # "none"
        BY <2>1, <3>2, <1>3
      <4>2. \A u \in Tasks : Placing(u, x) => Placing(u, x)'
        BY <3>2, <1>1 DEF Placing
      <4>3. lost \subseteq lost'
        BY <1>2
      <4> QED BY <4>1, <4>2, <4>3, <1>o, <1>u DEF IInv, OrphansReported
    <3> QED BY <3>1, <3>2
  <2> QED BY <2>1 DEF OrphansReported
<1> QED BY <1>5, <1>6, <1>7, <1>8, <1>9, <1>10 DEF IInv

\* A later slice is refused: the trade is given up, and only a super order has
\* later slices.
LEMMA RefusedStep ==
  ASSUME IInv, TypeOK', NEW t \in Tasks, SliceRefused(t)
  PROVE  IInv'
<1> DEFINE e == task[t].e
<1>e. e \in SuperTrades /\ e \in Trades /\ task[t].pc = "slice" /\ Entering(t, e)
  BY DEF SliceRefused, IInv, SlicesAreSuper, TypeOK, TaskOK, EntryPcs, Entering
<1>1. \A u \in Tasks : u # t => task'[u] = task[u]
  BY DEF SliceRefused, EntryReturn, IInv, TypeOK, TaskOK
<1>2. task'[t].pc \in {"scan", "top"}
  BY DEF SliceRefused, EntryReturn, Idle, IInv, TypeOK, TaskOK
<1>u. /\ doc' = doc /\ entryOrd' = entryOrd /\ exits' = exits
      /\ lost' = lost /\ dropped' = dropped /\ cut' = cut \cup {e}
  BY DEF SliceRefused
<1>o. \A x : Opened(x)' <=> Opened(x)
  BY <1>u DEF Opened, InBook
<1>w. \A u \in Tasks : task[u].pc \in EntryPcs \cup ClosePcs => task[u].e \in Trades
  BY DEF IInv, TypeOK, TaskOK
<1>3. EntryOwned'
  BY <1>1, <1>2, <1>o, <1>u, <1>w DEF IInv, EntryOwned, Entering, EntryPcs
<1>4. OpenedWasOrdered' /\ PushedWasOrdered' /\ SlicesAreSuper'
  BY <1>1, <1>2, <1>o, <1>u, <1>w
     DEF IInv, OpenedWasOrdered, PushedWasOrdered, SlicesAreSuper, ClosePcs
<1>5. ExitIsBooked'
  BY <1>1, <1>e, <1>u DEF IInv, ExitIsBooked
<1>6. ClosingOwned'
  BY <1>1, <1>2, <1>e, <1>u DEF IInv, ClosingOwned, Closing
<1>7. LedgerOnce' /\ ExitOnce'
  BY <1>u DEF IInv, LedgerOnce, ExitOnce
<1>8. OrphansReported'
  <2>1. \A u \in Tasks, x \in Trades : Placing(u, x) => Placing(u, x)' \/ x = e
    BY <1>1 DEF Placing
  <2> QED BY <2>1, <1>e, <1>o, <1>u DEF IInv, OrphansReported
<1> QED BY <1>3, <1>4, <1>5, <1>6, <1>7, <1>8 DEF IInv

\* The position is pushed.
LEMMA PushStep ==
  ASSUME IInv, TypeOK', NEW t \in Tasks, EntryPush(t)
  PROVE  IInv'
<1> DEFINE e == task[t].e
<1>e. e \in Trades /\ task[t].pc = "push" /\ Entering(t, e)
  BY DEF EntryPush, IInv, TypeOK, TaskOK, EntryPcs, Entering
<1>1. \A u \in Tasks : u # t => task'[u] = task[u]
  BY DEF EntryPush, EntryReturn, IInv, TypeOK, TaskOK
<1>2. task'[t].pc \in {"scan", "top"}
  BY DEF EntryPush, EntryReturn, Idle, IInv, TypeOK, TaskOK
<1>3. /\ \A x \in Trades : doc'.pos[x] = IF x = e THEN "running" ELSE doc.pos[x]
      /\ doc'.closed = doc.closed
  BY <1>e DEF EntryPush, IInv, TypeOK, Doc
<1>4. ~Opened(e) /\ doc.pos[e] = "absent" /\ ~(doc.closed[e] > 0) /\ doc.closed[e] \in Nat
  BY <1>e DEF IInv, EntryOwned, Opened, InBook, TypeOK, Doc
<1>u. entryOrd' = entryOrd /\ exits' = exits /\ lost' = lost /\ cut' = cut /\ dropped' = dropped
  BY DEF EntryPush, brokerVars
<1>o. \A x \in Trades : Opened(x)' <=> (Opened(x) \/ x = e)
  BY <1>3 DEF Opened, InBook
<1>q. entryOrd[e] # "none"
  BY <1>e DEF IInv, PushedWasOrdered
<1>5. EntryOwned'
  BY <1>1, <1>2, <1>e, <1>o, <1>u DEF IInv, EntryOwned, Entering, EntryPcs
<1>6. OpenedWasOrdered' /\ PushedWasOrdered' /\ SlicesAreSuper'
  <2>1. \A u \in Tasks : task[u].pc \in ClosePcs => task[u].e \in Trades
    BY DEF IInv, TypeOK, TaskOK
  <2> QED BY <2>1, <1>1, <1>2, <1>o, <1>q, <1>u
          DEF IInv, OpenedWasOrdered, PushedWasOrdered, SlicesAreSuper, ClosePcs
<1>7. ExitIsBooked'
  BY <1>1, <1>3, <1>e, <1>u DEF IInv, ExitIsBooked
<1>8. ClosingOwned'
  BY <1>1, <1>2, <1>3, <1>4, <1>e, <1>u DEF IInv, ClosingOwned, Closing
<1>9. LedgerOnce' /\ ExitOnce'
  BY <1>3, <1>4, <1>u DEF IInv, LedgerOnce, ExitOnce
<1>10. OrphansReported'
  BY <1>1, <1>e, <1>o, <1>u DEF IInv, OrphansReported, Placing
<1> QED BY <1>5, <1>6, <1>7, <1>8, <1>9, <1>10 DEF IInv

\* close_position returns to its caller, outside every call.
LEMMA ReturnWrite ==
  ASSUME TaskOK, NEW t \in Tasks, Return(t)
  PROVE  /\ \A u \in Tasks : u # t => task'[u] = task[u]
         /\ task'[t].pc \notin EntryPcs \cup ClosePcs
         /\ \E r : task' = [task EXCEPT ![t] = r] /\ r.pc \notin EntryPcs \cup ClosePcs
<1> DEFINE r == IF task[t].ret = "top" THEN Idle
                ELSE [task[t] EXCEPT !.pc = task[t].ret, !.e = None, !.ret = "top"]
<1>1. r.pc \in RetPcs
  BY DEF TaskOK, TaskState, RetPcs, Idle
<1>2. task' = [task EXCEPT ![t] = r]
  BY DEF Return
<1> HIDE DEF r
<1>3. RetPcs \cap (EntryPcs \cup ClosePcs) = {}
  BY DEF RetPcs, EntryPcs, ClosePcs
<1> QED BY <1>1, <1>2, <1>3 DEF TaskOK

\* A claim that finds the position running makes its task the only owner; one
\* that does not returns and changes nothing.
LEMMA ClaimStep ==
  ASSUME IInv, TypeOK', NEW t \in Tasks, Claim(t)
  PROVE  IInv'
<1> DEFINE e == task[t].e
<1>e. e \in Trades /\ task[t].pc = "claim" /\ Opened(e)
  BY DEF Claim, IInv, TypeOK, TaskOK, ClosePcs, OpenedWasOrdered
<1>u. entryOrd' = entryOrd /\ exits' = exits /\ lost' = lost /\ cut' = cut /\ dropped' = dropped
  BY DEF Claim, brokerVars
<1>a. CASE doc.pos[e] # "running"
  <2>1. Return(t) /\ doc' = doc
    BY <1>a DEF Claim
  <2>2. \A u \in Tasks : Quiet(u)
    BY <2>1, <1>e, ReturnWrite, QuietStore DEF IInv, TypeOK
  <2> QED BY <2>1, <2>2, <1>u, QuietStep
<1>b. CASE doc.pos[e] = "running"
  <2>1. \A u \in Tasks : u # t => task'[u] = task[u]
    BY <1>b DEF Claim, Goto, IInv, TypeOK, TaskOK
  <2>2. task'[t].pc = "send" /\ task'[t].e = e
    BY <1>b DEF Claim, Goto, IInv, TypeOK, TaskOK, TaskState
  <2>3. /\ \A x \in Trades : doc'.pos[x] = IF x = e THEN "closing" ELSE doc.pos[x]
        /\ doc'.closed = doc.closed
    BY <1>b, <1>e DEF Claim, IInv, TypeOK, Doc
  <2>o. \A x \in Trades : Opened(x)' <=> Opened(x)
    BY <2>3, <1>b DEF Opened, InBook
  <2>4. \A u \in Tasks : ~Closing(u, e)
    BY <1>b, <1>e DEF IInv, ClosingOwned
  <2>w. \A u \in Tasks : task[u].pc \in EntryPcs \cup ClosePcs => task[u].e \in Trades
    BY DEF IInv, TypeOK, TaskOK
  <2>5. EntryOwned'
    BY <2>1, <2>2, <2>o, <1>u DEF IInv, EntryOwned, Entering, EntryPcs
  <2>6. OpenedWasOrdered' /\ PushedWasOrdered' /\ SlicesAreSuper'
    BY <2>1, <2>2, <2>o, <2>w, <1>e, <1>u
       DEF IInv, OpenedWasOrdered, PushedWasOrdered, SlicesAreSuper, ClosePcs
  <2>7. ExitIsBooked'
    BY <2>1, <2>3, <1>e, <1>u DEF IInv, ExitIsBooked
  <2>8. ClosingOwned'
    BY <2>1, <2>2, <2>3, <2>4, <1>b, <1>e, <1>u DEF IInv, ClosingOwned, Closing
  <2>9. LedgerOnce' /\ ExitOnce'
    BY <2>3, <1>b, <1>u DEF IInv, LedgerOnce, ExitOnce
  <2>10. OrphansReported'
    BY <2>1, <2>o, <1>e, <1>u DEF IInv, OrphansReported, Placing
  <2> QED BY <2>5, <2>6, <2>7, <2>8, <2>9, <2>10 DEF IInv
<1> QED BY <1>a, <1>b

\* The owner sends its exit order: no other was ever accepted for the trade.
LEMMA SendStep ==
  ASSUME IInv, TypeOK', NEW t \in Tasks, Send(t)
  PROVE  IInv'
<1> DEFINE e == task[t].e
<1>e. e \in Trades /\ task[t].pc = "send" /\ Closing(t, e)
  BY DEF Send, Closing, IInv, TypeOK, TaskOK, ClosePcs
<1>1. \A u \in Tasks : u # t => task'[u] = task[u]
  BY DEF Send, Goto, IInv, TypeOK, TaskOK
<1>2. task'[t].pc = "book" /\ task'[t].e = e
  BY DEF Send, Goto, IInv, TypeOK, TaskOK, TaskState
<1>u. doc' = doc /\ lost' = lost /\ cut' = cut /\ dropped' = dropped
  BY DEF Send
<1>o. \A x : Opened(x)' <=> Opened(x)
  BY <1>u DEF Opened, InBook
<1>3. exits[e] = 0
  <2>1. doc.pos[e] = "closing"
    BY <1>e DEF IInv, ClosingOwned
  <2>2. ~(doc.closed[e] > 0)
    BY <2>1, <1>e DEF IInv, LedgerOnce, TypeOK, Doc
  <2>3. e \notin dropped /\ ~\E u \in Tasks : task[u].pc = "book" /\ task[u].e = e
    BY <1>e DEF IInv, ClosingOwned, Closing
  <2> QED BY <2>2, <2>3, <1>e DEF IInv, ExitIsBooked, TypeOK
<1>4. /\ \A x \in Trades : x # e => exits'[x] = exits[x]
      /\ exits'[e] \in {0, 1}
  BY <1>3, <1>e DEF Send, IInv, TypeOK
<1>5. \A x \in Trades : entryOrd'[x] = "none" <=> entryOrd[x] = "none"
  BY <1>e DEF Send, IInv, TypeOK
<1>w. \A u \in Tasks : task[u].pc \in EntryPcs \cup ClosePcs => task[u].e \in Trades
  BY DEF IInv, TypeOK, TaskOK
<1>6. EntryOwned'
  BY <1>1, <1>2, <1>5, <1>o, <1>w DEF IInv, EntryOwned, Entering, EntryPcs
<1>7. OpenedWasOrdered' /\ PushedWasOrdered' /\ SlicesAreSuper'
  BY <1>1, <1>2, <1>5, <1>e, <1>o, <1>w
     DEF IInv, OpenedWasOrdered, PushedWasOrdered, SlicesAreSuper, EntryPcs, ClosePcs
<1>8. ExitIsBooked'
  BY <1>1, <1>2, <1>4, <1>e, <1>u DEF IInv, ExitIsBooked
<1>9. ClosingOwned'
  BY <1>1, <1>2, <1>e, <1>u DEF IInv, ClosingOwned, Closing
<1>10. LedgerOnce' /\ ExitOnce'
  BY <1>4, <1>u DEF IInv, LedgerOnce, ExitOnce
<1>11. OrphansReported'
  BY <1>1, <1>5, <1>e, <1>o, <1>u DEF IInv, OrphansReported, Placing
<1> QED BY <1>6, <1>7, <1>8, <1>9, <1>10, <1>11 DEF IInv

\* The owner books the trade and lets it go.
LEMMA BookStep ==
  ASSUME IInv, TypeOK', NEW t \in Tasks, Book(t)
  PROVE  IInv'
<1> DEFINE e == task[t].e
<1>e. e \in Trades /\ task[t].pc = "book" /\ Closing(t, e)
  BY DEF Book, Closing, IInv, TypeOK, TaskOK, ClosePcs
<1>1. \A u \in Tasks : u # t => task'[u] = task[u]
  BY ReturnWrite DEF Book, IInv, TypeOK
<1>2. task'[t].pc \notin EntryPcs \cup ClosePcs
  BY ReturnWrite DEF Book, IInv, TypeOK
<1>3. /\ \A x \in Trades : doc'.pos[x] = IF x = e THEN "absent" ELSE doc.pos[x]
      /\ \A x \in Trades : doc'.closed[x] = IF x = e THEN doc.closed[x] + 1 ELSE doc.closed[x]
  BY <1>e DEF Book, IInv, TypeOK, Doc
<1>4. doc.pos[e] = "closing" /\ doc.closed[e] = 0
  BY <1>e DEF IInv, ClosingOwned, LedgerOnce, TypeOK, Doc
<1>u. entryOrd' = entryOrd /\ exits' = exits /\ lost' = lost /\ cut' = cut /\ dropped' = dropped
  BY DEF Book, brokerVars
<1>o. \A x \in Trades : Opened(x)' <=> Opened(x)
  BY <1>3, <1>4 DEF Opened, InBook
<1>w. \A u \in Tasks : task[u].pc \in EntryPcs \cup ClosePcs => task[u].e \in Trades
  BY DEF IInv, TypeOK, TaskOK
<1>5. EntryOwned'
  BY <1>1, <1>2, <1>o, <1>u DEF IInv, EntryOwned, Entering, EntryPcs
<1>6. OpenedWasOrdered' /\ PushedWasOrdered' /\ SlicesAreSuper'
  BY <1>1, <1>2, <1>o, <1>u, <1>w
     DEF IInv, OpenedWasOrdered, PushedWasOrdered, SlicesAreSuper, EntryPcs, ClosePcs
<1>7. ExitIsBooked'
  BY <1>1, <1>3, <1>4, <1>u DEF IInv, ExitIsBooked
<1>8. ClosingOwned'
  <2>1. \A u \in Tasks, x \in Trades : Closing(u, x)' <=> Closing(u, x) /\ u # t
    BY <1>1, <1>2 DEF Closing, ClosePcs
  <2>2. e \notin dropped /\ \A u \in Tasks : Closing(u, e) => u = t
    BY <1>e DEF IInv, ClosingOwned
  <2>3. \A x \in Trades : x # e => ~Closing(t, x)
    BY <1>e DEF Closing
  <2>4. \A x \in Trades : doc'.pos[x] = "closing" <=> doc.pos[x] = "closing" /\ x # e
    BY <1>3
  <2>5. dropped \subseteq Trades /\ dropped' = dropped
    BY <1>u DEF IInv, TypeOK
  <2>6. \A x \in Trades : (\E u \in Tasks : Closing(u, x)') <=> x # e /\ \E u \in Tasks : Closing(u, x)
    BY <2>1, <2>2, <2>3
  <2> QED BY <2>1, <2>2, <2>4, <2>5, <2>6 DEF IInv, ClosingOwned
<1>9. LedgerOnce' /\ ExitOnce'
  BY <1>3, <1>4, <1>u DEF IInv, LedgerOnce, ExitOnce
<1>10. OrphansReported'
  BY <1>1, <1>e, <1>o, <1>u DEF IInv, OrphansReported, Placing
<1> QED BY <1>5, <1>6, <1>7, <1>8, <1>9, <1>10 DEF IInv

\* A dropped request holds nothing; what it had claimed stays "closing" and what
\* it had ordered is lost.
LEMMA HangUpStep ==
  ASSUME IInv, TypeOK', NEW c \in Clients, HangUp(c)
  PROVE  IInv'
<1> DEFINE e == task[c].e
<1>1. \A u \in Tasks : u # c => task'[u] = task[u]
  BY DEF HangUp, Finish, IInv, TypeOK, TaskOK
<1>2. task'[c].pc = "top"
  BY DEF HangUp, Finish, Idle, IInv, TypeOK, TaskOK
<1>u. doc' = doc /\ entryOrd' = entryOrd /\ exits' = exits /\ cut' = cut
  BY DEF HangUp
<1>o. \A x : Opened(x)' <=> Opened(x)
  BY <1>u DEF Opened, InBook
<1>w. \A u \in Tasks : task[u].pc \in EntryPcs \cup ClosePcs => task[u].e \in Trades
  BY DEF IInv, TypeOK, TaskOK
<1>d. /\ lost' = IF task[c].pc \in {"slice", "push"} THEN lost \cup {e} ELSE lost
      /\ dropped' = IF task[c].pc \in {"send", "book"} THEN dropped \cup {e} ELSE dropped
  BY DEF HangUp
<1>3. EntryOwned'
  BY <1>1, <1>2, <1>o, <1>u, <1>w DEF IInv, EntryOwned, Entering, EntryPcs
<1>4. OpenedWasOrdered' /\ PushedWasOrdered' /\ SlicesAreSuper'
  BY <1>1, <1>2, <1>o, <1>u, <1>w DEF IInv, OpenedWasOrdered, PushedWasOrdered, SlicesAreSuper, ClosePcs
<1>5. ExitIsBooked'
  BY <1>1, <1>d, <1>u DEF IInv, ExitIsBooked
<1>6. ClosingOwned'
  <2>1. \A u \in Tasks, x \in Trades : Closing(u, x)' <=> Closing(u, x) /\ u # c
    BY <1>1, <1>2 DEF Closing
  <2>2. \A x \in Trades : x \in dropped' <=> x \in dropped \/ Closing(c, x)
    BY <1>d, <1>w DEF Closing, ClosePcs
  <2>3. dropped' \subseteq Trades
    BY DEF TypeOK
  <2>4. ClosingOwned /\ c \in Tasks
    BY DEF IInv, Tasks
  <2>5. \A x \in Trades : doc'.pos[x] = "closing" <=> (\E t \in Tasks : Closing(t, x)') \/ x \in dropped'
    <3> TAKE x \in Trades
    <3>1. doc.pos[x] = "closing" <=> (\E t \in Tasks : Closing(t, x)) \/ x \in dropped
      BY <2>4 DEF ClosingOwned
    <3>2. (\E t \in Tasks : Closing(t, x)') \/ x \in dropped' <=> (\E t \in Tasks : Closing(t, x)) \/ x \in dropped
      BY <2>1, <2>2, <2>4
    <3> QED BY <1>u, <3>1, <3>2
  <2>6. \A t, u \in Tasks, x \in Trades : Closing(t, x)' /\ Closing(u, x)' => t = u
    BY <2>1, <2>4 DEF ClosingOwned
  <2>7. \A t \in Tasks, x \in dropped' : ~Closing(t, x)'
    BY <2>1, <2>2, <2>3, <2>4 DEF ClosingOwned
  <2> QED BY <2>5, <2>6, <2>7 DEF ClosingOwned
<1>7. LedgerOnce' /\ ExitOnce'
  BY <1>u DEF IInv, LedgerOnce, ExitOnce
<1>8. OrphansReported'
  <2>1. \A u \in Tasks, x \in Trades : Placing(u, x) => Placing(u, x)' \/ x \in lost'
    BY <1>1, <1>d DEF Placing
  <2>2. lost \subseteq lost'
    BY <1>d
  <2> QED BY <2>1, <2>2, <1>o, <1>u DEF IInv, OrphansReported
<1> QED BY <1>3, <1>4, <1>5, <1>6, <1>7, <1>8 DEF IInv

-----------------------------------------------------------------------------
(* The invariant holds.                                                    *)

\* The empty book satisfies the inductive invariant.
LEMMA InvInit == Init => IInv
<1> SUFFICES ASSUME Init PROVE IInv
  OBVIOUS
<1>1. TypeOK
  BY TypeInit
<1>2. \A t \in Tasks : task[t].pc = "top"
  BY DEF Init, Idle
<1>3. \A e \in Trades : /\ doc.pos[e] = "absent" /\ doc.closed[e] = 0 /\ exits[e] = 0
                        /\ entryOrd[e] = "none" /\ ~Opened(e)
  BY DEF Init, Opened, InBook
<1>4. dropped = {}
  BY DEF Init
<1> QED BY <1>1, <1>2, <1>3, <1>4
        DEF IInv, EntryOwned, Entering, OpenedWasOrdered, PushedWasOrdered, SlicesAreSuper,
            ExitIsBooked,
            ClosingOwned, Closing, LedgerOnce, ExitOnce, OrphansReported, Placing, EntryPcs, ClosePcs

\* Every step of every task preserves the inductive invariant.
LEMMA InvStep == IInv /\ [Next]_vars => IInv'
<1> SUFFICES ASSUME IInv, [Next]_vars PROVE IInv'
  OBVIOUS
<1>t. TypeOK /\ TypeOK' /\ TaskOK
  BY TypeStep DEF IInv, TypeOK
<1> USE <1>t
<1>p. {"square", "disarm", "arm", "scan", "super", "legs", "manage", "residual", "top",
       "seen", "ids", "sweep"} \cap (EntryPcs \cup ClosePcs) = {}
  BY DEF EntryPcs, ClosePcs
<1>q. \A e \in Trades : InBook(e) => Opened(e)
  BY DEF Opened
<1>d. ASSUME NEW t \in Tasks PROVE task[t].todo \subseteq Trades
  BY DEF TaskOK, TaskState
<1>i. \A pc \in Pcs : [Idle EXCEPT !.pc = pc].pc = pc /\ Idle.pc = "top"
  BY DEF Idle
<1>g. "scan" \in Pcs /\ "disarm" \in Pcs
  BY DEF Pcs
<1>f. ASSUME NEW t \in Tasks, Finish(t), task[t].pc \notin {"slice", "push", "send", "book"}
      PROVE  \A u \in Tasks : Quiet(u)
  BY <1>f, <1>i, <1>g, <1>p, QuietStore DEF Finish
<1>r. ASSUME NEW t \in Tasks, EntryReturn(t), task[t].pc = "entry"
      PROVE  \A u \in Tasks : Quiet(u)
  <2> DEFINE r == IF t = Loop THEN [Idle EXCEPT !.pc = "scan"] ELSE Idle
  <2>1. task' = [task EXCEPT ![t] = r]
    BY <1>r DEF EntryReturn
  <2>2. r.pc \in {"scan", "top"}
    BY <1>i, <1>g
  <2> HIDE DEF r
  <2> QED BY <1>r, <1>p, <2>1, <2>2, QuietStore
<1>s. ASSUME NEW t \in Tasks, StartSweep(t), task[t].pc \in {"top", "square"} PROVE IInv'
  <2> DEFINE r == [Idle EXCEPT !.pc = "seen", !.signed = OwnPerSec]
  <2>1. r.pc = "seen"
    BY DEF Idle
  <2>2. task' = [task EXCEPT ![t] = r]
    BY <1>s, Zenon DEF StartSweep
  <2> HIDE DEF r
  <2>3. \A u \in Tasks : Quiet(u)
    BY <1>s, <1>p, <2>1, <2>2, QuietStore
  <2> QED BY <1>s, <2>3, QuietStep DEF StartSweep, brokerVars
<1>c. ASSUME NEW t \in Tasks, NEW pc \in Pcs, NEW ids, Collect(t, pc, ids),
             task[t].pc \in {"top", "super"}, pc \notin EntryPcs \cup ClosePcs
      PROVE  \A u \in Tasks : Quiet(u)
  <2>1. [Idle EXCEPT !.pc = pc, !.todo = ids].pc = pc
    BY DEF Idle
  <2> QED BY <1>c, <1>p, <2>1, QuietStore DEF Collect
<1>1. ASSUME NEW t \in Tasks, TaskStep(t) PROVE IInv'
  <2>1. CASE Claim(t) BY <2>1, ClaimStep
  <2>2. CASE Send(t) BY <2>2, SendStep
  <2>3. CASE Book(t) BY <2>3, BookStep
  <2>4. CASE EntryFail(t)
    BY <2>4, <1>r, QuietStep DEF EntryFail, brokerVars
  <2>5. CASE EntryPlace(t) BY <2>5, PlaceStep
  <2>5a. CASE SliceRefused(t) BY <2>5a, RefusedStep
  <2>6. CASE EntryPush(t) BY <2>6, PushStep
  <2>7. CASE SweepVisit(t)
    <3>1. \A u \in Tasks : Quiet(u)
      BY <2>7, <1>d, <1>q, QuietCallClose, QuietSkip DEF SweepVisit
    <3> QED BY <2>7, <3>1, QuietStep DEF SweepVisit, brokerVars
  <2>7a. CASE SweepSeen(t)
    <3> DEFINE r == [task[t] EXCEPT !.pc = "ids", !.seen = snap]
    <3>1. r.pc = "ids"
      BY DEF TaskOK, TaskState
    <3>2. task' = [task EXCEPT ![t] = r]
      BY <2>7a, SeenWrite
    <3> HIDE DEF r
    <3>3. \A u \in Tasks : Quiet(u)
      BY <2>7a, <1>p, <3>1, <3>2, QuietStore DEF SweepSeen
    <3> QED BY <2>7a, <3>3, QuietStep DEF SweepSeen, brokerVars
  <2>7b. CASE SweepIds(t)
    <3> DEFINE r == [task[t] EXCEPT !.pc = "sweep", !.todo = Booked]
    <3>1. r.pc = "sweep"
      BY DEF TaskOK, TaskState
    <3>2. task' = [task EXCEPT ![t] = r]
      BY <2>7b, IdsWrite
    <3> HIDE DEF r
    <3>3. \A u \in Tasks : Quiet(u)
      BY <2>7b, <1>p, <3>1, <3>2, QuietStore DEF SweepIds
    <3> QED BY <2>7b, <3>3, QuietStep DEF SweepIds, brokerVars
  <2>8. CASE SweepEnd(t)
    <3>1. \A u \in Tasks : Quiet(u)
      BY <2>8, <1>p, QuietGoto DEF SweepEnd
    <3> QED BY <2>8, <3>1, QuietStep DEF SweepEnd, brokerVars
  <2>9. CASE Residual(t)
    <3>1. \A u \in Tasks : Quiet(u)
      <4>1. CASE t = Loop
        BY <2>9, <4>1, <1>p, <1>i, <1>g, QuietStore DEF Residual
      <4>2. CASE t # Loop
        BY <2>9, <4>2, <1>f DEF Residual
      <4> QED BY <4>1, <4>2
    <3> QED BY <2>9, <3>1, QuietStep DEF Residual
  <2>10. CASE t = Loop /\ LoopStep
    <3>1. CASE LoopTop
      <4>1. \A u \in Tasks : Quiet(u)
        BY <3>1, <1>p, QuietGoto DEF LoopTop, Quiet
      <4>2. doc'.pos = doc.pos /\ doc'.closed = doc.closed
        BY <3>1 DEF LoopTop, TypeOK, Doc
      <4> QED BY <3>1, <4>1, <4>2, QuietStep DEF LoopTop, brokerVars
    <3>2. CASE LoopSquareOff
      BY <3>2, <1>s DEF LoopSquareOff
    <3>3. CASE LoopNoSquareOff \/ LoopArmCheck \/ ScanEnd
      <4>1. \A u \in Tasks : Quiet(u)
        BY <3>3, <1>p, QuietGoto DEF LoopNoSquareOff, LoopArmCheck, ScanEnd
      <4> QED BY <3>3, <4>1, QuietStep DEF LoopNoSquareOff, LoopArmCheck, ScanEnd, brokerVars
    <3>4. CASE LoopDisarm
      <4>1. \A u \in Tasks : Quiet(u)
        BY <3>4, <1>p, QuietGoto DEF LoopDisarm
      <4>2. doc'.pos = doc.pos /\ doc'.closed = doc.closed
        BY <3>4 DEF LoopDisarm, TypeOK, Doc
      <4> QED BY <3>4, <4>1, <4>2, QuietStep DEF LoopDisarm, brokerVars
    <3>5. CASE ScanEntry
      BY <3>5, EnterStep DEF ScanEntry
    <3>6. CASE SuperFetch
      <4>1. \A u \in Tasks : Quiet(u)
        BY <3>6, <1>c, <1>f, <1>p DEF SuperFetch, Pcs
      <4> QED BY <3>6, <4>1, QuietStep DEF SuperFetch, brokerVars
    <3>7. CASE SuperVisit
      <4>1. \A u \in Tasks : Quiet(u)
        BY <3>7, <1>d, <1>f, <1>q, QuietCallClose, QuietSkip DEF SuperVisit
      <4> QED BY <3>7, <4>1, QuietStep DEF SuperVisit, brokerVars
    <3> QED BY <2>10, <3>1, <3>2, <3>3, <3>4, <3>5, <3>6, <3>7 DEF LoopStep
  <2>11. CASE t = Guard /\ GuardWake
    <3>1. \A u \in Tasks : Quiet(u)
      BY <2>11, <1>c, <1>p DEF GuardWake, Pcs
    <3> QED BY <2>11, <3>1, QuietStep DEF GuardWake, brokerVars
  <2>12. CASE t = Guard /\ GuardVisit
    <3>1. \A u \in Tasks : Quiet(u)
      BY <2>12, <1>d, <1>f, <1>q, QuietCallClose, QuietSkip DEF GuardVisit
    <3> QED BY <2>12, <3>1, QuietStep DEF GuardVisit, brokerVars
  <2> QED
    BY <1>1, <2>1, <2>2, <2>3, <2>4, <2>5, <2>5a, <2>6, <2>7, <2>7a, <2>7b, <2>8, <2>9,
       <2>10, <2>11, <2>12
       DEF TaskStep, CloseStep, EntryStep, SweepStep
<1>2. ASSUME NEW c \in Clients, Request(c) PROVE IInv'
  <2>1. ASSUME NEW e \in Trades, EntryPost(c, e) PROVE IInv'
    BY <2>1, EnterStep DEF EntryPost
  <2>2. ASSUME NEW e \in Trades, ClosePost(c, e) PROVE IInv'
    <3>1. \A u \in Tasks : Quiet(u)
      BY <2>2, <1>q, QuietCallClose DEF ClosePost
    <3> QED BY <2>2, <3>1, QuietStep DEF ClosePost, brokerVars
  <2>3. CASE SquareOffPost(c)
    BY <2>3, <1>s DEF SquareOffPost
  <2>4. CASE HangUp(c) BY <2>4, HangUpStep
  <2> QED BY <1>2, <2>1, <2>2, <2>3, <2>4 DEF Request
<1>u. task' = task => \A u \in Tasks : Quiet(u)
  BY DEF Quiet
<1>3. CASE Operator \/ SquareOffTime \/ Midnight \/ UNCHANGED vars
  <2>1. /\ doc'.pos = doc.pos /\ doc'.closed = doc.closed /\ task' = task
        /\ exits' = exits /\ lost' = lost /\ cut' = cut /\ dropped' = dropped /\ entryOrd' = entryOrd
    <3>1. doc \in Doc
      BY DEF TypeOK
    <3>2. CASE \E on \in BOOLEAN : ArmPost(on) \/ EnginePost(on)
      BY <3>1, <3>2 DEF ArmPost, EnginePost, brokerVars, Doc
    <3>3. CASE TickPost
      BY <3>3 DEF TickPost, brokerVars
    <3>4. CASE SquareOffTime
      BY <3>4 DEF SquareOffTime, engineVars, brokerVars
    <3>5. CASE Midnight
      BY <3>1, <3>5 DEF Midnight, brokerVars, Doc
    <3>6. CASE UNCHANGED vars
      BY <3>6 DEF vars, engineVars, brokerVars
    <3> QED BY <1>3, <3>2, <3>3, <3>4, <3>5, <3>6 DEF Operator
  <2> QED BY <2>1, <1>u, QuietStep
<1>4. CASE Exchange
  <2>1. /\ doc' = doc /\ task' = task /\ exits' = exits /\ lost' = lost /\ cut' = cut /\ dropped' = dropped
        /\ \A e \in Trades : entryOrd'[e] = "none" <=> entryOrd[e] = "none"
    BY <1>4 DEF Exchange, Fill, RejectEntry, LegHit, ManualTrade, engineVars, TypeOK
  <2> QED BY <2>1, <1>u, QuietStep
<1> QED BY <1>1, <1>2, <1>3, <1>4 DEF Next

\* Whoever goes for a position - guardian, broker reconciliation, operator,
\* square-off - and in whatever order, at most one exit order is accepted for a
\* trade.
THEOREM ExitOnceHolds == Spec => []ExitOnce
<1>1. IInv => ExitOnce
  BY DEF IInv
<1> QED BY <1>1, InvInit, InvStep, PTL DEF Spec

\* A position is "closing" while one task is between claim and booking, and
\* otherwise only when a dropped request left it so.
THEOREM ClosingOwnedHolds == Spec => []ClosingOwned
<1>1. IInv => ClosingOwned
  BY DEF IInv
<1> QED BY <1>1, InvInit, InvStep, PTL DEF Spec

\* No trade is banked twice or is both open and closed.
THEOREM LedgerOnceHolds == Spec => []LedgerOnce
<1>1. IInv => LedgerOnce
  BY DEF IInv
<1> QED BY <1>1, InvInit, InvStep, PTL DEF Spec

\* Every accepted entry order is a position, a closed trade or in the hands of the
\* open_entry that placed it, but for two cases: the answer did not reach the engine
\* or the request went away, or a later slice of a super order was refused.
THEOREM OrphansReportedHolds == Spec => []OrphansReported
<1>1. IInv => OrphansReported
  BY DEF IInv
<1> QED BY <1>1, InvInit, InvStep, PTL DEF Spec

-----------------------------------------------------------------------------
(* LiveTrades implements TradeLedger.                                      *)

\* A step that leaves positions, ledger and exit orders alone is a stutter.
LEMMA StageUnchanged ==
  ASSUME doc'.pos = doc.pos, doc'.closed = doc.closed, exits' = exits
  PROVE  UNCHANGED Ledger!vars
BY DEF stage, Ledger!vars

\* The empty book is the abstract ledger's initial state.
LEMMA LedgerInit == Init => Ledger!Init
BY DEF Init, Ledger!Init, stage

\* Every step of the order path is a step of the abstract ledger or none.
LEMMA LedgerStep == IInv /\ [Next]_vars => [Ledger!Next]_(Ledger!vars)
<1> SUFFICES ASSUME IInv, [Next]_vars PROVE [Ledger!Next]_(Ledger!vars)
  OBVIOUS
<1>t. TypeOK /\ TaskOK
  BY DEF IInv, TypeOK
<1>w. \A u \in Tasks : task[u].pc \in EntryPcs \cup ClosePcs => task[u].e \in Trades
  BY <1>t DEF TaskOK
<1>1. ASSUME NEW t \in Tasks, EntryPush(t) PROVE [Ledger!Next]_(Ledger!vars)
  <2> DEFINE e == task[t].e
  <2>1. e \in Trades /\ Entering(t, e)
    BY <1>1, <1>w DEF EntryPush, EntryPcs, Entering
  <2>2. ~Opened(e)
    BY <2>1 DEF IInv, EntryOwned
  <2>3. /\ \A x \in Trades : doc'.pos[x] = IF x = e THEN "running" ELSE doc.pos[x]
        /\ doc'.closed = doc.closed /\ exits' = exits
    BY <1>1, <1>t, <2>1 DEF EntryPush, TypeOK, Doc, brokerVars
  <2>4. stage[e] = "none"
    BY <2>1, <2>2 DEF stage, Opened, InBook
  <2>5. stage' = [stage EXCEPT ![e] = "open"]
    BY <2>1, <2>3 DEF stage
  <2> QED BY <2>1, <2>3, <2>4, <2>5 DEF Ledger!Next, Ledger!Open, Ledger!Move
<1>2. ASSUME NEW t \in Tasks, Claim(t) PROVE [Ledger!Next]_(Ledger!vars)
  <2> DEFINE e == task[t].e
  <2>1. e \in Trades
    BY <1>2, <1>w DEF Claim, ClosePcs
  <2>2. exits' = exits
    BY <1>2 DEF Claim, brokerVars
  <2>3. CASE doc.pos[e] = "running"
    <3>1. /\ \A x \in Trades : doc'.pos[x] = IF x = e THEN "closing" ELSE doc.pos[x]
          /\ doc'.closed = doc.closed
      BY <1>2, <1>t, <2>1, <2>3 DEF Claim, TypeOK, Doc
    <3>2. stage[e] = "open"
      BY <2>1, <2>3 DEF stage
    <3>3. stage' = [stage EXCEPT ![e] = "closing"]
      BY <2>1, <3>1 DEF stage
    <3> QED BY <2>1, <2>2, <3>2, <3>3 DEF Ledger!Next, Ledger!Claim, Ledger!Move
  <2>4. CASE doc.pos[e] # "running"
    BY <1>2, <2>2, <2>4, StageUnchanged DEF Claim
  <2> QED BY <2>3, <2>4
<1>3. ASSUME NEW t \in Tasks, Send(t) PROVE [Ledger!Next]_(Ledger!vars)
  <2> DEFINE e == task[t].e
  <2>1. e \in Trades /\ Closing(t, e)
    BY <1>3, <1>w DEF Send, ClosePcs, Closing
  <2>2. doc.pos[e] = "closing"
    BY <2>1 DEF IInv, ClosingOwned
  <2>3. exits[e] = 0
    <3>1. ~(doc.closed[e] > 0)
      BY <2>1, <2>2, <1>t DEF IInv, LedgerOnce, TypeOK, Doc
    <3>2. e \notin dropped /\ ~\E u \in Tasks : task[u].pc = "book" /\ task[u].e = e
      BY <1>3, <2>1 DEF Send, IInv, ClosingOwned, Closing
    <3> QED BY <3>1, <3>2, <2>1, <1>t DEF IInv, ExitIsBooked, TypeOK
  <2>4. stage[e] = "closing"
    BY <2>1, <2>2 DEF stage
  <2>5. doc' = doc /\ stage' = stage
    BY <1>3 DEF Send, stage
  <2>6. exits' = exits \/ exits' = [exits EXCEPT ![e] = 1]
    <3>1. exits' = exits \/ exits' = [exits EXCEPT ![e] = exits[e] + 1]
      BY <1>3 DEF Send
    <3> QED BY <3>1, <2>3
  <2> QED BY <2>1, <2>3, <2>4, <2>5, <2>6 DEF Ledger!Next, Ledger!Exit, Ledger!vars
<1>4. ASSUME NEW t \in Tasks, Book(t) PROVE [Ledger!Next]_(Ledger!vars)
  <2> DEFINE e == task[t].e
  <2>1. e \in Trades /\ Closing(t, e)
    BY <1>4, <1>w DEF Book, ClosePcs, Closing
  <2>2. doc.pos[e] = "closing" /\ doc.closed[e] \in Nat
    BY <2>1, <1>t DEF IInv, ClosingOwned, TypeOK, Doc
  <2>3. /\ \A x \in Trades : doc'.pos[x] = IF x = e THEN "absent" ELSE doc.pos[x]
        /\ \A x \in Trades : doc'.closed[x] = IF x = e THEN doc.closed[x] + 1 ELSE doc.closed[x]
        /\ exits' = exits
    BY <1>4, <1>t, <2>1 DEF Book, TypeOK, Doc, brokerVars
  <2>4. stage[e] = "closing"
    BY <2>1, <2>2 DEF stage
  <2>5. stage' = [stage EXCEPT ![e] = "closed"]
    <3>1. doc'.pos[e] = "absent" /\ doc'.closed[e] > 0
      BY <2>1, <2>2, <2>3
    <3>2. \A x \in Trades : x # e => doc'.pos[x] = doc.pos[x] /\ doc'.closed[x] = doc.closed[x]
      BY <2>3
    <3>3. stage'[e] = "closed"
      BY <2>1, <3>1 DEF stage
    <3>4. \A x \in Trades : x # e => stage'[x] = stage[x]
      BY <3>2 DEF stage
    <3> QED BY <3>3, <3>4 DEF stage
  <2> QED BY <2>1, <2>3, <2>4, <2>5 DEF Ledger!Next, Ledger!Book, Ledger!Move
<1>5. ASSUME NEW t \in Tasks,
             EntryFail(t) \/ EntryPlace(t) \/ SliceRefused(t) \/ SweepStep(t)
               \/ (t = Loop /\ LoopStep) \/ (t = Guard /\ (GuardWake \/ GuardVisit))
      PROVE  [Ledger!Next]_(Ledger!vars)
  <2>1. doc'.pos = doc.pos /\ doc'.closed = doc.closed /\ exits' = exits
    <3>1. CASE EntryFail(t) \/ EntryPlace(t) \/ SliceRefused(t) \/ SweepStep(t)
      BY <3>1 DEF EntryFail, EntryPlace, SliceRefused, SweepStep, SweepSeen, SweepIds,
           SweepVisit, SweepEnd, Residual, brokerVars
    <3>2. CASE LoopTop
      BY <3>2, <1>t DEF LoopTop, brokerVars, TypeOK, Doc
    <3>3. CASE LoopDisarm
      BY <3>3, <1>t DEF LoopDisarm, brokerVars, TypeOK, Doc
    <3>4. CASE LoopSquareOff \/ LoopNoSquareOff \/ LoopArmCheck \/ ScanEntry \/ ScanEnd
      BY <3>4 DEF LoopSquareOff, StartSweep, LoopNoSquareOff, LoopArmCheck, ScanEntry, ScanEnd,
           brokerVars
    <3>5. CASE SuperFetch \/ SuperVisit \/ GuardWake \/ GuardVisit
      BY <3>5 DEF SuperFetch, SuperVisit, GuardWake, GuardVisit, brokerVars
    <3> QED BY <1>5, <3>1, <3>2, <3>3, <3>4, <3>5 DEF LoopStep
  <2> QED BY <2>1, StageUnchanged
<1>6. ASSUME NEW c \in Clients, Request(c) PROVE [Ledger!Next]_(Ledger!vars)
  BY <1>6, StageUnchanged
     DEF Request, EntryPost, ClosePost, SquareOffPost, StartSweep, HangUp, brokerVars
<1>7. CASE Operator \/ Exchange \/ SquareOffTime \/ Midnight \/ UNCHANGED vars
  <2>1. doc'.pos = doc.pos /\ doc'.closed = doc.closed /\ exits' = exits
    BY <1>7, <1>t
       DEF Operator, ArmPost, EnginePost, TickPost, Exchange, Fill, RejectEntry, LegHit,
           ManualTrade, SquareOffTime, Midnight, vars, engineVars, brokerVars, TypeOK, Doc
  <2> QED BY <2>1, StageUnchanged
<1> QED
  BY <1>1, <1>2, <1>3, <1>4, <1>5, <1>6, <1>7 DEF Next, TaskStep, CloseStep, EntryStep

\* Every run of the engine is a run of the ledger: each trade goes none -> open
\* -> closing -> closed, with at most one exit order, sent while closing.
THEOREM Refinement == Spec => RefinesLedger
BY InvInit, InvStep, LedgerInit, LedgerStep, PTL DEF Spec, RefinesLedger, Ledger!Spec


-----------------------------------------------------------------------------
(* Restarts: types.                                                        *)

\* The types of the process, the file and the snapshots.
RestartTypeOK ==
    /\ TypeOK
    /\ disk \in Books /\ held \subseteq Books /\ crashes \in Nat

\* Both books a save may leave are books: the snapshot and the unreadable file.
LEMMA SnapshotType == TypeOK => Snapshot \in Books /\ Unreadable \in Books
BY DEF TypeOK, Doc, Snapshot, Books, Unreadable, PosState

\* Saves write books, and a restart finds one.
LEMMA RestartTypeStep ==
  RestartTypeOK /\ [RestartNext]_<<vars, fileVars>> => RestartTypeOK'
<1> SUFFICES ASSUME RestartTypeOK, [RestartNext]_<<vars, fileVars>> PROVE RestartTypeOK'
  OBVIOUS
<1>0. TypeOK /\ Snapshot \in Books /\ Unreadable \in Books
  BY SnapshotType DEF RestartTypeOK
<1>v. UNCHANGED vars => TypeOK'
  BY <1>0, TypeStep
<1>1. CASE Next /\ UNCHANGED fileVars
  BY <1>1, <1>0, TypeStep DEF RestartTypeOK, fileVars
<1>2. CASE SaveBegins
  BY <1>2, <1>0, <1>v DEF SaveBegins, File!Begin, RestartTypeOK
<1>3. CASE SaveEnds
  BY <1>3, <1>0, <1>v DEF SaveEnds, File!End, RestartTypeOK
<1>4. CASE SavesClash
  BY <1>4, <1>0, <1>v DEF SavesClash, File!Clash, RestartTypeOK
<1>5. CASE Crash
  <2>1. doc' \in Doc
    BY <1>5 DEF Crash, RestartTypeOK, Books, Doc
  <2>2. TaskOK'
    BY <1>5, IdleType DEF Crash, TaskOK, Idle, EntryPcs, ClosePcs
  <2>3. Flat \in [Secs -> Int]
    BY DEF Flat
  <2>4. TypeOK'
    BY <1>5, <1>0, <2>1, <2>2, <2>3 DEF Crash, TypeOK, brokerVars
  <2> QED BY <1>5, <2>4 DEF Crash, File!Restart, RestartTypeOK
<1>6. CASE UNCHANGED <<vars, fileVars>>
  BY <1>6, <1>v DEF RestartTypeOK, fileVars
<1> QED BY <1>1, <1>2, <1>3, <1>4, <1>5, <1>6 DEF RestartNext

-----------------------------------------------------------------------------
(* The invariant.                                                          *)

\* What the file holds, or may when the saves under way end.
Saved == {disk} \cup held

\* Neither the running process nor a saved book knows a trade whose entry was
\* never ordered, and none was sent an exit order.
UnorderedUnknown ==
    \A e \in Trades : entryOrd[e] = "none" =>
        /\ exits[e] = 0
        /\ doc.pos[e] = "absent" /\ doc.closed[e] = 0
        /\ \A d \in Saved : d.pos[e] = "absent" /\ d.closed[e] = 0

\* A book in which every trade is open at most once or closed at most once.
Sound(pos, closed) ==
    \A e \in Trades : closed[e] <= IF pos[e] = "absent" THEN 1 ELSE 0

\* The running process keeps one and saves nothing else.
BooksSound ==
    /\ Sound(doc.pos, doc.closed)
    /\ \A d \in Saved : Sound(d.pos, d.closed)

\* One open_entry at a time works on a trade; until it pushes the position the
\* running process does not know the trade.
EntryAlone ==
    /\ \A t, u \in Tasks, e \in Trades : Entering(t, e) /\ Entering(u, e) => t = u
    /\ \A t \in Tasks : task[t].pc = "entry" => entryOrd[task[t].e] = "none"
    /\ \A t \in Tasks : task[t].pc \in {"slice", "push"} =>
         LET e == task[t].e IN
         /\ entryOrd[e] # "none" /\ exits[e] = 0
         /\ doc.pos[e] = "absent" /\ doc.closed[e] = 0

\* In the running process a claimed position is "closing" and has one owner.
ClosingAlone ==
    /\ \A t \in Tasks, e \in Trades : Closing(t, e) => doc.pos[e] = "closing"
    /\ \A t, u \in Tasks, e \in Trades : Closing(t, e) /\ Closing(u, e) => t = u

\* A trade that has used up the budget of this life is not claimed again in it.
BudgetSpent ==
    \A e \in Trades : exits[e] = 1 + crashes =>
        /\ doc.pos[e] # "running"
        /\ \A t \in Tasks : ~(task[t].pc = "send" /\ task[t].e = e)

\* The inductive invariant.
RInv ==
    /\ RestartTypeOK
    /\ UnorderedUnknown /\ EntryAlone /\ ClosingAlone /\ BudgetSpent
    /\ ExitBudget /\ BooksSound

-----------------------------------------------------------------------------
(* Most steps leave the trades alone.                                      *)

\* Task u keeps its place, or is neither entering nor closing afterwards.
Calm(u) ==
    \/ task'[u].pc = task[u].pc /\ task'[u].e = task[u].e
    \/ task'[u].pc \notin EntryPcs \cup {"send", "book"}

\* A step that changes no trade, no exit count, no saved version and whose tasks
\* are calm keeps the invariant.
LEMMA CalmStep ==
  ASSUME RInv, RestartTypeOK',
         disk' = disk, held' = held, crashes' = crashes,
         doc'.pos = doc.pos, doc'.closed = doc.closed, exits' = exits,
         \A e \in Trades : entryOrd'[e] = "none" <=> entryOrd[e] = "none",
         \A u \in Tasks : Calm(u)
  PROVE  RInv'
<1>w. \A u \in Tasks : task[u].pc \in EntryPcs => task[u].e \in Trades
  BY DEF RInv, RestartTypeOK, TypeOK, TaskOK
<1>c. \A u \in Tasks : task'[u].pc \in EntryPcs \cup {"send", "book"} =>
        task[u].pc = task'[u].pc /\ task[u].e = task'[u].e
  BY DEF Calm
<1>1. UnorderedUnknown'
  BY DEF RInv, UnorderedUnknown, Saved
<1>2. EntryAlone'
  BY <1>c, <1>w DEF RInv, EntryAlone, Entering, EntryPcs
<1>3. ClosingAlone'
  BY <1>c DEF RInv, ClosingAlone, Closing
<1>4. BudgetSpent'
  BY <1>c DEF RInv, BudgetSpent
<1>5. ExitBudget' /\ BooksSound'
  BY DEF RInv, ExitBudget, BooksSound, Saved
<1> QED BY <1>1, <1>2, <1>3, <1>4, <1>5 DEF RInv

\* The task that stores the record r is calm if r is; the others are.
LEMMA CalmWrite ==
  ASSUME TaskOK, NEW t \in Tasks, NEW r, task' = [task EXCEPT ![t] = r],
         \/ r.pc = task[t].pc /\ r.e = task[t].e
         \/ r.pc \notin EntryPcs \cup {"send", "book"}
  PROVE  \A u \in Tasks : Calm(u)
<1>1. \A u \in Tasks : task'[u] = IF u = t THEN r ELSE task[u]
  BY DEF TaskOK
<1> QED BY <1>1 DEF Calm

\* The calm ways to change a task's record: calling close_position,
LEMMA CalmCallClose ==
  ASSUME TaskOK, NEW t \in Tasks, NEW e, NEW ret, CallClose(t, e, ret)
  PROVE  \A u \in Tasks : Calm(u)
<1> DEFINE r == [task[t] EXCEPT !.pc = "claim", !.e = e, !.ret = ret, !.todo = task[t].todo \ {e}]
<1>1. r.pc = "claim"
  BY DEF TaskOK, TaskState
<1>2. task' = [task EXCEPT ![t] = r]
  BY Zenon DEF CallClose
<1> HIDE DEF r
<1> QED BY <1>1, <1>2, CalmWrite DEF EntryPcs

\* visiting an id without closing it,
LEMMA CalmSkip ==
  ASSUME TaskOK, NEW t \in Tasks, NEW e, Skip(t, e)
  PROVE  \A u \in Tasks : Calm(u)
<1> DEFINE r == [task[t] EXCEPT !.todo = @ \ {e}]
<1>1. r.pc = task[t].pc /\ r.e = task[t].e
  BY DEF TaskOK, TaskState
<1>2. task' = [task EXCEPT ![t] = r]
  BY DEF Skip, TaskOK
<1> HIDE DEF r
<1> QED BY <1>1, <1>2, CalmWrite

\* moving on outside open_entry and close_position,
LEMMA CalmGoto ==
  ASSUME TaskOK, NEW t \in Tasks, NEW pc, Goto(t, pc),
         pc \notin EntryPcs \cup {"send", "book"}
  PROVE  \A u \in Tasks : Calm(u)
<1> DEFINE r == [task[t] EXCEPT !.pc = pc]
<1>1. r.pc = pc
  BY DEF TaskOK, TaskState
<1>2. task' = [task EXCEPT ![t] = r]
  BY DEF Goto, TaskOK
<1> HIDE DEF r
<1> QED BY <1>1, <1>2, CalmWrite

\* starting afresh at a place outside them,
LEMMA CalmFresh ==
  ASSUME TaskOK, NEW t \in Tasks, NEW pc \in Pcs \ (EntryPcs \cup {"send", "book"}),
         task' = [task EXCEPT ![t] = [Idle EXCEPT !.pc = pc]]
  PROVE  \A u \in Tasks : Calm(u)
<1>1. [Idle EXCEPT !.pc = pc].pc = pc
  BY DEF Idle
<1> QED BY <1>1, CalmWrite

\* and returning from close_position.
LEMMA CalmReturn ==
  ASSUME TaskOK, NEW t \in Tasks, Return(t)
  PROVE  \A u \in Tasks : Calm(u)
<1>1. PICK r : task' = [task EXCEPT ![t] = r] /\ r.pc \notin EntryPcs \cup ClosePcs
  BY ReturnWrite
<1> QED BY <1>1, CalmWrite DEF ClosePcs

-----------------------------------------------------------------------------
(* The steps of the running process that do.                               *)

\* open_entry starts on a trade nobody has tried to enter.
LEMMA EnterKeeps ==
  ASSUME RInv, RestartTypeOK', NEW t \in Tasks, NEW e \in Trades, Fresh(e), CallEntry(t, e),
         UNCHANGED <<doc, brokerVars, fileVars>>
  PROVE  RInv'
<1> DEFINE r == [Idle EXCEPT !.pc = "entry", !.e = e]
<1>0. r.pc = "entry" /\ r.e = e
  BY DEF Idle
<1>1. \A u \in Tasks : task'[u] = IF u = t THEN r ELSE task[u]
  BY DEF CallEntry, RInv, RestartTypeOK, TypeOK, TaskOK
<1> HIDE DEF r
<1>2. \A u \in Tasks : u # t => task'[u] = task[u]
  BY <1>1
<1>3. task'[t].pc = "entry" /\ task'[t].e = e
  BY <1>0, <1>1
<1>u. /\ doc' = doc /\ entryOrd' = entryOrd /\ exits' = exits
      /\ disk' = disk /\ held' = held /\ crashes' = crashes
  BY DEF brokerVars, fileVars
<1>4. UnorderedUnknown'
  BY <1>u DEF RInv, UnorderedUnknown, Saved
<1>5. EntryAlone'
  BY <1>2, <1>3, <1>u DEF RInv, EntryAlone, Entering, EntryPcs, Fresh
<1>6. ClosingAlone'
  BY <1>2, <1>3, <1>u DEF RInv, ClosingAlone, Closing
<1>7. BudgetSpent'
  BY <1>2, <1>3, <1>u DEF RInv, BudgetSpent
<1>8. ExitBudget' /\ BooksSound'
  BY <1>u DEF RInv, ExitBudget, BooksSound, Saved
<1> QED BY <1>4, <1>5, <1>6, <1>7, <1>8 DEF RInv

\* The broker accepts the entry order or a slice of it: its task goes on to push
\* the position or to the next slice, or the answer is lost.
LEMMA PlaceKeeps ==
  ASSUME RInv, RestartTypeOK', NEW t \in Tasks, EntryPlace(t), UNCHANGED fileVars
  PROVE  RInv'
<1> DEFINE e == task[t].e
<1>e. e \in Trades /\ task[t].pc \in {"entry", "slice"}
  BY DEF EntryPlace, RInv, RestartTypeOK, TypeOK, TaskOK, EntryPcs
<1>1. \A u \in Tasks : u # t => task'[u] = task[u]
  BY DEF EntryPlace, Goto, EntryReturn, RInv, RestartTypeOK, TypeOK, TaskOK
<1>2. \/ task'[t].pc \in {"slice", "push"} /\ task'[t].e = e
      \/ task'[t].pc \in {"scan", "top"}
  <2>1. CASE Goto(t, "push") \/ Goto(t, "slice")
    BY <2>1 DEF Goto, RInv, RestartTypeOK, TypeOK, TaskOK, TaskState
  <2>2. CASE EntryReturn(t)
    BY <2>2 DEF EntryReturn, Idle, RInv, RestartTypeOK, TypeOK, TaskOK
  <2> QED BY <2>1, <2>2 DEF EntryPlace
<1>3. /\ \A x \in Trades : x # e => entryOrd'[x] = entryOrd[x]
      /\ entryOrd'[e] # "none"
  BY <1>e DEF EntryPlace, RInv, RestartTypeOK, TypeOK
<1>u. /\ doc' = doc /\ exits' = exits
      /\ disk' = disk /\ held' = held /\ crashes' = crashes
  BY DEF EntryPlace, fileVars
<1>4. exits[e] = 0 /\ doc.pos[e] = "absent" /\ doc.closed[e] = 0
  <2>1. CASE task[t].pc = "entry"
    BY <2>1, <1>e DEF RInv, EntryAlone, UnorderedUnknown, Saved
  <2>2. CASE task[t].pc = "slice"
    BY <2>2 DEF RInv, EntryAlone
  <2> QED BY <2>1, <2>2, <1>e
<1>5. UnorderedUnknown'
  BY <1>3, <1>u DEF RInv, UnorderedUnknown, Saved
<1>6. EntryAlone'
  <2>w. \A u \in Tasks : task[u].pc \in EntryPcs => task[u].e \in Trades
    BY DEF RInv, RestartTypeOK, TypeOK, TaskOK
  <2>1. \A u \in Tasks, x \in Trades : Entering(u, x)' => Entering(u, x)
    BY <1>1, <1>2, <1>e DEF Entering, EntryPcs
  <2>2. \A u \in Tasks : task'[u].pc = "entry" => entryOrd'[task'[u].e] = "none"
    BY <2>w, <1>1, <1>2, <1>3, <1>e DEF RInv, EntryAlone, Entering, EntryPcs
  <2>3. ASSUME NEW u \in Tasks, task'[u].pc \in {"slice", "push"}
        PROVE  /\ entryOrd'[task'[u].e] # "none" /\ exits[task'[u].e] = 0
               /\ doc.pos[task'[u].e] = "absent" /\ doc.closed[task'[u].e] = 0
    <3>1. CASE u = t
      BY <3>1, <2>3, <1>2, <1>3, <1>4, <1>e
    <3>2. CASE u # t
      BY <3>2, <2>3, <2>w, <1>1, <1>3 DEF RInv, EntryAlone, EntryPcs
    <3> QED BY <3>1, <3>2
  <2> QED BY <2>1, <2>2, <2>3, <1>u DEF RInv, EntryAlone
<1>7. ClosingAlone'
  BY <1>1, <1>2, <1>u DEF RInv, ClosingAlone, Closing
<1>8. BudgetSpent'
  BY <1>1, <1>2, <1>u DEF RInv, BudgetSpent
<1>9. ExitBudget' /\ BooksSound'
  BY <1>u DEF RInv, ExitBudget, BooksSound, Saved
<1> QED BY <1>5, <1>6, <1>7, <1>8, <1>9 DEF RInv

\* The position is pushed.
LEMMA PushKeeps ==
  ASSUME RInv, RestartTypeOK', NEW t \in Tasks, EntryPush(t), UNCHANGED fileVars
  PROVE  RInv'
<1> DEFINE e == task[t].e
<1>e. e \in Trades /\ task[t].pc = "push" /\ Entering(t, e)
  BY DEF EntryPush, RInv, RestartTypeOK, TypeOK, TaskOK, EntryPcs, Entering
<1>1. \A u \in Tasks : u # t => task'[u] = task[u]
  BY DEF EntryPush, EntryReturn, RInv, RestartTypeOK, TypeOK, TaskOK
<1>2. task'[t].pc \in {"scan", "top"}
  BY DEF EntryPush, EntryReturn, Idle, RInv, RestartTypeOK, TypeOK, TaskOK
<1>3. /\ \A x \in Trades : doc'.pos[x] = IF x = e THEN "running" ELSE doc.pos[x]
      /\ doc'.closed = doc.closed
  BY <1>e DEF EntryPush, RInv, RestartTypeOK, TypeOK, Doc
<1>u. /\ entryOrd' = entryOrd /\ exits' = exits
      /\ disk' = disk /\ held' = held /\ crashes' = crashes
  BY DEF EntryPush, brokerVars, fileVars
<1>4. /\ entryOrd[e] # "none" /\ exits[e] = 0
      /\ doc.pos[e] = "absent" /\ doc.closed[e] = 0
  BY <1>e DEF RInv, EntryAlone
<1>5. UnorderedUnknown'
  <2>1. ASSUME NEW x \in Trades, entryOrd[x] = "none"
        PROVE  doc'.pos[x] = "absent" /\ doc'.closed[x] = 0
    BY <2>1, <1>3, <1>4 DEF RInv, UnorderedUnknown, Saved
  <2> QED BY <2>1, <1>u DEF RInv, UnorderedUnknown, Saved
<1>6. EntryAlone'
  <2>1. \A u \in Tasks, x \in Trades : Entering(u, x)' => Entering(u, x) /\ x # e
    BY <1>1, <1>2, <1>e DEF RInv, EntryAlone, Entering, EntryPcs
  <2>2. \A u \in Tasks : task'[u].pc \in EntryPcs => task'[u].e \in Trades
    BY DEF RestartTypeOK, TypeOK, TaskOK
  <2>3. \A u \in Tasks : task'[u].pc \in {"slice", "push"} => task'[u].e # e
    BY <2>1, <2>2 DEF Entering, EntryPcs
  <2> QED BY <2>1, <2>2, <2>3, <1>1, <1>2, <1>3, <1>u DEF RInv, EntryAlone, EntryPcs
<1>7. ClosingAlone'
  BY <1>1, <1>2, <1>3, <1>4, <1>u DEF RInv, ClosingAlone, Closing
<1>8. BudgetSpent'
  <2>1. crashes \in Nat
    BY DEF RInv, RestartTypeOK
  <2> QED BY <2>1, <1>1, <1>2, <1>3, <1>4, <1>u DEF RInv, BudgetSpent
<1>9. ExitBudget'
  BY <1>u DEF RInv, ExitBudget
<1>10. BooksSound'
  BY <1>3, <1>4, <1>u DEF RInv, BooksSound, Saved, Sound
<1> QED BY <1>5, <1>6, <1>7, <1>8, <1>9, <1>10 DEF RInv

\* A claim that finds the position running makes its task the only owner; one
\* that does not returns and changes nothing.
LEMMA ClaimKeeps ==
  ASSUME RInv, RestartTypeOK', NEW t \in Tasks, Claim(t), UNCHANGED fileVars
  PROVE  RInv'
<1> DEFINE e == task[t].e
<1>e. e \in Trades /\ task[t].pc = "claim"
  BY DEF Claim, RInv, RestartTypeOK, TypeOK, TaskOK, ClosePcs
<1>u. /\ entryOrd' = entryOrd /\ exits' = exits
      /\ disk' = disk /\ held' = held /\ crashes' = crashes
  BY DEF Claim, brokerVars, fileVars
<1>a. CASE doc.pos[e] # "running"
  <2>1. Return(t) /\ doc' = doc
    BY <1>a DEF Claim
  <2>2. \A u \in Tasks : Calm(u)
    BY <2>1, CalmReturn DEF RInv, RestartTypeOK, TypeOK
  <2> QED BY <2>1, <2>2, <1>u, CalmStep
<1>b. CASE doc.pos[e] = "running"
  <2>1. \A u \in Tasks : u # t => task'[u] = task[u]
    BY <1>b DEF Claim, Goto, RInv, RestartTypeOK, TypeOK, TaskOK
  <2>2. task'[t].pc = "send" /\ task'[t].e = e
    BY <1>b DEF Claim, Goto, RInv, RestartTypeOK, TypeOK, TaskOK, TaskState
  <2>3. /\ \A x \in Trades : doc'.pos[x] = IF x = e THEN "closing" ELSE doc.pos[x]
        /\ doc'.closed = doc.closed
    BY <1>b, <1>e DEF Claim, RInv, RestartTypeOK, TypeOK, Doc
  <2>4. entryOrd[e] # "none" /\ exits[e] # 1 + crashes /\ \A u \in Tasks : ~Closing(u, e)
    BY <1>b, <1>e DEF RInv, UnorderedUnknown, BudgetSpent, ClosingAlone
  <2>5. UnorderedUnknown'
    BY <2>3, <2>4, <1>u DEF RInv, UnorderedUnknown, Saved
  <2>6. EntryAlone'
    <3>1. \A u \in Tasks : task[u].pc \in {"slice", "push"} => task[u].e # e
      BY <1>b DEF RInv, EntryAlone
    <3>2. \A u \in Tasks : task[u].pc \in EntryPcs => task[u].e \in Trades
      BY DEF RInv, RestartTypeOK, TypeOK, TaskOK
    <3> QED BY <3>1, <3>2, <2>1, <2>2, <2>3, <1>u DEF RInv, EntryAlone, Entering, EntryPcs
  <2>7. ClosingAlone'
    BY <2>1, <2>2, <2>3, <2>4, <1>u DEF RInv, ClosingAlone, Closing
  <2>8. BudgetSpent'
    BY <2>1, <2>2, <2>3, <2>4, <1>u DEF RInv, BudgetSpent
  <2>9. ExitBudget' /\ BooksSound'
    BY <2>3, <1>b, <1>u DEF RInv, ExitBudget, BooksSound, Saved, Sound
  <2> QED BY <2>5, <2>6, <2>7, <2>8, <2>9 DEF RInv
<1> QED BY <1>a, <1>b

\* The owner sends its exit order, the last one of this life of the process.
LEMMA SendKeeps ==
  ASSUME RInv, RestartTypeOK', NEW t \in Tasks, Send(t), UNCHANGED fileVars
  PROVE  RInv'
<1> DEFINE e == task[t].e
<1>e. e \in Trades /\ task[t].pc = "send" /\ Closing(t, e)
  BY DEF Send, Closing, RInv, RestartTypeOK, TypeOK, TaskOK, ClosePcs
<1>1. \A u \in Tasks : u # t => task'[u] = task[u]
  BY DEF Send, Goto, RInv, RestartTypeOK, TypeOK, TaskOK
<1>2. task'[t].pc = "book" /\ task'[t].e = e
  BY DEF Send, Goto, RInv, RestartTypeOK, TypeOK, TaskOK, TaskState
<1>u. doc' = doc /\ disk' = disk /\ held' = held /\ crashes' = crashes
  BY DEF Send, fileVars
<1>3. /\ doc.pos[e] = "closing"
      /\ \A u \in Tasks : Closing(u, e) => u = t
      /\ exits[e] <= 1 + crashes /\ exits[e] # 1 + crashes
  BY <1>e DEF RInv, ClosingAlone, ExitBudget, BudgetSpent
<1>4. /\ \A x \in Trades : x # e => exits'[x] = exits[x]
      /\ exits'[e] \in {exits[e], exits[e] + 1}
      /\ crashes \in Nat /\ exits[e] \in Nat
  BY <1>e DEF Send, RInv, RestartTypeOK, TypeOK
<1>5. \A x \in Trades : entryOrd'[x] = "none" <=> entryOrd[x] = "none"
  BY <1>e DEF Send, RInv, RestartTypeOK, TypeOK
<1>6. UnorderedUnknown'
  BY <1>3, <1>4, <1>5, <1>u, <1>e DEF RInv, UnorderedUnknown, Saved
<1>7. EntryAlone'
  <2>1. \A u \in Tasks : task[u].pc \in {"slice", "push"} => task[u].e # e
    BY <1>3 DEF RInv, EntryAlone
  <2>2. \A u \in Tasks : task[u].pc \in EntryPcs => task[u].e \in Trades
    BY DEF RInv, RestartTypeOK, TypeOK, TaskOK
  <2> QED BY <2>1, <2>2, <1>1, <1>2, <1>4, <1>5, <1>u DEF RInv, EntryAlone, Entering, EntryPcs
<1>8. ClosingAlone'
  BY <1>1, <1>2, <1>e, <1>u DEF RInv, ClosingAlone, Closing
<1>9. BudgetSpent'
  <2>1. ASSUME NEW x \in Trades, exits'[x] = 1 + crashes
        PROVE  /\ doc.pos[x] # "running"
               /\ \A u \in Tasks : ~(task'[u].pc = "send" /\ task'[u].e = x)
    <3>1. CASE x = e
      BY <3>1, <1>1, <1>2, <1>3 DEF Closing
    <3>2. CASE x # e
      BY <3>2, <2>1, <1>1, <1>2, <1>4 DEF RInv, BudgetSpent
    <3> QED BY <3>1, <3>2
  <2> QED BY <2>1, <1>u DEF BudgetSpent
<1>10. ExitBudget'
  BY <1>3, <1>4, <1>u DEF RInv, ExitBudget
<1>11. BooksSound'
  BY <1>u DEF RInv, BooksSound, Saved
<1> QED BY <1>6, <1>7, <1>8, <1>9, <1>10, <1>11 DEF RInv

\* The owner books the trade and lets it go.
LEMMA BookKeeps ==
  ASSUME RInv, RestartTypeOK', NEW t \in Tasks, Book(t), UNCHANGED fileVars
  PROVE  RInv'
<1> DEFINE e == task[t].e
<1>e. e \in Trades /\ task[t].pc = "book" /\ Closing(t, e)
  BY DEF Book, Closing, RInv, RestartTypeOK, TypeOK, TaskOK, ClosePcs
<1>1. \A u \in Tasks : u # t => task'[u] = task[u]
  BY ReturnWrite DEF Book, RInv, RestartTypeOK, TypeOK
<1>2. task'[t].pc \notin EntryPcs \cup ClosePcs
  BY ReturnWrite DEF Book, RInv, RestartTypeOK, TypeOK
<1>3. /\ \A x \in Trades : doc'.pos[x] = IF x = e THEN "absent" ELSE doc.pos[x]
      /\ \A x \in Trades : doc'.closed[x] = IF x = e THEN doc.closed[x] + 1 ELSE doc.closed[x]
  BY <1>e DEF Book, RInv, RestartTypeOK, TypeOK, Doc
<1>u. /\ entryOrd' = entryOrd /\ exits' = exits
      /\ disk' = disk /\ held' = held /\ crashes' = crashes
  BY DEF Book, brokerVars, fileVars
<1>4. /\ doc.pos[e] = "closing" /\ doc.closed[e] = 0
      /\ \A u \in Tasks : Closing(u, e) => u = t
  BY <1>e DEF RInv, ClosingAlone, BooksSound, Sound, RestartTypeOK, TypeOK, Doc
<1>5. UnorderedUnknown'
  BY <1>3, <1>4, <1>u DEF RInv, UnorderedUnknown, Saved
<1>6. EntryAlone'
  <2>1. \A u \in Tasks : task[u].pc \in {"slice", "push"} => task[u].e # e
    BY <1>4 DEF RInv, EntryAlone
  <2>2. \A u \in Tasks : task[u].pc \in EntryPcs => task[u].e \in Trades
    BY DEF RInv, RestartTypeOK, TypeOK, TaskOK
  <2> QED BY <2>1, <2>2, <1>1, <1>2, <1>3, <1>u DEF RInv, EntryAlone, Entering, EntryPcs
<1>7. ClosingAlone'
  <2>1. \A u \in Tasks, x \in Trades : Closing(u, x)' => Closing(u, x) /\ u # t
    BY <1>1, <1>2 DEF Closing, ClosePcs
  <2> QED BY <2>1, <1>3, <1>4 DEF RInv, ClosingAlone
<1>8. BudgetSpent'
  BY <1>1, <1>2, <1>3, <1>u DEF RInv, BudgetSpent, ClosePcs
<1>9. ExitBudget' /\ BooksSound'
  BY <1>3, <1>4, <1>u DEF RInv, ExitBudget, BooksSound, Saved, Sound
<1> QED BY <1>5, <1>6, <1>7, <1>8, <1>9 DEF RInv

-----------------------------------------------------------------------------
(* Every step of the running process.                                      *)

\* While the process runs, each action changes trades in one of the ways above,
\* or only moves tasks outside open_entry and past a claim.
LEMMA RunningKeeps ==
  ASSUME RInv, RestartTypeOK', Next, UNCHANGED fileVars
  PROVE  RInv'
<1>t. TaskOK /\ TypeOK
  BY DEF RInv, RestartTypeOK, TypeOK
<1> USE <1>t
<1>f. disk' = disk /\ held' = held /\ crashes' = crashes
  BY DEF fileVars
<1>p. {"square", "disarm", "arm", "scan", "super", "legs", "manage", "residual", "top",
       "seen", "ids", "sweep"} \subseteq Pcs \ (EntryPcs \cup {"send", "book"})
  BY DEF EntryPcs, ClosePcs, Pcs
<1>i. Idle = [Idle EXCEPT !.pc = "top"]
  BY DEF Idle
\* A step that leaves doc, the exits and the entry orders alone.
<1>c. ASSUME doc'.pos = doc.pos, doc'.closed = doc.closed, exits' = exits,
             entryOrd' = entryOrd, \A u \in Tasks : Calm(u)
      PROVE  RInv'
  BY <1>c, <1>f, CalmStep
<1>s. ASSUME NEW t \in Tasks, StartSweep(t) PROVE RInv'
  <2> DEFINE r == [Idle EXCEPT !.pc = "seen", !.signed = OwnPerSec]
  <2>1. r.pc = "seen"
    BY DEF Idle
  <2>2. task' = [task EXCEPT ![t] = r]
    BY <1>s, Zenon DEF StartSweep
  <2> HIDE DEF r
  <2>3. \A u \in Tasks : Calm(u)
    BY <2>1, <2>2, CalmWrite DEF EntryPcs
  <2> QED BY <1>s, <1>c, <2>3 DEF StartSweep, brokerVars
<1>l. ASSUME NEW t \in Tasks, NEW pc \in Pcs \ (EntryPcs \cup {"send", "book"}), NEW ids,
             Collect(t, pc, ids)
      PROVE  \A u \in Tasks : Calm(u)
  <2> DEFINE r == [Idle EXCEPT !.pc = pc, !.todo = ids]
  <2>1. r.pc = pc
    BY DEF Idle
  <2>2. task' = [task EXCEPT ![t] = r]
    BY <1>l DEF Collect
  <2> HIDE DEF r
  <2> QED BY <2>1, <2>2, CalmWrite
<1>n. ASSUME NEW t \in Tasks, Finish(t) PROVE \A u \in Tasks : Calm(u)
  BY <1>n, <1>i, <1>p, CalmFresh DEF Finish
<1>1. ASSUME NEW t \in Tasks, TaskStep(t) PROVE RInv'
  <2>1. CASE Claim(t)
    BY <2>1, ClaimKeeps
  <2>2. CASE Send(t)
    BY <2>2, SendKeeps
  <2>3. CASE Book(t)
    BY <2>3, BookKeeps
  <2>4. CASE EntryFail(t)
    <3>1. \A u \in Tasks : Calm(u)
      BY <2>4, <1>i, <1>p, CalmFresh DEF EntryFail, EntryReturn
    <3> QED BY <2>4, <3>1, <1>c DEF EntryFail, brokerVars
  <2>5. CASE EntryPlace(t)
    BY <2>5, PlaceKeeps
  <2>5a. CASE SliceRefused(t)
    <3>1. \A u \in Tasks : Calm(u)
      BY <2>5a, <1>i, <1>p, CalmFresh DEF SliceRefused, EntryReturn
    <3> QED BY <2>5a, <3>1, <1>c DEF SliceRefused
  <2>6. CASE EntryPush(t)
    BY <2>6, PushKeeps
  <2>7. CASE SweepVisit(t)
    <3>1. \A u \in Tasks : Calm(u)
      BY <2>7, CalmCallClose, CalmSkip DEF SweepVisit
    <3> QED BY <2>7, <3>1, <1>c DEF SweepVisit, brokerVars
  <2>7a. CASE SweepSeen(t)
    <3> DEFINE r == [task[t] EXCEPT !.pc = "ids", !.seen = snap]
    <3>1. r.pc = "ids"
      BY DEF TaskOK, TaskState
    <3>2. task' = [task EXCEPT ![t] = r]
      BY <2>7a, SeenWrite
    <3> HIDE DEF r
    <3>3. \A u \in Tasks : Calm(u)
      BY <3>1, <3>2, CalmWrite DEF EntryPcs
    <3> QED BY <2>7a, <3>3, <1>c DEF SweepSeen, brokerVars
  <2>7b. CASE SweepIds(t)
    <3> DEFINE r == [task[t] EXCEPT !.pc = "sweep", !.todo = Booked]
    <3>1. r.pc = "sweep"
      BY DEF TaskOK, TaskState
    <3>2. task' = [task EXCEPT ![t] = r]
      BY <2>7b, IdsWrite
    <3> HIDE DEF r
    <3>3. \A u \in Tasks : Calm(u)
      BY <3>1, <3>2, CalmWrite DEF EntryPcs
    <3> QED BY <2>7b, <3>3, <1>c DEF SweepIds, brokerVars
  <2>8. CASE SweepEnd(t)
    BY <2>8, <1>c, <1>p, CalmGoto DEF SweepEnd, brokerVars
  <2>9. CASE Residual(t)
    <3>1. \A u \in Tasks : Calm(u)
      BY <2>9, <1>p, <1>n, CalmFresh DEF Residual
    <3> QED BY <2>9, <3>1, <1>c DEF Residual
  <2>10. CASE t = Loop /\ LoopStep
    <3>1. CASE LoopTop
      <4>1. \A u \in Tasks : Calm(u)
        <5>1. CASE UNCHANGED task
          BY <5>1 DEF Calm
        <5>2. CASE Goto(Loop, "square")
          BY <5>2, <1>p, CalmGoto
        <5> QED BY <3>1, <5>1, <5>2 DEF LoopTop
      <4> QED BY <3>1, <4>1, <1>c DEF LoopTop, brokerVars, TypeOK, Doc
    <3>2. CASE LoopSquareOff
      BY <3>2, <1>s DEF LoopSquareOff
    <3>3. CASE LoopNoSquareOff
      BY <3>3, <1>c, <1>p, CalmGoto DEF LoopNoSquareOff, brokerVars
    <3>4. CASE LoopDisarm
      BY <3>4, <1>c, <1>p, CalmGoto DEF LoopDisarm, brokerVars, TypeOK, Doc
    <3>5. CASE LoopArmCheck
      BY <3>5, <1>c, <1>p, CalmGoto DEF LoopArmCheck, brokerVars
    <3>6. CASE ScanEntry
      BY <3>6, EnterKeeps DEF ScanEntry
    <3>7. CASE ScanEnd
      BY <3>7, <1>c, <1>p, CalmGoto DEF ScanEnd, brokerVars
    <3>8. CASE SuperFetch
      <4>1. \A u \in Tasks : Calm(u)
        BY <3>8, <1>p, <1>l, <1>n DEF SuperFetch
      <4> QED BY <3>8, <4>1, <1>c DEF SuperFetch, brokerVars
    <3>9. CASE SuperVisit
      <4>1. \A u \in Tasks : Calm(u)
        BY <3>9, <1>n, CalmCallClose, CalmSkip DEF SuperVisit
      <4> QED BY <3>9, <4>1, <1>c DEF SuperVisit, brokerVars
    <3> QED BY <2>10, <3>1, <3>2, <3>3, <3>4, <3>5, <3>6, <3>7, <3>8, <3>9 DEF LoopStep
  <2>11. CASE t = Guard /\ GuardWake
    BY <2>11, <1>c, <1>l, <1>p DEF GuardWake, brokerVars
  <2>12. CASE t = Guard /\ GuardVisit
    <3>1. \A u \in Tasks : Calm(u)
      BY <2>12, <1>n, CalmCallClose, CalmSkip DEF GuardVisit
    <3> QED BY <2>12, <3>1, <1>c DEF GuardVisit, brokerVars
  <2> QED
    BY <1>1, <2>1, <2>2, <2>3, <2>4, <2>5, <2>5a, <2>6, <2>7, <2>7a, <2>7b, <2>8, <2>9,
       <2>10, <2>11, <2>12
       DEF TaskStep, CloseStep, EntryStep, SweepStep
<1>2. ASSUME NEW c \in Clients, Request(c) PROVE RInv'
  <2>0. c \in Tasks
    OBVIOUS
  <2>1. ASSUME NEW e \in Trades, EntryPost(c, e) PROVE RInv'
    BY <2>1, EnterKeeps DEF EntryPost
  <2>2. ASSUME NEW e \in Trades, ClosePost(c, e) PROVE RInv'
    BY <2>2, <1>c, CalmCallClose DEF ClosePost, brokerVars
  <2>3. CASE SquareOffPost(c)
    BY <2>3, <1>s DEF SquareOffPost
  <2>4. CASE HangUp(c)
    BY <2>4, <1>c, <1>n DEF HangUp
  <2> QED BY <1>2, <2>1, <2>2, <2>3, <2>4 DEF Request
\* The operator, the exchange and the clock move no task.
<1>3. CASE Operator \/ Exchange \/ SquareOffTime \/ Midnight
  <2>1. task' = task /\ exits' = exits
    BY <1>3 DEF Operator, ArmPost, EnginePost, TickPost, Exchange, Fill, RejectEntry,
         LegHit, ManualTrade, CountOutside, SquareOffTime, Midnight, engineVars, brokerVars
  <2>2. \A u \in Tasks : Calm(u)
    BY <2>1 DEF Calm
  <2>3. doc'.pos = doc.pos /\ doc'.closed = doc.closed
    BY <1>3 DEF Operator, ArmPost, EnginePost, TickPost, Exchange, Fill, RejectEntry,
         LegHit, ManualTrade, CountOutside, SquareOffTime, Midnight, engineVars, TypeOK, Doc
  <2>4. \A e \in Trades : entryOrd'[e] = "none" <=> entryOrd[e] = "none"
    <3>1. CASE \E x \in Trades : Fill(x) \/ RejectEntry(x)
      BY <3>1 DEF Fill, RejectEntry, TypeOK
    <3>2. CASE ~\E x \in Trades : Fill(x) \/ RejectEntry(x)
      BY <1>3, <3>2 DEF Operator, ArmPost, EnginePost, TickPost, Exchange,
           LegHit, ManualTrade, CountOutside, SquareOffTime, Midnight, brokerVars
    <3> QED BY <3>1, <3>2
  <2> QED BY <2>1, <2>2, <2>3, <2>4, <1>f, CalmStep
<1> QED BY <1>1, <1>2, <1>3 DEF Next

-----------------------------------------------------------------------------
(* Saves and restarts.                                                     *)

\* What a save puts into the file is sound if the snapshot is: it is the
\* snapshot, or an empty book.
LEMMA SavesKeep ==
  ASSUME RInv, RestartTypeOK', UNCHANGED vars, crashes' = crashes,
         \A d \in Saved' : d \in Saved \cup {Snapshot, Unreadable}
  PROVE  RInv'
<1>u. /\ doc' = doc /\ task' = task /\ entryOrd' = entryOrd /\ exits' = exits
  BY DEF vars, engineVars, brokerVars
<1>1. /\ Snapshot.pos = doc.pos /\ Snapshot.closed = doc.closed
      /\ \A e \in Trades : Unreadable.pos[e] = "absent" /\ Unreadable.closed[e] = 0
  BY DEF Snapshot, Unreadable
<1>2. UnorderedUnknown'
  BY <1>u, <1>1 DEF RInv, UnorderedUnknown
<1>3. BooksSound'
  <2>1. Sound(Unreadable.pos, Unreadable.closed)
    BY <1>1 DEF Sound
  <2> QED BY <1>u, <1>1, <2>1 DEF RInv, BooksSound, Sound
<1>4. EntryAlone' /\ ClosingAlone' /\ BudgetSpent' /\ ExitBudget'
  BY <1>u DEF RInv, EntryAlone, Entering, ClosingAlone, Closing, BudgetSpent, ExitBudget
<1> QED BY <1>2, <1>3, <1>4 DEF RInv

\* The next process knows what the file knew, and every task starts afresh.
LEMMA CrashKeeps ==
  ASSUME RInv, RestartTypeOK', Crash
  PROVE  RInv'
<1>u. /\ entryOrd' = entryOrd /\ exits' = exits
      /\ disk' = disk /\ held' = {} /\ crashes' = crashes + 1 /\ crashes \in Nat
      /\ doc'.pos = disk.pos /\ doc'.closed = disk.closed
  BY DEF Crash, File!Restart, brokerVars, RInv, RestartTypeOK
<1>1. \A u \in Tasks : task'[u].pc = "top"
  BY DEF Crash, Idle
<1>2. UnorderedUnknown'
  BY <1>u DEF RInv, UnorderedUnknown, Saved
<1>3. BooksSound'
  BY <1>u DEF RInv, BooksSound, Saved
<1>4. EntryAlone' /\ ClosingAlone'
  BY <1>1 DEF EntryAlone, Entering, EntryPcs, ClosingAlone, Closing
<1>5. ExitBudget' /\ BudgetSpent'
  <2>1. \A e \in Trades : exits[e] \in Nat /\ exits[e] <= 1 + crashes
    BY DEF RInv, ExitBudget, RestartTypeOK, TypeOK
  <2> QED BY <2>1, <1>u DEF ExitBudget, BudgetSpent
<1> QED BY <1>2, <1>3, <1>4, <1>5 DEF RInv

-----------------------------------------------------------------------------
(* The invariant holds.                                                    *)

\* The first start knows no trade and has used up nothing.
LEMMA RestartInvInit == RestartInit => RInv
<1> SUFFICES ASSUME RestartInit PROVE RInv
  OBVIOUS
<1>1. RestartTypeOK
  BY TypeInit, SnapshotType DEF RestartInit, RestartTypeOK
<1>2. \A t \in Tasks : task[t].pc = "top"
  BY DEF RestartInit, Init, Idle
<1>3. \A e \in Trades : doc.pos[e] = "absent" /\ doc.closed[e] = 0 /\ exits[e] = 0
  BY DEF RestartInit, Init
<1>4. held = {} /\ crashes = 0 /\ disk.pos = doc.pos /\ disk.closed = doc.closed
  BY DEF RestartInit, Snapshot
<1>5. UnorderedUnknown /\ BooksSound
  BY <1>3, <1>4 DEF UnorderedUnknown, BooksSound, Sound, Saved
<1>6. EntryAlone /\ ClosingAlone
  BY <1>2 DEF EntryAlone, Entering, EntryPcs, ClosingAlone, Closing
<1>7. BudgetSpent /\ ExitBudget
  BY <1>3, <1>4 DEF BudgetSpent, ExitBudget
<1> QED BY <1>1, <1>5, <1>6, <1>7 DEF RInv

\* Every step, every save and every restart preserves the invariant.
LEMMA RestartInvStep == RInv /\ [RestartNext]_<<vars, fileVars>> => RInv'
<1> SUFFICES ASSUME RInv, [RestartNext]_<<vars, fileVars>> PROVE RInv'
  OBVIOUS
<1>t. RestartTypeOK'
  BY RestartTypeStep DEF RInv
<1>1. CASE Next /\ UNCHANGED fileVars
  BY <1>1, <1>t, RunningKeeps
<1>2. CASE SaveBegins
  BY <1>2, <1>t, SavesKeep DEF SaveBegins, File!Begin, Saved
<1>3. CASE SaveEnds
  BY <1>3, <1>t, SavesKeep DEF SaveEnds, File!End, Saved
<1>4. CASE SavesClash
  BY <1>4, <1>t, SavesKeep DEF SavesClash, File!Clash, Saved
<1>5. CASE Crash
  BY <1>5, <1>t, CrashKeeps
<1>6. CASE UNCHANGED <<vars, fileVars>>
  BY <1>6, <1>t, SavesKeep DEF fileVars, Saved
<1> QED BY <1>1, <1>2, <1>3, <1>4, <1>5, <1>6 DEF RestartNext

\* Type correctness across restarts: whatever is saved, lost and read back, the
\* document, the file and the snapshot on its way to it keep their types.
THEOREM RestartTypeCorrect == RestartSpec => []RestartTypeOK
<1>1. RInv => RestartTypeOK
  BY DEF RInv
<1> QED BY <1>1, RestartInvInit, RestartInvStep, PTL DEF RestartSpec

\* However many times the process dies, and whatever the file then says, a trade
\* gets at most one exit order accepted per life of the process (close_position
\* claims before it sends; the file may hand the next process a position that is
\* still running though its exit went out).
THEOREM ExitBudgetHolds == RestartSpec => []ExitBudget
<1>1. RInv => ExitBudget
  BY DEF RInv
<1> QED BY <1>1, RestartInvInit, RestartInvStep, PTL DEF RestartSpec

\* No order of saves, clashing ones among them, and restarts makes a trade open
\* and closed at once, or banked twice, in memory, in the file or in a snapshot
\* on its way to it.
THEOREM LedgerOnceEverywhereHolds == RestartSpec => []LedgerOnceEverywhere
<1>1. RInv => LedgerOnceEverywhere
  <2>1. Snapshot.pos = doc.pos /\ Snapshot.closed = doc.closed
    BY DEF Snapshot
  <2>2. {Snapshot, disk} \cup held = {Snapshot} \cup Saved
    BY DEF Saved
  <2> QED BY <2>1, <2>2 DEF RInv, BooksSound, Sound, LedgerOnceEverywhere
<1> QED BY <1>1, RestartInvInit, RestartInvStep, PTL DEF RestartSpec
=============================================================================
