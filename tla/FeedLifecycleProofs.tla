------------------------ MODULE FeedLifecycleProofs ------------------------
(***************************************************************************)
(* That the tasks around the market feed keep their types, and that the     *)
(* cooldowns are counted as the requests that ask for them, for any number  *)
(* of requests, timers and supervisors.                                     *)
(* A cooldown starts at the end of a reset and a reset is one request; the  *)
(* bound on requests is one on cooldowns because those asked for and not    *)
(* started yet are counted too.                                             *)
(***************************************************************************)
EXTENDS FeedLifecycle, FiniteSetTheorems, TLAPS

\* The tasks that still have to start a cooldown.
Resetting == {c \in Callers : caller[c].then = "reset"}

ResetKnown == \A c \in Callers : caller[c].pc = "reset" => caller[c].then = "reset"

Cooldowns ==
  /\ IsFiniteSet(Resetting)
  /\ resets + Cardinality(Resetting) <= requests
  /\ park <= resets /\ over <= resets

FeedInv == TypeOK /\ ResetKnown /\ Cooldowns

CallerPcs == {"idle", "stop", "abort", "park", "unpark", "reset", "spawn",
              "handle", "sleep", "session", "alive", "silent"}

-----------------------------------------------------------------------------
(* A task moves on.                                                        *)

LEMMA IdleTyped ==
  /\ IdleCaller \in CallerState
  /\ IdleCaller.pc = "idle" /\ IdleCaller.then = "idle"
BY FeedAssumption DEF IdleCaller, CallerState

LEMMA Moves ==
  ASSUME TypeOK, ResetKnown, NEW c \in Callers, NEW r \in CallerState,
         caller' = [caller EXCEPT ![c] = r],
         r.then = "reset" => caller[c].then = "reset",
         r.pc = "reset" => r.then = "reset"
  PROVE  /\ caller' \in [Callers -> CallerState]
         /\ ResetKnown'
         /\ Resetting' \subseteq Resetting
BY DEF TypeOK, ResetKnown, Resetting

LEMMA Goes ==
  ASSUME TypeOK, ResetKnown, NEW c \in Callers, NEW pc \in CallerPcs, Goto(c, pc),
         pc = "reset" => caller[c].then = "reset"
  PROVE  /\ caller' \in [Callers -> CallerState]
         /\ ResetKnown'
         /\ Resetting' \subseteq Resetting
<1> DEFINE r == [caller[c] EXCEPT !.pc = pc]
<1>1. caller[c] \in CallerState /\ r \in CallerState /\ r.pc = pc /\ r.then = caller[c].then
  BY DEF TypeOK, CallerState, CallerPcs
<1>2. caller' = [caller EXCEPT ![c] = r]
  BY DEF Goto
<1> HIDE DEF r
<1> QED BY <1>1, <1>2, Moves

LEMMA Returns ==
  ASSUME TypeOK, ResetKnown, NEW c \in Callers, Return(c)
  PROVE  /\ caller' \in [Callers -> CallerState]
         /\ ResetKnown'
         /\ Resetting' \subseteq Resetting \ {c}
<1>1. /\ caller' \in [Callers -> CallerState]
      /\ ResetKnown'
      /\ Resetting' \subseteq Resetting
  BY IdleTyped, Moves DEF Return
<1>2. c \notin Resetting'
  BY IdleTyped DEF Return, Resetting, TypeOK
<1> QED BY <1>1, <1>2

LEMMA Stops ==
  ASSUME TypeOK, ResetKnown, NEW c \in Callers, NEW then \in {"park", "spawn", "reset"}, Stop(c, then)
  PROVE  /\ caller' \in [Callers -> CallerState]
         /\ ResetKnown'
         /\ Resetting' \subseteq Resetting \cup {c}
         /\ then # "reset" => Resetting' \subseteq Resetting
<1> DEFINE r == [caller[c] EXCEPT !.pc = "stop", !.then = then]
<1>1. caller[c] \in CallerState /\ r \in CallerState /\ r.pc = "stop" /\ r.then = then
  BY DEF TypeOK, CallerState
<1>2. caller' = [caller EXCEPT ![c] = r]
  BY DEF Stop
<1> HIDE DEF r
<1> QED BY <1>1, <1>2 DEF TypeOK, ResetKnown, Resetting

-----------------------------------------------------------------------------
(* Counting cooldowns.                                                     *)

\* No task asks for another cooldown.
LEMMA NoneAsked ==
  ASSUME TypeOK, TypeOK', Cooldowns, Resetting' \subseteq Resetting,
         requests' >= requests, resets' = resets, park' <= resets', over' <= resets'
  PROVE  Cooldowns'
<1>1. IsFiniteSet(Resetting') /\ Cardinality(Resetting') <= Cardinality(Resetting)
  BY FS_Subset DEF Cooldowns
<1>2. Cardinality(Resetting) \in Nat /\ Cardinality(Resetting') \in Nat
  BY <1>1, FS_CardinalityType DEF Cooldowns
<1> QED BY <1>1, <1>2, FeedAssumption DEF Cooldowns, TypeOK

\* One does, by a request.
LEMMA OneAsked ==
  ASSUME TypeOK, Cooldowns, NEW c, Resetting' \subseteq Resetting \cup {c},
         requests' = requests + 1, UNCHANGED <<resets, park, over>>
  PROVE  Cooldowns'
<1>1. /\ IsFiniteSet(Resetting \cup {c})
      /\ Cardinality(Resetting \cup {c}) <= Cardinality(Resetting) + 1
      /\ Cardinality(Resetting) \in Nat
  <2>1. IsFiniteSet(Resetting) /\ Cardinality(Resetting) \in Nat
    BY FS_CardinalityType DEF Cooldowns
  <2> QED BY <2>1, FS_AddElement
<1>2. IsFiniteSet(Resetting') /\ Cardinality(Resetting') <= Cardinality(Resetting \cup {c})
  BY <1>1, FS_Subset
<1>3. Cardinality(Resetting') \in Nat /\ Cardinality(Resetting \cup {c}) \in Nat
  BY <1>1, <1>2, FS_CardinalityType
<1> QED BY <1>1, <1>2, <1>3, FeedAssumption DEF Cooldowns, TypeOK

\* One that was asked for starts.
LEMMA OneStarts ==
  ASSUME TypeOK, Cooldowns, NEW c \in Resetting, Resetting' \subseteq Resetting \ {c},
         resets' = resets + 1, park' = resets', UNCHANGED <<requests, over>>
  PROVE  /\ Cooldowns'
         /\ resets' \in 0..MaxRequests
<1>1. /\ IsFiniteSet(Resetting \ {c})
      /\ Cardinality(Resetting \ {c}) = Cardinality(Resetting) - 1
      /\ Cardinality(Resetting) \in Nat
  BY FS_RemoveElement, FS_CardinalityType DEF Cooldowns
<1>2. IsFiniteSet(Resetting') /\ Cardinality(Resetting') <= Cardinality(Resetting \ {c})
  BY <1>1, FS_Subset
<1>3. Cardinality(Resetting') \in Nat /\ Cardinality(Resetting \ {c}) \in Nat
  BY <1>1, <1>2, FS_CardinalityType
<1> QED BY <1>1, <1>2, <1>3, FeedAssumption DEF Cooldowns, TypeOK

-----------------------------------------------------------------------------
(* The steps.                                                              *)

LEMMA SupsTyped ==
  ASSUME TypeOK, NEW f \in Feeds
  PROVE  /\ Ended \in Sup /\ [sup EXCEPT ![f] = Ended] \in [Feeds -> Sup]
         /\ [sup EXCEPT ![f].aborted = TRUE] \in [Feeds -> Sup]
         /\ \A pc \in OuterPcs : [sup EXCEPT ![f].outer = pc] \in [Feeds -> Sup]
         /\ \A pc \in InnerPcs : [sup EXCEPT ![f].inner = pc] \in [Feeds -> Sup]
<1>1. Ended \in Sup
  BY DEF Ended, Sup, OuterPcs, InnerPcs
<1>2. sup \in [Feeds -> Sup]
  BY DEF TypeOK
<1> QED BY <1>1, <1>2 DEF Sup

LEMMA FeedInit == Init => FeedInv
<1> SUFFICES ASSUME Init PROVE FeedInv
  OBVIOUS
<1>1. TypeOK
  <2>1. Ended \in Sup /\ Down \in Health
    BY DEF Ended, Sup, OuterPcs, InnerPcs, Down, Health
  <2>2. 0 \in 0..MaxRequests
    BY FeedAssumption
  <2>3. caller \in [Callers -> CallerState] /\ sup \in [Feeds -> Sup]
    BY <2>1, IdleTyped DEF Init
  <2> QED BY <2>1, <2>2, <2>3 DEF Init, TypeOK
<1>2. ResetKnown /\ Resetting = {}
  BY IdleTyped DEF Init, ResetKnown, Resetting
<1>3. Cooldowns
  BY <1>2, FS_EmptySet DEF Init, Cooldowns
<1> QED BY <1>1, <1>2, <1>3 DEF FeedInv

LEMMA CallerTyped ==
  ASSUME FeedInv, NEW c \in Callers, CallerStep(c)
  PROVE  FeedInv'
<1> USE DEF linkVars, feedVars
<1>0. TypeOK /\ ResetKnown /\ Cooldowns /\ Resetting \subseteq Callers
  BY DEF FeedInv, Resetting
<1>n. 0 \in 0..MaxRequests /\ caller[c] \in CallerState
  BY <1>0, FeedAssumption DEF TypeOK
<1>1. CASE StopChannel(c)
  <2>1. caller' \in [Callers -> CallerState] /\ ResetKnown' /\ Resetting' \subseteq Resetting
    BY <1>0, <1>1, Goes DEF StopChannel, CallerPcs
  <2>2. TypeOK'
    BY <1>0, <1>1, <2>1 DEF StopChannel, TypeOK
  <2> QED BY <1>0, <1>1, <2>1, <2>2, NoneAsked DEF StopChannel, FeedInv, Cooldowns, TypeOK
<1>2. CASE StopAbort(c)
  <2>1. caller' \in [Callers -> CallerState] /\ ResetKnown' /\ Resetting' \subseteq Resetting
    <3>1. caller[c].then \in CallerPcs
      BY <1>n DEF CallerState, CallerPcs
    <3> QED BY <1>0, <1>2, <3>1, Goes DEF StopAbort
  <2>2. sup' \in [Feeds -> Sup]
    <3>1. FeedRunning => wsTask \in Feeds
      BY <1>0 DEF FeedRunning, TypeOK
    <3> QED BY <1>0, <1>2, <3>1, SupsTyped DEF StopAbort, TypeOK
  <2>3. TypeOK'
    BY <1>0, <1>2, <2>1, <2>2 DEF StopAbort, TypeOK, Down, Health
  <2> QED BY <1>0, <1>2, <2>1, <2>3, NoneAsked DEF StopAbort, FeedInv, Cooldowns, TypeOK
<1>3. CASE StartFeed(c)
  <2>1. caller' \in [Callers -> CallerState] /\ ResetKnown' /\ Resetting' \subseteq Resetting
    <3>1. CASE ParkActive
      <4>1. [IdleCaller EXCEPT !.pc = "sleep", !.gen = park] \in CallerState
        BY <1>0, FeedAssumption DEF IdleCaller, CallerState, TypeOK
      <4>2. /\ [IdleCaller EXCEPT !.pc = "sleep", !.gen = park].then = "idle"
            /\ [IdleCaller EXCEPT !.pc = "sleep", !.gen = park].pc = "sleep"
        BY DEF IdleCaller
      <4> QED BY <1>0, <1>3, <3>1, <4>1, <4>2, Moves DEF StartFeed
    <3>2. CASE ~ParkActive
      BY <1>0, <1>3, <3>2, Stops DEF StartFeed
    <3> QED BY <3>1, <3>2
  <2>2. TypeOK'
    BY <1>0, <1>3, <2>1 DEF StartFeed, TypeOK
  <2> QED BY <1>0, <1>3, <2>1, <2>2, NoneAsked DEF StartFeed, FeedInv, Cooldowns, TypeOK
<1>4. CASE SpawnTask(c)
  <2>1. PICK f \in Feeds :
          /\ feedTx' = f
          /\ sup' = [sup EXCEPT ![f] = [outer |-> "spawned", inner |-> "connecting", aborted |-> FALSE]]
          /\ caller' = [caller EXCEPT ![c].pc = "handle", ![c].feed = f]
    BY <1>4 DEF SpawnTask
  <2> DEFINE r == [caller[c] EXCEPT !.pc = "handle", !.feed = f]
  <2>2. r \in CallerState /\ r.pc = "handle" /\ r.then = caller[c].then
    BY <1>n DEF CallerState
  <2>3. caller' = [caller EXCEPT ![c] = r]
    BY <2>1
  <2> HIDE DEF r
  <2>4. caller' \in [Callers -> CallerState] /\ ResetKnown' /\ Resetting' \subseteq Resetting
    BY <1>0, <2>2, <2>3, Moves
  <2>5. TypeOK'
    BY <1>0, <1>4, <2>1, <2>4 DEF SpawnTask, TypeOK, Sup, OuterPcs, InnerPcs
  <2> QED BY <1>0, <1>4, <2>4, <2>5, NoneAsked DEF SpawnTask, FeedInv, Cooldowns, TypeOK
<1>5. CASE KeepHandle(c)
  <2>1. caller' \in [Callers -> CallerState] /\ ResetKnown' /\ Resetting' \subseteq Resetting
    BY <1>0, <1>5, Returns DEF KeepHandle
  <2>2. TypeOK'
    BY <1>0, <1>n, <1>5, <2>1 DEF KeepHandle, TypeOK, CallerState
  <2> QED BY <1>0, <1>5, <2>1, <2>2, NoneAsked DEF KeepHandle, FeedInv, Cooldowns, TypeOK
<1>6. CASE Park(c)
  <2>1. caller' \in [Callers -> CallerState] /\ ResetKnown' /\ Resetting' \subseteq Resetting \ {c}
    BY <1>0, <1>6, Returns DEF Park
  <2>2. c \in Resetting
    BY <1>0, <1>6 DEF Park, ResetKnown, Resetting
  <2>3. Cooldowns' /\ resets' \in 0..MaxRequests
    BY <1>0, <1>6, <2>1, <2>2, OneStarts DEF Park
  <2>4. TypeOK'
    BY <1>0, <1>6, <2>1, <2>3 DEF Park, TypeOK, Health
  <2> QED BY <2>1, <2>3, <2>4 DEF FeedInv
<1>7. CASE Retry(c)
  <2>1. caller' \in [Callers -> CallerState] /\ ResetKnown' /\ Resetting' \subseteq Resetting
    BY <1>0, <1>7, Returns, Goes DEF Retry, CallerPcs
  <2>2. TypeOK'
    BY <1>0, <1>7, <2>1 DEF Retry, TypeOK
  <2> QED BY <1>0, <1>7, <2>1, <2>2, NoneAsked DEF Retry, FeedInv, Cooldowns, TypeOK
<1>8. CASE Unpark(c)
  <2>1. caller' \in [Callers -> CallerState] /\ ResetKnown' /\ Resetting' \subseteq Resetting
    BY <1>0, <1>8, Stops DEF Unpark
  <2>2. TypeOK'
    BY <1>0, <1>n, <1>8, <2>1 DEF Unpark, TypeOK
  <2> QED BY <1>0, <1>8, <2>1, <2>2, NoneAsked DEF Unpark, FeedInv, Cooldowns, TypeOK
<1> QED BY <1>1, <1>2, <1>3, <1>4, <1>5, <1>6, <1>7, <1>8 DEF CallerStep

LEMMA RequestTyped ==
  ASSUME FeedInv, NEW c \in Handlers, Request(c)
  PROVE  FeedInv'
<1> USE DEF linkVars, feedVars
<1>0. TypeOK /\ ResetKnown /\ Cooldowns /\ c \in Callers
  BY DEF FeedInv, Callers
<1>n. 0 \in 0..MaxRequests /\ requests' = requests + 1 /\ requests' \in 0..MaxRequests
  BY <1>0, FeedAssumption DEF Request, Connect, FeedReset, FeedRestart, Receive, TypeOK
<1>1. CASE Connect(c)
  <2>1. caller' \in [Callers -> CallerState] /\ ResetKnown' /\ Resetting' \subseteq Resetting
    BY <1>0, <1>1, Stops DEF Connect
  <2>2. TypeOK'
    BY <1>0, <1>n, <1>1, <2>1 DEF Connect, TypeOK
  <2> QED BY <1>0, <1>n, <1>1, <2>1, <2>2, NoneAsked DEF Connect, FeedInv, Cooldowns, TypeOK
<1>2. CASE FeedReset(c)
  <2>1. caller' \in [Callers -> CallerState] /\ ResetKnown' /\ Resetting' \subseteq Resetting \cup {c}
    BY <1>0, <1>2, Stops DEF FeedReset
  <2>2. TypeOK'
    BY <1>0, <1>n, <1>2, <2>1 DEF FeedReset, TypeOK
  <2>3. Cooldowns'
    BY <1>0, <1>n, <1>2, <2>1, OneAsked DEF FeedReset
  <2> QED BY <2>1, <2>2, <2>3 DEF FeedInv
<1>3. CASE FeedRestart(c)
  <2>1. caller' \in [Callers -> CallerState] /\ ResetKnown' /\ Resetting' \subseteq Resetting
    BY <1>0, <1>3, Stops DEF FeedRestart
  <2>2. TypeOK'
    BY <1>0, <1>n, <1>3, <2>1 DEF FeedRestart, TypeOK
  <2> QED BY <1>0, <1>n, <1>3, <2>1, <2>2, NoneAsked DEF FeedRestart, FeedInv, Cooldowns, TypeOK
<1> QED BY <1>1, <1>2, <1>3 DEF Request

LEMMA WatchTyped ==
  ASSUME FeedInv, WatchStep
  PROVE  FeedInv'
<1> USE DEF linkVars, feedVars
<1>0. TypeOK /\ ResetKnown /\ Cooldowns /\ Watchdog \in Callers
  BY DEF FeedInv, Callers
<1>1. UNCHANGED <<linkVars, feedVars>>
  BY DEF WatchStep, WatchPark, WatchAlive, WatchSilent
<1>2. \/ Return(Watchdog)
      \/ \E pc \in {"session", "unpark", "silent"} : Goto(Watchdog, pc)
      \/ Stop(Watchdog, "spawn")
  BY DEF WatchStep, WatchPark, WatchAlive, WatchSilent
<1>3. caller' \in [Callers -> CallerState] /\ ResetKnown' /\ Resetting' \subseteq Resetting
  BY <1>0, <1>2, Returns, Goes, Stops DEF CallerPcs
<1>4. TypeOK'
  BY <1>0, <1>1, <1>3 DEF TypeOK
<1> QED BY <1>0, <1>1, <1>3, <1>4, NoneAsked DEF FeedInv, Cooldowns, TypeOK

\* Supervisors, the broker and time leave tasks, requests and cooldowns alone.
LEMMA OtherTyped ==
  ASSUME FeedInv, UNCHANGED <<connected, park, resets, requests, feedTx, wsTask, caller>>,
         over' \in 0..resets, health' \in Health, sup' \in [Feeds -> Sup]
  PROVE  FeedInv'
<1>0. TypeOK /\ ResetKnown /\ Cooldowns
  BY DEF FeedInv
<1>1. ResetKnown' /\ Resetting' = Resetting
  BY <1>0 DEF ResetKnown, Resetting
<1>2. TypeOK'
  BY <1>0, FeedAssumption DEF TypeOK
<1>3. Cooldowns'
  BY <1>0, <1>1, FeedAssumption DEF Cooldowns, TypeOK
<1> QED BY <1>1, <1>2, <1>3 DEF FeedInv

LEMMA SupTyped ==
  ASSUME FeedInv, NEW f \in Feeds, OuterStep(f) \/ InnerStep(f) \/ Broker(f)
  PROVE  FeedInv'
<1> USE DEF linkVars
<1>0. TypeOK /\ over \in 0..resets
  BY FeedAssumption DEF FeedInv, Cooldowns, TypeOK
<1>h. health \in Health /\ Down \in Health /\ sup \in [Feeds -> Sup]
  BY <1>0 DEF TypeOK, Down, Health
<1>1. UNCHANGED <<connected, park, over, resets, requests, feedTx, wsTask, caller>>
  BY DEF OuterStep, InnerStep, Broker, Prologue, Tail, Dropped, Handshake, InnerStops, Reconnect,
         Packet, DisconnectPacket, ConnectionLost
<1>2. health' \in Health
  BY <1>h DEF OuterStep, InnerStep, Broker, Prologue, Tail, Dropped, Handshake, InnerStops, Reconnect,
         Packet, DisconnectPacket, ConnectionLost, Health
<1>3. \/ UNCHANGED sup
      \/ sup' = [sup EXCEPT ![f] = Ended]
      \/ \E pc \in OuterPcs : sup' = [sup EXCEPT ![f].outer = pc]
      \/ \E pc \in InnerPcs : sup' = [sup EXCEPT ![f].inner = pc]
  <2>1. CASE OuterStep(f)
    BY <2>1 DEF OuterStep, Prologue, Tail, Dropped, Outer, OuterPcs
  <2>2. CASE InnerStep(f)
    BY <2>2 DEF InnerStep, InnerStops, Reconnect, Inner, InnerPcs
  <2>3. CASE Broker(f)
    BY <2>3 DEF Broker, Handshake, Packet, DisconnectPacket, ConnectionLost, Inner,
         InnerPcs
  <2> QED BY <2>1, <2>2, <2>3
<1>4. sup' \in [Feeds -> Sup]
  <2>1. CASE UNCHANGED sup
    BY <1>h, <2>1
  <2>2. CASE sup' = [sup EXCEPT ![f] = Ended]
    BY <1>0, <2>2, SupsTyped
  <2>3. CASE \E pc \in OuterPcs : sup' = [sup EXCEPT ![f].outer = pc]
    <3>1. PICK pc \in OuterPcs : sup' = [sup EXCEPT ![f].outer = pc]
      BY <2>3
    <3>2. [sup EXCEPT ![f].outer = pc] \in [Feeds -> Sup]
      BY <1>0, SupsTyped
    <3> QED BY <3>1, <3>2
  <2>4. CASE \E pc \in InnerPcs : sup' = [sup EXCEPT ![f].inner = pc]
    <3>1. PICK pc \in InnerPcs : sup' = [sup EXCEPT ![f].inner = pc]
      BY <2>4
    <3>2. [sup EXCEPT ![f].inner = pc] \in [Feeds -> Sup]
      BY <1>0, SupsTyped
    <3> QED BY <3>1, <3>2
  <2> QED BY <1>3, <2>1, <2>2, <2>3, <2>4
<1> QED BY <1>0, <1>1, <1>2, <1>4, OtherTyped

LEMMA TimeTyped ==
  ASSUME FeedInv, Time
  PROVE  FeedInv'
<1> USE DEF linkVars, feedVars
<1>0. /\ health \in Health /\ sup \in [Feeds -> Sup]
      /\ over \in 0..resets /\ resets \in Nat
  BY FeedAssumption DEF FeedInv, Cooldowns, TypeOK
<1>1. UNCHANGED <<connected, park, resets, requests, feedTx, wsTask, caller>> /\ sup' = sup
  BY DEF Time, TickAges, StartAges, CooldownEnds
<1>2. health' \in Health /\ over' \in 0..resets
  BY <1>0 DEF Time, TickAges, StartAges, CooldownEnds, Health
<1> QED BY <1>0, <1>1, <1>2, OtherTyped

-----------------------------------------------------------------------------

LEMMA FeedStep == FeedInv /\ [Next]_vars => FeedInv'
<1> SUFFICES ASSUME FeedInv, [Next]_vars PROVE FeedInv'
  OBVIOUS
<1>1. CASE UNCHANGED vars
  BY <1>1 DEF vars, linkVars, feedVars, FeedInv, TypeOK, ResetKnown, Cooldowns, Resetting
<1>2. CASE Next
  BY <1>2, CallerTyped, RequestTyped, WatchTyped, SupTyped, TimeTyped DEF Next
<1> QED BY <1>1, <1>2

\* Requests, timers, the watchdog and the supervisors keep their types and never
\* start more cooldowns than were asked for, in whatever order their critical
\* sections come (connect, feed_reset, feed_restart, spawn_watchdog, run_feed).
THEOREM FeedTypes == Spec => []TypeOK
<1>1. FeedInv => TypeOK
  BY DEF FeedInv
<1> QED BY <1>1, FeedInit, FeedStep, PTL DEF Spec
=============================================================================
