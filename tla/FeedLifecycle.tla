--------------------------- MODULE FeedLifecycle ---------------------------
(***************************************************************************)
(* Who starts, stops and restarts the broker's market feed                 *)
(* (crates/server/src/broker.rs) and the websocket supervisor they start   *)
(* (run_feed and crates/dhan/src/feed.rs).                                 *)
(*                                                                         *)
(* The request handlers, the retry timers of a parked feed and the         *)
(* watchdog are tasks; between two steps of one of them, each of which     *)
(* takes one lock, any other runs.  A supervisor is the task run_feed,     *)
(* which owns the task MarketFeed::run that holds the connection.          *)
(***************************************************************************)
EXTENDS Naturals, FiniteSets

CONSTANTS
    Handlers,    \* requests and retry timers in progress
    Watchdog,
    Feeds,       \* supervisors: one that ended and is forgotten is used again
    None,
    MaxRequests, \* bound: requests of the operator
    MarketOpen   \* the exchange is in session

ASSUME FeedAssumption ==
    /\ Watchdog \notin Handlers
    /\ None \notin Feeds
    /\ MaxRequests \in Nat
    /\ MarketOpen \in BOOLEAN

Callers == Handlers \cup {Watchdog}

VARIABLES
    connected,  \* a Dhan session exists
    park,       \* parked_until: 0 for None, or the cooldown it is the end of
    over,       \* cooldowns 1..over have run out
    resets,     \* cooldowns started so far
    requests,   \* requests so far
    feedTx,     \* the supervisor whose command channel feed_tx holds
    wsTask,     \* the supervisor whose handle FeedHealth.ws_task holds
    health,     \* what the watchdog reads of FeedHealth
    sup,        \* the supervisors
    caller      \* where each task is

linkVars == <<connected, park, over, resets, requests>>
feedVars == <<feedTx, wsTask, health, sup>>
vars == <<linkVars, feedVars, caller>>

-----------------------------------------------------------------------------
(* Types *)

\* feed_up, with the age of last_tick while it is set, and the age of
\* feed_started, both against the limits of the watchdog.  Whoever sets feed_up
\* sets last_tick, and only a reset clears it.
Health == [up: {"no", "fresh", "old", "untimed"}, started: {"none", "fresh", "old"}]

Down == [up |-> "no", started |-> "none"]

\* run_feed: before its prologue; in its loop; finished or dropped.
OuterPcs == {"spawned", "loop", "done"}

\* MarketFeed::run: in the handshake; streaming; between two attempts; returned.
InnerPcs == {"connecting", "open", "backoff", "gone"}

Sup == [outer: OuterPcs, inner: InnerPcs, aborted: BOOLEAN]

CallerState == [pc: {"idle", "stop", "abort", "park", "unpark", "reset", "spawn",
                     "handle", "sleep", "session", "alive", "silent"},
                then: {"idle", "park", "spawn", "reset"},
                feed: Feeds \cup {None}, gen: 0..MaxRequests]

TypeOK ==
    /\ connected \in BOOLEAN
    /\ {park, over, resets, requests} \subseteq 0..MaxRequests
    /\ {feedTx, wsTask} \subseteq Feeds \cup {None}
    /\ health \in Health
    /\ sup \in [Feeds -> Sup]
    /\ caller \in [Callers -> CallerState]

-----------------------------------------------------------------------------
(* Helpers *)

Alive(f) == sup[f].outer # "done"
FeedRunning == wsTask # None /\ Alive(wsTask)
ParkActive == park > over

\* The owner of f's command channel dropped it.
Closed(f) == feedTx # f

IdleCaller == [pc |-> "idle", then |-> "idle", feed |-> None, gen |-> 0]
Ended == [outer |-> "done", inner |-> "gone", aborted |-> FALSE]

Goto(c, pc) == caller' = [caller EXCEPT ![c].pc = pc]
Return(c) == caller' = [caller EXCEPT ![c] = IdleCaller]

\* stop_feed is called and c carries on at then.
Stop(c, then) == caller' = [caller EXCEPT ![c].pc = "stop", ![c].then = then]

Outer(f, pc) == sup' = [sup EXCEPT ![f].outer = pc]
Inner(f, pc) == sup' = [sup EXCEPT ![f].inner = pc]

\* A supervisor nobody refers to any more.
Reusable(f) == ~Alive(f) /\ wsTask # f /\ feedTx # f /\ \A c \in Callers : caller[c].feed # f

Init ==
    /\ connected = FALSE /\ park = 0 /\ over = 0 /\ resets = 0 /\ requests = 0
    /\ feedTx = None /\ wsTask = None
    /\ health = Down
    /\ sup = [f \in Feeds |-> Ended]
    /\ caller = [c \in Callers |-> IdleCaller]

-----------------------------------------------------------------------------
(* stop_feed, start_feed and spawn_feed_task.                              *)

StopChannel(c) ==
    /\ caller[c].pc = "stop"
    /\ feedTx' = None
    /\ Goto(c, "abort")
    /\ UNCHANGED <<linkVars, wsTask, health, sup>>

StopAbort(c) ==
    /\ caller[c].pc = "abort"
    /\ sup' = IF FeedRunning THEN [sup EXCEPT ![wsTask].aborted = TRUE] ELSE sup
    /\ wsTask' = None
    /\ health' = Down
    /\ Goto(c, caller[c].then)
    /\ UNCHANGED <<linkVars, feedTx>>

\* start_feed after its stop_feed: while parked it leaves a timer behind, which
\* retries when the cooldown ends, else it calls spawn_feed_task.
StartFeed(c) ==
    /\ caller[c].pc = "park"
    /\ IF ParkActive
       THEN caller' = [caller EXCEPT ![c] = [IdleCaller EXCEPT !.pc = "sleep", !.gen = park]]
       ELSE Stop(c, "spawn")
    /\ UNCHANGED <<linkVars, feedVars>>

SpawnTask(c) ==
    /\ caller[c].pc = "spawn"
    /\ \E f \in Feeds :
        /\ Reusable(f)
        /\ feedTx' = f
        /\ sup' = [sup EXCEPT ![f] = [outer |-> "spawned", inner |-> "connecting", aborted |-> FALSE]]
        /\ caller' = [caller EXCEPT ![c].pc = "handle", ![c].feed = f]
    /\ UNCHANGED <<linkVars, wsTask, health>>

\* The handle replaces whatever ws_task held, which is dropped, not aborted.
KeepHandle(c) ==
    /\ caller[c].pc = "handle"
    /\ wsTask' = caller[c].feed
    /\ Return(c)
    /\ UNCHANGED <<linkVars, feedTx, health, sup>>

-----------------------------------------------------------------------------
(* Requests.                                                               *)

Receive(c) ==
    /\ caller[c].pc = "idle"
    /\ requests < MaxRequests /\ requests' = requests + 1

\* The profile call accepted the credentials.
Connect(c) ==
    /\ Receive(c)
    /\ connected' = TRUE
    /\ Stop(c, "park")
    /\ UNCHANGED <<park, over, resets, feedVars>>

FeedReset(c) ==
    /\ Receive(c)
    /\ Stop(c, "reset")
    /\ UNCHANGED <<connected, park, over, resets, feedVars>>

Park(c) ==
    /\ caller[c].pc = "reset"
    /\ health' = IF health.up = "no" THEN health ELSE [health EXCEPT !.up = "untimed"]
    /\ resets' = resets + 1 /\ park' = resets'
    /\ Return(c)
    /\ UNCHANGED <<connected, over, requests, feedTx, wsTask, sup>>

FeedRestart(c) ==
    /\ Receive(c) /\ connected
    /\ park' = 0
    /\ Stop(c, "park")
    /\ UNCHANGED <<connected, over, resets, feedVars>>

\* The timer of a parked start_feed wakes up.
Retry(c) ==
    /\ caller[c].pc = "sleep" /\ caller[c].gen <= over
    /\ IF FeedRunning \/ ~connected THEN Return(c) ELSE Goto(c, "unpark")
    /\ UNCHANGED <<linkVars, feedVars>>

\* The watchdog or a timer clears parked_until and calls spawn_feed_task.
Unpark(c) ==
    /\ caller[c].pc = "unpark"
    /\ park' = 0
    /\ Stop(c, "spawn")
    /\ UNCHANGED <<connected, over, resets, requests, feedVars>>

-----------------------------------------------------------------------------
(* spawn_watchdog: one tick.                                               *)

WatchPark ==
    /\ caller[Watchdog].pc = "idle" /\ ~ParkActive
    /\ Goto(Watchdog, "session")
    /\ UNCHANGED <<linkVars, feedVars>>

WatchAlive ==
    /\ caller[Watchdog].pc = "session"
    /\ \/ ~connected /\ Return(Watchdog)
       \/ connected /\ ~FeedRunning /\ Goto(Watchdog, "unpark")
       \/ connected /\ FeedRunning /\ Goto(Watchdog, "silent")
    /\ UNCHANGED <<linkVars, feedVars>>

\* Mutant: a feed that never had a tick is not taken for silent.
SilentOnTicks == health.up = "old"

\* Streaming and 25 s without a tick, or 30 s up without the first one.
Silent == health.up = "old" \/ (health.up = "no" /\ health.started = "old")

WatchSilent ==
    /\ caller[Watchdog].pc = "silent"
    /\ IF MarketOpen /\ Silent THEN Stop(Watchdog, "spawn") ELSE Return(Watchdog)
    /\ UNCHANGED <<linkVars, feedVars>>

-----------------------------------------------------------------------------
(* A supervisor.  An abort takes effect the next time the task would be    *)
(* polled: what it is in the middle of still happens.                      *)

Prologue(f) ==
    /\ sup[f].outer = "spawned"
    /\ health' = [up |-> "no", started |-> "fresh"]
    /\ Outer(f, "loop")
    /\ UNCHANGED <<linkVars, feedTx, wsTask, caller>>

\* A packet from the open connection.
Packet(f) ==
    /\ sup[f].outer = "loop" /\ sup[f].inner = "open"
    /\ health' = [health EXCEPT !.up = "fresh"]
    /\ UNCHANGED <<linkVars, feedTx, wsTask, sup, caller>>

\* A disconnect packet ends the connection, not the supervisor.
DisconnectPacket(f) ==
    /\ sup[f].outer = "loop" /\ sup[f].inner = "open"
    /\ health' = [health EXCEPT !.up = "no"]
    /\ Inner(f, "backoff")
    /\ UNCHANGED <<linkVars, feedTx, wsTask, caller>>

\* Mutant: the start time is marked as ended, a value nobody reads.
TailMarks(f) ==
    /\ sup[f].outer = "loop" /\ sup[f].inner = "gone"
    /\ health' = [up |-> "no", started |-> "ended"]
    /\ sup' = [sup EXCEPT ![f] = Ended]
    /\ UNCHANGED <<linkVars, feedTx, wsTask, caller>>

\* The inner task returned and closed the packet channel: run_feed ends.
Tail(f) ==
    /\ sup[f].outer = "loop" /\ sup[f].inner = "gone"
    /\ health' = Down
    /\ sup' = [sup EXCEPT ![f] = Ended]
    /\ UNCHANGED <<linkVars, feedTx, wsTask, caller>>

\* The aborted task is dropped, and its inner task with it (AbortOnDrop).
Dropped(f) ==
    /\ sup[f].aborted /\ Alive(f)
    /\ sup' = [sup EXCEPT ![f] = Ended]
    /\ UNCHANGED <<linkVars, feedTx, wsTask, health, caller>>

\* The handshake succeeds or fails; Dhan answers 400 when its slots are taken.  It
\* has no timeout and does not look at the channel: it may also never end.
Handshake(f) ==
    /\ sup[f].outer = "loop" /\ sup[f].inner = "connecting"
    /\ \E pc \in {"open", "backoff"} : Inner(f, pc)
    /\ UNCHANGED <<linkVars, feedTx, wsTask, health, caller>>

\* The connection ends: an error, a close frame, a rejecting text frame.
ConnectionLost(f) ==
    /\ Alive(f) /\ sup[f].inner = "open"
    /\ Inner(f, "backoff")
    /\ UNCHANGED <<linkVars, feedTx, wsTask, health, caller>>

\* Mutant: a feed between two attempts does not look at its channel.
InnerStopsStreaming(f) ==
    /\ Alive(f) /\ sup[f].inner = "open" /\ Closed(f)
    /\ Inner(f, "gone")
    /\ UNCHANGED <<linkVars, feedTx, wsTask, health, caller>>

\* The closed command channel is noticed while streaming and between attempts.
InnerStops(f) ==
    /\ Alive(f) /\ sup[f].inner \in {"open", "backoff"} /\ Closed(f)
    /\ Inner(f, "gone")
    /\ UNCHANGED <<linkVars, feedTx, wsTask, health, caller>>

Reconnect(f) ==
    /\ Alive(f) /\ sup[f].inner = "backoff" /\ ~Closed(f)
    /\ Inner(f, "connecting")
    /\ UNCHANGED <<linkVars, feedTx, wsTask, health, caller>>

-----------------------------------------------------------------------------
(* Time.                                                                   *)

TickAges ==
    /\ health.up = "fresh" /\ health' = [health EXCEPT !.up = "old"]
    /\ UNCHANGED <<linkVars, feedTx, wsTask, sup, caller>>

StartAges ==
    /\ health.started = "fresh" /\ health' = [health EXCEPT !.started = "old"]
    /\ UNCHANGED <<linkVars, feedTx, wsTask, sup, caller>>

CooldownEnds ==
    /\ over < resets /\ over' = over + 1
    /\ UNCHANGED <<connected, park, resets, requests, feedVars, caller>>

-----------------------------------------------------------------------------

CallerStep(c) ==
    \/ StopChannel(c) \/ StopAbort(c) \/ StartFeed(c) \/ SpawnTask(c) \/ KeepHandle(c)
    \/ Park(c) \/ Retry(c) \/ Unpark(c)

WatchStep == WatchPark \/ WatchAlive \/ WatchSilent

Request(c) == Connect(c) \/ FeedReset(c) \/ FeedRestart(c)

\* What a supervisor does whatever the broker sends it.
OuterStep(f) ==
    Prologue(f) \/ Tail(f) \/ Dropped(f)

InnerStep(f) == InnerStops(f) \/ Reconnect(f)

Broker(f) == Handshake(f) \/ Packet(f) \/ DisconnectPacket(f) \/ ConnectionLost(f)

Time == TickAges \/ StartAges \/ CooldownEnds

Next ==
    \/ \E c \in Callers : CallerStep(c)
    \/ \E c \in Handlers : Request(c)
    \/ WatchStep
    \/ \E f \in Feeds : OuterStep(f) \/ InnerStep(f) \/ Broker(f)
    \/ Time

Spec == Init /\ [][Next]_vars

\* Every task is scheduled, the watchdog's interval ticks and time passes.  The
\* broker owes nobody a packet, nor an answer to a handshake.
FairSpec ==
    /\ Spec
    /\ \A c \in Handlers : WF_vars(CallerStep(c))
    /\ WF_vars(CallerStep(Watchdog) \/ WatchStep)
    /\ \A f \in Feeds : WF_vars(OuterStep(f)) /\ WF_vars(InnerStep(f))
    /\ WF_vars(TickAges) /\ WF_vars(StartAges) /\ WF_vars(CooldownEnds)

-----------------------------------------------------------------------------
(* What must hold.                                                         *)

\* A supervisor in a handshake, which nothing but the broker ends.
Hanging(f) == sup[f].outer = "loop" /\ sup[f].inner = "connecting"

\* If the broker answers every handshake in the end, no supervisor runs for ever
\* beside the one ws_task knows: one whose handle was dropped ends by itself, since
\* nobody holds its command channel or the next restart drops it.
LeaksEnd ==
    (\A f \in Feeds : []<>~Hanging(f)) =>
        \A f \in Feeds : (Alive(f) /\ wsTask # f) ~> (~Alive(f) \/ wsTask = f)

\* The broker answers, in the end, the handshake of a supervisor nobody knows.
LeaksAnswered == \A f \in Feeds : []<>~(Hanging(f) /\ wsTask # f)

\* The supervisor in charge hangs in a handshake.
FeedHangs == wsTask # None /\ Hanging(wsTask)

\* What the watchdog cannot take for a silent feed: a reset marked it up without the
\* time of a tick, or the tail of an older supervisor cleared its start time.
Unwatched == health.up = "untimed" \/ health = Down

\* The app comes back by itself: with a session and no cooldown, a supervisor is
\* running again, whatever ended the last one and whoever raced to replace it.  In
\* session hours the one in charge does not hang in a handshake for ever either, but
\* for ticks of another or a state the watchdog cannot read.
FeedComesBack ==
    LeaksAnswered =>
        /\ (connected /\ ~ParkActive) ~> (FeedRunning \/ ParkActive)
        /\ (MarketOpen /\ connected /\ FeedHangs)
              ~> (~FeedHangs \/ Unwatched \/ health.up = "fresh")
=============================================================================
