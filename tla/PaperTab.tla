------------------------------ MODULE PaperTab ------------------------------
(***************************************************************************)
(* The paper engine of crates/server/src/realtime.rs as a whole: the loop that *)
(* picks, scans and enters, the tasks that carry out delayed entries and exits, *)
(* the guardian that cuts at a level, and the operator.  The real tab takes the *)
(* same road up to the order, which LiveTrades models.                        *)
(* The loop evaluates one strategy at a time, and between two of its awaits      *)
(* anybody may act.  An entry reads the price and the margin in one step and is *)
(* booked in another; a paper exit is claimed and booked in one, for the claim   *)
(* keeps the others off (LiveTrades).                                        *)
(* Bars, filters' verdicts and refusals are chosen freely.  The instances set no *)
(* trailing stop, which ProtectiveStops is about.                             *)
(***************************************************************************)
EXTENDS TrendPick, EntryLevels

CONSTANTS
  Verdicts,    \* what the filters may say of a chart: functions of a filter's name
  Prices,      \* what a contract may cost
  Opening,     \* what all of them cost at first
  MaxPositions \* no instance opens more positions than this

VARIABLES
  engineOn, armed,
  prices, ticks,       \* the last price of each contract <<stock, side>>
  positions, closed, nextId,
  s0, todo,            \* the settings a scan began with, the strategies it has left
  cur,                 \* the strategy it is at: [strat, s, leg]
  orders,              \* entries on their way: the loop's, delayed ones, the operator's
  exits,               \* paper_exit_pending: delayed exits
  recent, manuals      \* orders of the last second; the operator's entries so far

tasks == <<s0, todo, cur, orders, exits, recent, manuals>>
book  == <<engineOn, armed, prices, ticks, positions, closed, nextId>>
vars  == <<trendVars, book, tasks>>
trendRest == <<settings, toggles, market, trend, bias, cache, picks, rescan, writes, sidesOn>>

\* Bounds: the moves of prices, the positions ever opened, what the operator does
\* to them.
MaxTicks   == settings.bounds.ticks
MaxEntries == settings.bounds.entries
MaxManual  == settings.bounds.manual

Stocks == UNION {{r[i].u : i \in DOMAIN r} : r \in Rankings}
          \cup UNION {s.indices \cup {t.u : t \in s.strategies} : s \in Settings}

Init ==
  /\ TrendInit
  /\ engineOn = TRUE /\ armed = TRUE
  /\ prices = [leg \in Stocks \X Sides |-> Opening]
  /\ ticks = 0 /\ positions = {} /\ closed = {} /\ nextId = 1
  /\ s0 = settings /\ todo = {} /\ cur = None
  /\ orders = {} /\ exits = {} /\ recent = 0 /\ manuals = 0

Price(p) == prices[<<p.u, p.leg>>]
Open(id) == {p \in positions : p.strat = id}
\* trades_done.
Done(id) == Cardinality(Open(id)) + Cardinality({c \in closed : c.strat = id})
Delays(s) == s.entryDelay
Late(id) == {o \in orders : o.from = "late" /\ o.strat.id = id}

\* close_position on the paper tab; a mark of 0 has been replaced before.
Booked(p, reason, mark) ==
  LET exit == PaperFill(mark, FALSE, settings.slip)
  IN [p EXCEPT !.exit = exit, !.mark = mark, !.reason = reason, !.pnl = (exit - p.entry) * p.qty]

-----------------------------------------------------------------------------
(* The loop: the end of the NIFTY scan, the gate of the engine, the scan.       *)

\* A pick that no longer qualifies is dropped, if it was opened under the
\* direction of now.
ScanDrops ==
  /\ at = "drops" /\ at' = "engine"
  /\ LET kept == {k.u : k \in picks}
         dropped == {p \in positions : p.pick /\ p.pickDir = dir /\ p.u \notin kept}
     IN /\ positions' = positions \ dropped
        /\ closed' = closed \cup {Booked(p, "nifty_pick_drop", Price(p)) : p \in dropped}
  /\ UNCHANGED <<trendRest, tasks, engineOn, armed, prices, ticks, nextId>>

\* Strategies that are enabled, ticked or picked run in normal mode, the targets of
\* the scanners in filter mode, each if its research stream allows it.
InRun(s, strat) ==
  /\ strat.synthetic = s.filterMode
  /\ strat.synthetic \/ strat.id \in s.chosen
  /\ StreamAllows(s.filters, strat)

ScanBegin ==
  /\ at = "engine"
  /\ IF engineOn /\ armed /\ StrategyTimeOk(settings, settings.minute)
     THEN /\ at' = "next" /\ s0' = settings
          /\ todo' = {t \in settings.strategies \cup ScannerTargets(settings) : InRun(settings, t)}
     ELSE at' = "movers" /\ UNCHANGED <<s0, todo>>
  /\ UNCHANGED <<trendRest, book, cur, orders, exits, recent, manuals>>

ScanEnd ==
  /\ at = "next" /\ todo = {}
  /\ at' = "movers"
  /\ UNCHANGED <<trendRest, book, tasks>>

\* Classic mode passes over a strategy with a position.  The settings are read
\* anew for each strategy.
Consider(t) ==
  /\ at = "next" /\ t \in todo
  /\ todo' = todo \ {t}
  /\ IF ~settings.hft /\ Open(t.id) # {} THEN at' = "next" /\ UNCHANGED cur
     ELSE at' = "gate" /\ cur' = [strat |-> t, s |-> settings, leg |-> NoSide]
  /\ UNCHANGED <<trendRest, book, s0, orders, exits, recent, manuals>>

GateCharts == {"run", "confirming"}

\* What the rule runs on has to pass, on the bar under way and, with a fresh meet,
\* not already on the one before; the chart of a confirming timeframe too.  met are
\* the charts that are there, meet the conditions of a saved strategy and are not
\* objected to by the direction guard (direction_opposite).
Gated(now, was, higher, met) ==
  LET g == GateSettings(cur.s, cur.strat, bias)
      Pass(v) == FilterGate(g.filters, g, StrategySide(cur.strat), v)
  IN /\ "run" \in met /\ Pass(now)
     /\ ~(g.freshMeet /\ Pass(was))
     /\ (cur.s.mtf /\ MtfPair(cur.s) # None) => "confirming" \in met /\ Pass(higher)

\* The premium chart is that of the contract, which is chosen to look at it.
EvalGate ==
  /\ at = "gate"
  /\ LET side == ActiveSide(cur.s, dir, bias)
         against == cur.s.overallDir /\ side \notin {NoSide, StrategySide(cur.strat)}
     IN \E now, was, higher \in Verdicts, met \in SUBSET GateCharts :
          IF against \/ ~Gated(now, was, higher, met) THEN at' = "next" /\ cur' = None
          ELSE /\ at' = "leg"
               /\ cur' = IF OnPremium(RunModeOf(cur.s, cur.strat))
                         THEN [cur EXCEPT !.leg = OptionSide(cur.s, cur.strat, dir, bias)] ELSE cur
  /\ UNCHANGED <<trendRest, book, s0, todo, orders, exits, recent, manuals>>

\* Without a premium chart the contract is chosen now.  Then the caps.
ResolveLeg ==
  /\ at = "leg"
  /\ LET leg == IF cur.leg # NoSide THEN cur.leg ELSE OptionSide(cur.s, cur.strat, dir, bias)
     IN IF TradeLimitAllows(s0, Done(cur.strat.id)) /\ HftAllow(cur.s, recent)
        THEN at' = "send" /\ cur' = [cur EXCEPT !.leg = leg]
        ELSE at' = "next" /\ cur' = None
  /\ UNCHANGED <<trendRest, book, s0, todo, orders, exits, recent, manuals>>

\* Whether the settings are still those the strategies were built from, and leave
\* the side to the filters.
SideIsFilters == cur.s = s0 /\ ~s0.niftyOn /\ s0.optionSide = NoSide

\* The orders that keep a strategy from queueing another: queue_delayed_entry takes
\* the key out when the entry is over.
\* Mutant: when its time is up.
UnderwayAsleep(id) == {o \in Late(id) : o.step = "asleep"}
Underway(id) == Late(id)

\* queue_delayed_entry keeps one order for a strategy; without a delay the loop
\* itself waits for the entry.
Send ==
  /\ at = "send" /\ cur' = None
  /\ LET order == [from |-> IF Delays(cur.s) THEN "late" ELSE "loop", strat |-> cur.strat,
                   leg |-> cur.leg, hft |-> cur.s.hft, free |-> SideIsFilters,
                   step |-> IF Delays(cur.s) THEN "asleep" ELSE "check", px |-> 0, qty |-> 0]
         room == nextId + Cardinality(orders) <= MaxEntries
         sent == room /\ ~(Delays(cur.s) /\ Underway(cur.strat.id) # {})
     IN /\ at' = IF sent /\ ~Delays(cur.s) THEN "entry" ELSE "next"
        /\ orders' = IF sent THEN orders \cup {order} ELSE orders
  /\ UNCHANGED <<trendRest, book, s0, todo, exits, recent, manuals>>

-----------------------------------------------------------------------------
(* An entry: open_entry.                                                    *)

\* A delayed order looks at the engine when its time is up, and not again.
\* Mutant: it waits for the engine.
WakeReady(o) ==
  /\ o \in orders /\ o.step = "asleep" /\ engineOn /\ armed
  /\ orders' = (orders \ {o}) \cup {[o EXCEPT !.step = "check"]}
  /\ UNCHANGED <<trendVars, book, s0, todo, cur, exits, recent, manuals>>
Wake(o) ==
  /\ o \in orders /\ o.step = "asleep"
  /\ orders' = (orders \ {o}) \cup (IF engineOn /\ armed THEN {[o EXCEPT !.step = "check"]} ELSE {})
  /\ UNCHANGED <<trendVars, book, s0, todo, cur, exits, recent, manuals>>

\* An entry that fails: no price yet, a stale one, a refusal drawn by lot, margin.
Fails(o) ==
  /\ orders' = orders \ {o}
  /\ at' = IF o.from = "loop" THEN "next" ELSE at
  /\ UNCHANGED <<trendRest, book, s0, todo, cur, exits, recent, manuals>>

\* The contract of an index is chosen here; the order of the operator's card says
\* which.
EntryLeg(o) ==
  IF o.leg # NoSide THEN o.leg
  ELSE OptionSide([settings EXCEPT !.optionSide = IF o.strat.order = "SELL" THEN "PE" ELSE "CE"],
                  o.strat, dir, bias)

EntryCheck(o) ==
  /\ o \in orders /\ o.step = "check"
  /\ LET leg == EntryLeg(o)
         px  == prices[<<o.strat.u, leg>>]
         qty == EntryQty(settings, settings.lotSize, px, settings.oi, settings.volume,
                         MarginBudget(settings.marginAmount, settings.marginPct,
                                      PaperAvailable(settings.capital, closed, positions)))
     IN \/ settings.rejects /\ Fails(o)
        \/ ~MarginAllows(settings, closed, positions, qty * px) /\ Fails(o)
        \/ /\ MarginAllows(settings, closed, positions, qty * px)
           /\ orders' = (orders \ {o})
                        \cup {[o EXCEPT !.step = "book", !.leg = leg, !.px = px, !.qty = qty]}
           /\ UNCHANGED <<trendVars, book, s0, todo, cur, exits, recent, manuals>>

\* The pick and the direction written into the position are those of now.  gen_id is
\* a millisecond; nextId takes two positions never to be booked in the same one.
EntryBook(o) ==
  /\ o \in orders /\ o.step = "book"
  /\ LET levels == LevelsFor(settings, settings.cfg, TRUE, o.px, settings.ai)
         picked == o.strat.u \in {k.u : k \in picks}
     IN positions' = positions \cup
          {[id |-> nextId, strat |-> o.strat.id, u |-> o.strat.u, leg |-> o.leg, from |-> o.from,
            gate |-> StrategySide(o.strat), synthetic |-> o.strat.synthetic, free |-> o.free,
            qty |-> o.qty, entry |-> PaperFill(o.px, TRUE, settings.slip),
            sl |-> levels.sl, tp |-> levels.tp, pick |-> picked,
            pickDir |-> IF picked THEN dir ELSE 0, hit |-> None,
            exit |-> 0, mark |-> 0, reason |-> "", pnl |-> 0]}
  /\ nextId' = nextId + 1
  /\ orders' = orders \ {o}
  /\ at' = IF o.from = "loop" THEN "next" ELSE at
  /\ recent' = IF o.hft THEN recent + 1 ELSE recent
  /\ UNCHANGED <<trendRest, engineOn, armed, prices, ticks, closed, s0, todo, cur, exits, manuals>>

\* entry_post.
ManualEntry ==
  /\ armed /\ manuals < MaxManual /\ nextId + Cardinality(orders) <= MaxEntries
  /\ ~\E o \in orders : o.from = "manual"
  /\ manuals' = manuals + 1
  /\ \E t \in settings.strategies :
       orders' = orders \cup {[from |-> "manual", strat |-> t, leg |-> NoSide, hft |-> FALSE,
                               free |-> FALSE, step |-> "check", px |-> 0, qty |-> 0]}
  /\ UNCHANGED <<trendVars, book, s0, todo, cur, exits, recent>>

-----------------------------------------------------------------------------
(* Exits.                                                                  *)

\* manage_positions without trails: the target first, then the stop, which is
\* booked at its level.
Hit(p) ==
  IF p.tp > 0 /\ Price(p) >= p.tp THEN <<"TARGET", Price(p)>>
  ELSE IF p.sl > 0 /\ Price(p) <= p.sl THEN <<"STOP_LOSS", p.sl>> ELSE None

\* queue_delayed_exit keeps the first exit of a position.
\* Mutant: it keeps the last.
QueueExitLast(p, hit) ==
  {e \in exits : e.id # p.id} \cup {[id |-> p.id, reason |-> hit[1], px |-> hit[2]]}
QueueExit(p, hit) ==
  IF \E e \in exits : e.id = p.id THEN exits
  ELSE exits \cup {[id |-> p.id, reason |-> hit[1], px |-> hit[2]]}

\* hit, in the position, only remembers what its exit is to be booked at: a delayed
\* one at the first level it reached, a prompt one at that of now.
Guard(p) ==
  /\ engineOn /\ p \in positions /\ Hit(p) # None
  /\ IF settings.exitDelay
     THEN /\ exits' = QueueExit(p, Hit(p))
          /\ positions' = (positions \ {p})
                          \cup {[p EXCEPT !.hit = IF p.hit = None THEN Hit(p) ELSE p.hit]}
          /\ UNCHANGED closed
     ELSE /\ positions' = positions \ {p}
          /\ closed' = closed \cup {Booked([p EXCEPT !.hit = Hit(p)], Hit(p)[1], Hit(p)[2])}
          /\ UNCHANGED exits
  /\ UNCHANGED <<trendVars, engineOn, armed, prices, ticks, nextId, s0, todo, cur, orders, recent,
                 manuals>>

ExitDue(e) ==
  /\ e \in exits
  /\ LET open == {p \in positions : p.id = e.id} IN
     /\ positions' = positions \ open
     /\ closed' = closed \cup {Booked(p, e.reason, e.px) : p \in open}
  /\ exits' = exits \ {e}
  /\ UNCHANGED <<trendVars, engineOn, armed, prices, ticks, nextId, s0, todo, cur, orders, recent,
                 manuals>>

\* close_post.
ManualClose(p) ==
  /\ p \in positions /\ manuals < MaxManual
  /\ manuals' = manuals + 1
  /\ positions' = positions \ {p}
  /\ closed' = closed \cup {Booked(p, "MANUAL", Price(p))}
  /\ UNCHANGED <<trendVars, engineOn, armed, prices, ticks, nextId, s0, todo, cur, orders, exits,
                 recent>>

-----------------------------------------------------------------------------
(* The operator and the market.                                            *)

\* engine_post and arm_post: arming starts the engine, stopping it disarms.
EngineSwitch ==
  /\ toggles < MaxToggles
  /\ toggles' = toggles + 1
  /\ \/ engineOn' = TRUE /\ UNCHANGED armed
     \/ engineOn' = FALSE /\ armed' = FALSE
     \/ engineOn' = TRUE /\ armed' = TRUE
     \/ armed' = FALSE /\ UNCHANGED engineOn
  /\ UNCHANGED <<settings, market, trend, bias, cache, picks, rescan, at, writes, sidesOn, tasks,
                 prices, ticks, positions, closed, nextId>>

\* A contract nobody holds or orders is not looked at.
Tick ==
  /\ ticks < MaxTicks /\ settings.levels
  /\ ticks' = ticks + 1
  /\ \E leg \in {<<p.u, p.leg>> : p \in positions} \cup {<<o.strat.u, o.leg>> : o \in {x \in orders : x.leg # NoSide}},
        px \in Prices :
       px # prices[leg] /\ prices' = [prices EXCEPT ![leg] = px]
  /\ UNCHANGED <<trendVars, engineOn, armed, positions, closed, nextId, tasks>>

\* The oldest orders leave the second that counts.
SecondPasses ==
  /\ recent > 0
  /\ recent' \in 0 .. recent - 1
  /\ UNCHANGED <<trendVars, book, s0, todo, cur, orders, exits, manuals>>

-----------------------------------------------------------------------------
Scan == ScanDrops \/ ScanBegin \/ ScanEnd \/ EvalGate \/ ResolveLeg \/ Send
        \/ \E t \in todo : Consider(t)
Loop == \/ TrendTask /\ UNCHANGED <<book, tasks>>
        \/ Scan
        \/ \E o \in orders : o.from = "loop" /\ (EntryCheck(o) \/ EntryBook(o))
LateOrder(id) == \E o \in Late(id) : Wake(o) \/ EntryCheck(o) \/ EntryBook(o)
Operator == \/ (ChangeSettings /\ UNCHANGED <<book, tasks>>)
            \/ EngineSwitch \/ ManualEntry
            \/ \E p \in positions : ManualClose(p)
            \/ \E o \in orders : o.from = "manual" /\ (EntryCheck(o) \/ EntryBook(o))

Next == \/ Loop
        \/ WatchTask /\ UNCHANGED <<book, tasks>>
        \/ \E o \in orders : o.from = "late" /\ (Wake(o) \/ EntryCheck(o) \/ EntryBook(o))
        \/ \E p \in positions : Guard(p)
        \/ \E e \in exits : ExitDue(e)
        \/ Operator
        \/ MarketMoves /\ UNCHANGED <<book, tasks>>
        \/ Tick \/ SecondPasses

\* Strategies that may have orders of their own.
Ids == {t.id : t \in UNION {s.strategies : s \in Settings}}

\* The runtime goes on polling its tasks: the loop, the watch, and every delayed
\* order and exit, whose timers end.
Spec == /\ Init /\ [][Next]_vars
        /\ WF_vars(Loop) /\ WF_vars(WatchTask /\ UNCHANGED <<book, tasks>>)
        /\ \A id \in Ids : WF_vars(LateOrder(id))
        /\ \A n \in 1 .. MaxPositions : WF_vars(\E e \in exits : e.id = n /\ ExitDue(e))

-----------------------------------------------------------------------------
(* What the engine promises.                                               *)

\* An entry of a scanner, made while the settings left the side to the filters and
\* did not change under it, buys the option of the side whose filters let it
\* through: between the gate and the order the loop reads the side in force several
\* times (side_allowed, desired_option_side).
LegFollowsFilters ==
  \A p \in positions \cup closed : p.synthetic /\ p.free => p.leg = p.gate

\* However the direction moves and the readers' writes mix, once market and
\* operator rest the published lists and sign are those of one reading, or all
\* clear when the trend is off (apply_nifty_direction, clear_nifty_direction).  Two
\* charts that disagree publish nothing, and leave what there was.
Settled ==
  IF ~settings.niftyOn THEN bull = {} /\ bear = {} /\ dir = 0
  ELSE Resolve # None => /\ bull = Resolve.bull /\ bear = Resolve.bear
                         /\ dir = Sign(Resolve.net)
DirectionSettles == <>[]Settled

\* Without a delay the loop holds one position per strategy in classic mode and keeps
\* the trade limit.  A delayed entry is seen by neither check, and may be one more
\* than both allow (ClassicHoldsOne); it is never two more, whatever is in flight,
\* for the order under way keeps another off (queue_delayed_entry).
Own(book0, id) == {p \in book0 : p.strat = id /\ p.from # "manual"}
Limited(s) == s.tradeLimit /\ ~s.aiTrades /\ s.tradeCount > 0
EntriesBounded ==
  LET slack == IF settings.entryDelay THEN 1 ELSE 0
  IN \A id \in {p.strat : p \in positions} :
       /\ ~settings.hft => Cardinality(Own(positions, id)) <= 1 + slack
       /\ Limited(settings)
            => Cardinality(Own(positions \cup closed, id)) <= settings.tradeCount + slack

\* A delayed exit books the level that was reached first, at the price of then,
\* wherever the market has gone since (queue_delayed_exit).
BookedAtTrigger ==
  \A c \in closed : c.reason \in {"TARGET", "STOP_LOSS"} => <<c.reason, c.mark>> = c.hit

\* A delayed order is carried out or given up, so that its strategy may send
\* another, and a delayed exit leaves the position closed: neither pending set
\* keeps a key for ever (queue_delayed_entry, queue_delayed_exit).
OrdersResolve ==
  /\ \A id \in Ids : Late(id) # {} ~> Late(id) = {}
  /\ \A n \in 1 .. MaxPositions :
       (\E e \in exits : e.id = n) ~> ~\E p \in positions : p.id = n

\* realtime.rs:2917-2918, "Classic mode never opens a second position for the same
\* strategy", whether its entries are delayed or not.
ClassicHoldsOne ==
  \A id \in {p.strat : p \in positions} :
    ~settings.hft => Cardinality(Own(positions, id)) <= 1

\* realtime.rs:6482-6484, "this keeps the side the filters gate identical to the side
\* the option leg executes" (side_allowed): every entry of a scanner, whatever the
\* settings, buys the side that was gated.
ScannersBuyTheirSide == \A p \in positions : p.synthetic => p.leg = p.gate

\* realtime.rs:4393-4395, the next trade "is blocked" when its margin "exceeds the
\* budget still available after the running trades": what the engine holds never
\* costs more than the wallet.
WalletCovers == LockedMargin(positions) <= settings.capital + RealizedPnl(closed)
=============================================================================
