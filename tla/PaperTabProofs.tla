--------------------------- MODULE PaperTabProofs ---------------------------
(***************************************************************************)
(* That a scanner's entry buys the side its filters let through, and that the *)
(* paper loop keeps its limits on positions and trades although an entry is    *)
(* counted long before it is booked, for any settings, charts, strategies,     *)
(* stocks, prices and orders.                                                *)
(* The loop reads the side in force when it builds the targets and again when it *)
(* chooses the contract.  The argument is that nothing it depends on changes in  *)
(* between: the bias is written at the head of the loop only, and the direction, *)
(* which the watch may write at any time, is not asked while the NIFTY trend is  *)
(* off.                                                                    *)
(* The loop counts what is booked and passes over what is on its way; what it   *)
(* has chosen and not sent is counted by nobody.  The argument is that the three *)
(* together keep one bound, and that a strategy has one order on its way at most. *)
(***************************************************************************)
EXTENDS PaperTab, FiniteSetTheorems, TLAPS

InScan == at \in {"next", "gate", "leg", "send", "entry"}

\* The side in force leaves a target's own side alone.
Heard(t) == ~s0.niftyOn /\ t.synthetic => ActiveSide(s0, dir, bias) \in {NoSide, StrategySide(t)}

TodoInv == InScan => \A t \in todo : Heard(t)

CurInv ==
  at \in {"gate", "leg", "send"} =>
    /\ cur = [strat |-> cur.strat, s |-> cur.s, leg |-> cur.leg]
    /\ Heard(cur.strat)
    /\ SideIsFilters /\ cur.strat.synthetic
         => /\ cur.leg \in {NoSide, StrategySide(cur.strat)}
            /\ at = "send" => cur.leg # NoSide

OrderOk(o) ==
  /\ {"from", "strat", "leg", "free"} \subseteq DOMAIN o
  /\ o.strat.synthetic /\ o.free => o.leg = StrategySide(o.strat)
OrdersInv == \A o \in orders : OrderOk(o)

\* The loop waits for the one entry it is making.
LoopWaits ==
  \A o \in orders : o.from = "loop" => at = "entry" /\ \A o2 \in orders : o2.from = "loop" => o2 = o

RowOk(p) ==
  /\ {"synthetic", "free", "leg", "gate"} \subseteq DOMAIN p
  /\ p.synthetic /\ p.free => p.leg = p.gate
BookInv == \A p \in positions \cup closed : RowOk(p)

\* The inductive invariant.
LegInv == settings \in Settings /\ TodoInv /\ CurInv /\ OrdersInv /\ LoopWaits /\ BookInv

-----------------------------------------------------------------------------
(* The side in force.                                                      *)

LEMMA SideOfStrategy == \A t : StrategySide(t) \in Sides
  BY DEF StrategySide, Sides

LEMMA DirectionUnheard ==
  \A s, d1, d2, b : ~s.niftyOn => ActiveSide(s, d1, b) = ActiveSide(s, d2, b)
  BY DEF ActiveSide, EffectiveRunInSide, AutoOptionSide

LEMMA LegOfAllowed ==
  \A s, t, d, b : /\ ~s.niftyOn /\ s.optionSide = NoSide
                  /\ ActiveSide(s, d, b) \in {NoSide, StrategySide(t)}
                  => OptionSide(s, t, d, b) = StrategySide(t)
  BY SideOfStrategy DEF ActiveSide, OptionSide, FirstOf, Sides, NoSide

\* While the trend is off every target is of a side in force.
LEMMA TargetsHeard ==
  \A s : ~s.niftyOn => \A t \in ScannerTargets(s) :
           ActiveSide(s, dir, bias) \in {NoSide, StrategySide(t)}
<1> SUFFICES ASSUME NEW s, ~s.niftyOn, NEW t \in ScannerTargets(s)
             PROVE  ActiveSide(s, dir, bias) \in {NoSide, StrategySide(t)}
  OBVIOUS
<1>1. PICK u, side : /\ side \in SideAllowed(s.filters, ActiveSide(s, dir, bias))
                     /\ side \in Sides /\ t = Target(u, side)
  <2> DEFINE allowed == SideAllowed(s.filters, ActiveSide(s, dir, bias))
             Named(list) == {list[i].u : i \in DOMAIN list}
             movers == {<<x, "CE">> : x \in Named(cache.gainers)}
                       \cup {<<x, "PE">> : x \in Named(cache.losers)} \cup (s.indices \X Sides)
  <2>1. PICK m \in movers : m[2] \in allowed /\ t = Target(m[1], m[2])
    BY DEF ScannerTargets
  <2>2. m[2] \in Sides
    BY DEF Sides
  <2> QED BY <2>1, <2>2
<1>2. StrategySide(t) = side
  BY <1>1 DEF Target, StrategySide, Sides
<1> QED BY <1>1, <1>2 DEF SideAllowed

-----------------------------------------------------------------------------
(* The steps.                                                              *)

LEMMA BookedOk ==
  ASSUME NEW p, NEW reason, NEW mark, RowOk(p)
  PROVE  RowOk(Booked(p, reason, mark))
  BY DEF RowOk, Booked

\* A step that leaves the loop's place and what the invariant is about alone may
\* change the direction.
LEMMA Quiet ==
  ASSUME LegInv, settings' \in Settings,
         UNCHANGED <<at, bias, s0, todo, cur, orders, positions, closed>>
  PROVE  LegInv'
<1>1. \A t : Heard(t) => Heard(t)'
  BY DirectionUnheard DEF Heard
<1>2. SideIsFilters' = SideIsFilters
  BY DEF SideIsFilters
<1> QED BY <1>1, <1>2 DEF LegInv, TodoInv, CurInv, InScan, OrdersInv, OrderOk, LoopWaits, BookInv, RowOk

\* Outside the scan nobody but the book and the orders matter.
LEMMA Outside ==
  ASSUME LegInv, UNCHANGED <<settings, orders, positions, closed>>, ~InScan, ~InScan'
  PROVE  LegInv'
BY DEF LegInv, TodoInv, CurInv, InScan, OrdersInv, OrderOk, LoopWaits, BookInv, RowOk

\* The bias is written outside the scan, so no target is heard anew.
LEMMA TrendTaskOk ==
  ASSUME LegInv, TrendTask, UNCHANGED <<book, tasks>>
  PROVE  LegInv'
<1>1. CASE Write("loop")
  BY <1>1, Quiet DEF LegInv, Write, book, tasks
<1>2. CASE RefreshMovers \/ LoopReads \/ ScanStart \/ ScanPublish
  BY <1>2, Outside DEF RefreshMovers, LoopReads, ScanStart, ScanPublish, book, tasks, InScan
<1> QED BY <1>1, <1>2 DEF TrendTask

LEMMA ScanDropsOk ==
  ASSUME LegInv, ScanDrops
  PROVE  LegInv'
<1> DEFINE kept == {k.u : k \in picks}
           dropped == {p \in positions : p.pick /\ p.pickDir = dir /\ p.u \notin kept}
<1>1. /\ positions' = positions \ dropped
      /\ closed' = closed \cup {Booked(p, "nifty_pick_drop", Price(p)) : p \in dropped}
      /\ UNCHANGED <<settings, orders>> /\ at = "drops" /\ at' = "engine"
  BY DEF ScanDrops, trendRest, tasks
<1>2. BookInv'
  <2> SUFFICES ASSUME NEW p \in positions' \cup closed' PROVE RowOk(p)
    BY DEF BookInv, RowOk
  <2>1. CASE p \in positions \cup closed
    BY <2>1 DEF LegInv, BookInv
  <2>2. CASE p \notin positions \cup closed
    <3> PICK q \in dropped : p = Booked(q, "nifty_pick_drop", Price(q))
      BY <1>1, <2>2
    <3> QED BY BookedOk DEF LegInv, BookInv
  <2> QED BY <2>1, <2>2
<1> QED BY <1>1, <1>2 DEF LegInv, TodoInv, CurInv, InScan, OrdersInv, OrderOk, LoopWaits

LEMMA ScanBeginOk ==
  ASSUME LegInv, ScanBegin
  PROVE  LegInv'
<1>1. UNCHANGED <<settings, dir, bias, cache, picks, bull, bear, orders, positions, closed>> /\ at = "engine"
  BY DEF ScanBegin, trendRest, trend, book
<1>2. CASE at' = "movers"
  BY <1>1, <1>2, Outside DEF InScan
<1>3. CASE at' # "movers"
  <2>1. /\ at' = "next" /\ s0' = settings
        /\ \A t \in todo' : t \in settings.strategies \cup ScannerTargets(settings)
    BY <1>3 DEF ScanBegin
  <2>2. \A t \in todo' : Heard(t)'
    BY <1>1, <2>1, TargetsHeard, SavedStrategies DEF LegInv, Heard
  <2> QED BY <1>1, <2>1, <2>2 DEF LegInv, TodoInv, CurInv, OrdersInv, OrderOk, LoopWaits, BookInv, RowOk
<1> QED BY <1>2, <1>3

LEMMA ConsiderOk ==
  ASSUME LegInv, NEW t \in todo, Consider(t)
  PROVE  LegInv'
<1>1. /\ at = "next" /\ todo' \subseteq todo
      /\ UNCHANGED <<settings, dir, bias, s0, orders, positions, closed>>
  BY DEF Consider, trendRest, trend, book
<1>2. \A x : Heard(x)' = Heard(x)
  BY <1>1 DEF Heard
<1>3. TodoInv'
  BY <1>1, <1>2 DEF LegInv, TodoInv, InScan
<1>4. CurInv'
  <2>1. CASE at' = "next"
    BY <2>1 DEF CurInv
  <2>2. CASE at' # "next"
    <3>1. at' = "gate" /\ cur' = [strat |-> t, s |-> settings, leg |-> NoSide]
      BY <2>2 DEF Consider
    <3>2. Heard(t)
      BY <1>1 DEF LegInv, TodoInv, InScan
    <3> QED BY <3>1, <3>2, <1>2 DEF CurInv
  <2> QED BY <2>1, <2>2
<1> QED BY <1>1, <1>3, <1>4 DEF LegInv, OrdersInv, OrderOk, LoopWaits, BookInv, RowOk

\* A step of the scan at one strategy that keeps its settings.
LEMMA EvalGateOk ==
  ASSUME LegInv, EvalGate
  PROVE  LegInv'
<1>1. /\ at = "gate" /\ at' \in {"next", "leg"}
      /\ UNCHANGED <<settings, dir, bias, s0, todo, orders, positions, closed>>
  BY DEF EvalGate, trendRest, trend, book
<1>2. \A x : Heard(x)' = Heard(x)
  BY <1>1 DEF Heard
<1>3. CurInv'
  <2>1. CASE at' = "next"
    BY <2>1 DEF CurInv
  <2>2. CASE at' # "next"
    <3> DEFINE leg == OptionSide(cur.s, cur.strat, dir, bias)
    <3>1. at' = "leg" /\ (cur' = cur \/ cur' = [cur EXCEPT !.leg = leg])
      BY <2>2 DEF EvalGate
    <3>2. /\ cur = [strat |-> cur.strat, s |-> cur.s, leg |-> cur.leg] /\ Heard(cur.strat)
          /\ SideIsFilters /\ cur.strat.synthetic => cur.leg \in {NoSide, StrategySide(cur.strat)}
      BY <1>1 DEF LegInv, CurInv
    <3>3. SideIsFilters /\ cur.strat.synthetic => leg = StrategySide(cur.strat)
      BY <3>2, LegOfAllowed DEF SideIsFilters, Heard
    <3>4. cur'.strat = cur.strat /\ cur'.s = cur.s /\ cur'.leg \in {cur.leg, leg}
          /\ cur' = [strat |-> cur'.strat, s |-> cur'.s, leg |-> cur'.leg]
      BY <3>1, <3>2
    <3>5. SideIsFilters' = SideIsFilters
      BY <1>1, <3>4 DEF SideIsFilters
    <3> QED BY <1>1, <1>2, <3>1, <3>2, <3>3, <3>4, <3>5 DEF CurInv
  <2> QED BY <2>1, <2>2
<1> QED BY <1>1, <1>2, <1>3 DEF LegInv, TodoInv, InScan, OrdersInv, OrderOk, LoopWaits, BookInv, RowOk

LEMMA ResolveLegOk ==
  ASSUME LegInv, ResolveLeg
  PROVE  LegInv'
<1>1. /\ at = "leg" /\ at' \in {"next", "send"}
      /\ UNCHANGED <<settings, dir, bias, s0, todo, orders, positions, closed>>
  BY DEF ResolveLeg, trendRest, trend, book
<1>2. \A x : Heard(x)' = Heard(x)
  BY <1>1 DEF Heard
<1>3. CurInv'
  <2>1. CASE at' = "next"
    BY <2>1 DEF CurInv
  <2>2. CASE at' # "next"
    <3> DEFINE leg == IF cur.leg # NoSide THEN cur.leg ELSE OptionSide(cur.s, cur.strat, dir, bias)
    <3>1. at' = "send" /\ cur' = [cur EXCEPT !.leg = leg]
      BY <2>2, <1>1 DEF ResolveLeg
    <3>2. /\ cur = [strat |-> cur.strat, s |-> cur.s, leg |-> cur.leg] /\ Heard(cur.strat)
          /\ SideIsFilters /\ cur.strat.synthetic => cur.leg \in {NoSide, StrategySide(cur.strat)}
      BY <1>1 DEF LegInv, CurInv
    <3>3. SideIsFilters /\ cur.strat.synthetic => leg = StrategySide(cur.strat)
      BY <3>2, LegOfAllowed DEF SideIsFilters, Heard
    <3>4. cur'.strat = cur.strat /\ cur'.s = cur.s /\ cur'.leg = leg
          /\ cur' = [strat |-> cur'.strat, s |-> cur'.s, leg |-> cur'.leg]
      BY <3>1, <3>2
    <3>5. SideIsFilters' = SideIsFilters
      BY <1>1, <3>4 DEF SideIsFilters
    <3>6. StrategySide(cur.strat) # NoSide
      BY SideOfStrategy DEF Sides, NoSide
    <3> QED BY <1>1, <1>2, <3>1, <3>2, <3>3, <3>4, <3>5, <3>6 DEF CurInv
  <2> QED BY <2>1, <2>2
<1> QED BY <1>1, <1>2, <1>3 DEF LegInv, TodoInv, InScan, OrdersInv, OrderOk, LoopWaits, BookInv, RowOk

LEMMA SendOk ==
  ASSUME LegInv, Send
  PROVE  LegInv'
<1>1. /\ at = "send" /\ at' \in {"entry", "next"}
      /\ UNCHANGED <<settings, dir, bias, s0, todo, positions, closed>>
  BY DEF Send, trendRest, trend, book
<1>2. \A x : Heard(x)' = Heard(x)
  BY <1>1 DEF Heard
<1> DEFINE order == [from |-> IF Delays(cur.s) THEN "late" ELSE "loop", strat |-> cur.strat,
                     leg |-> cur.leg, hft |-> cur.s.hft, free |-> SideIsFilters,
                     step |-> IF Delays(cur.s) THEN "asleep" ELSE "check", px |-> 0, qty |-> 0]
<1>3. \/ orders' = orders
      \/ orders' = orders \cup {order} /\ (order.from = "loop" => at' = "entry")
  BY DEF Send
<1>4. OrderOk(order)
  <2>1. SideIsFilters /\ cur.strat.synthetic => cur.leg = StrategySide(cur.strat)
    BY <1>1 DEF LegInv, CurInv
  <2> QED BY <2>1 DEF OrderOk
<1>5. OrdersInv'
  BY <1>3, <1>4 DEF LegInv, OrdersInv, OrderOk
<1>6. \A o \in orders : o.from # "loop"
  BY <1>1 DEF LegInv, LoopWaits
<1>7. LoopWaits'
  <2> HIDE DEF order
  <2> QED BY <1>3, <1>6 DEF LoopWaits
<1> QED BY <1>1, <1>2, <1>5, <1>7 DEF LegInv, TodoInv, CurInv, InScan, BookInv, RowOk

-----------------------------------------------------------------------------
(* Orders and exits.                                                       *)

\* What the steps of an order have in common: the order goes, or goes on with the
\* side it has, and one of the loop's lets the loop go on when it ends.
LEMMA OrderStep ==
  ASSUME LegInv, NEW o \in orders,
         UNCHANGED <<settings, dir, bias, s0, todo, cur>>,
         NEW next, OrderOk(next), next.from = o.from,
         \/ /\ orders' = (orders \ {o}) \cup {next} /\ at' = at
         \/ /\ orders' = orders \ {o}
            /\ at' = IF o.from = "loop" THEN "next" ELSE at,
         BookInv'
  PROVE  LegInv'
<1>1. \A x : Heard(x)' = Heard(x)
  BY DEF Heard
<1>2. OrdersInv'
  BY DEF LegInv, OrdersInv, OrderOk
<1>3. LoopWaits'
  <2>1. CASE o.from = "loop"
    BY <2>1 DEF LegInv, LoopWaits
  <2>2. CASE o.from # "loop"
    BY <2>2 DEF LegInv, LoopWaits
  <2> QED BY <2>1, <2>2
<1>4. at' = at \/ (at = "entry" /\ at' = "next")
  BY DEF LegInv, LoopWaits
<1>5. SideIsFilters' = SideIsFilters
  BY DEF SideIsFilters
<1> QED BY <1>1, <1>2, <1>3, <1>4, <1>5 DEF LegInv, TodoInv, CurInv, InScan

LEMMA WakeOk ==
  ASSUME LegInv, NEW o \in orders, o.from # "loop", Wake(o)
  PROVE  LegInv'
<1> DEFINE next == [o EXCEPT !.step = "check"]
<1>1. OrderOk(next) /\ next.from = o.from
  BY DEF LegInv, OrdersInv, OrderOk
<1>2. BookInv'
  BY DEF Wake, book, LegInv, BookInv, RowOk
<1> HIDE DEF next
<1>3. \/ orders' = (orders \ {o}) \cup {next} /\ at' = at
      \/ orders' = orders \ {o} /\ at' = at
  BY DEF Wake, trendVars, next
<1> QED BY <1>1, <1>2, <1>3, OrderStep DEF Wake, trendVars, trend

LEMMA EntryCheckOk ==
  ASSUME LegInv, NEW o \in orders, EntryCheck(o)
  PROVE  LegInv'
<1> DEFINE leg == EntryLeg(o)
           px  == prices[<<o.strat.u, leg>>]
           qty == EntryQty(settings, settings.lotSize, px, settings.oi, settings.volume,
                           MarginBudget(settings.marginAmount, settings.marginPct,
                                        PaperAvailable(settings.capital, closed, positions)))
           next == [o EXCEPT !.step = "book", !.leg = leg, !.px = px, !.qty = qty]
<1>1. OrderOk(next) /\ next.from = o.from
  <2>1. o.strat.synthetic /\ o.free => leg = StrategySide(o.strat)
    <3>1. StrategySide(o.strat) # NoSide
      BY SideOfStrategy DEF Sides, NoSide
    <3> QED BY <3>1 DEF EntryLeg, LegInv, OrdersInv, OrderOk
  <2>2. OrderOk(o)
    BY DEF LegInv, OrdersInv
  <2> HIDE DEF leg, px, qty
  <2> QED BY <2>1, <2>2 DEF OrderOk
<1>2. \/ Fails(o)
      \/ /\ orders' = (orders \ {o}) \cup {next}
         /\ UNCHANGED <<trendVars, book, s0, todo, cur, exits, recent, manuals>>
  BY Zenon DEF EntryCheck
<1> HIDE DEF next
<1>3. CASE Fails(o)
  <2>1. BookInv'
    BY <1>3 DEF Fails, book, LegInv, BookInv, RowOk
  <2> QED BY <1>1, <1>3, <2>1, OrderStep DEF Fails, trendRest, trend
<1>4. CASE /\ orders' = (orders \ {o}) \cup {next}
           /\ UNCHANGED <<trendVars, book, s0, todo, cur, exits, recent, manuals>>
  <2>1. BookInv'
    BY <1>4 DEF book, LegInv, BookInv, RowOk
  <2> QED BY <1>1, <1>4, <2>1, OrderStep DEF trendVars, trend
<1> QED BY <1>2, <1>3, <1>4

LEMMA EntryBookOk ==
  ASSUME LegInv, NEW o \in orders, EntryBook(o)
  PROVE  LegInv'
<1>1. PICK p : /\ RowOk(p) /\ positions' = positions \cup {p} /\ UNCHANGED closed
  <2> DEFINE levels == LevelsFor(settings, settings.cfg, TRUE, o.px, settings.ai)
             picked == o.strat.u \in {k.u : k \in picks}
             p == [id |-> nextId, strat |-> o.strat.id, u |-> o.strat.u, leg |-> o.leg, from |-> o.from,
                   gate |-> StrategySide(o.strat), synthetic |-> o.strat.synthetic, free |-> o.free,
                   qty |-> o.qty, entry |-> PaperFill(o.px, TRUE, settings.slip),
                   sl |-> levels.sl, tp |-> levels.tp, pick |-> picked,
                   pickDir |-> IF picked THEN dir ELSE 0, hit |-> None,
                   exit |-> 0, mark |-> 0, reason |-> "", pnl |-> 0]
  <2>1. positions' = positions \cup {p} /\ UNCHANGED closed
    BY DEF EntryBook
  <2>2. RowOk(p)
    BY DEF RowOk, LegInv, OrdersInv, OrderOk
  <2> QED BY <2>1, <2>2
<1>2. BookInv'
  BY <1>1 DEF LegInv, BookInv, RowOk
<1>3. OrderOk(o)
  BY DEF LegInv, OrdersInv
<1>4. /\ orders' = orders \ {o} /\ at' = IF o.from = "loop" THEN "next" ELSE at
      /\ UNCHANGED <<settings, dir, bias, s0, todo, cur>>
  BY DEF EntryBook, trendRest, trend
<1> QED BY <1>2, <1>3, <1>4, OrderStep

LEMMA ManualEntryOk ==
  ASSUME LegInv, ManualEntry
  PROVE  LegInv'
<1>1. UNCHANGED <<settings, at, dir, bias, s0, todo, cur, positions, closed>>
  BY DEF ManualEntry, trendVars, trend, book
<1>2. PICK t \in settings.strategies :
        orders' = orders \cup {[from |-> "manual", strat |-> t, leg |-> NoSide, hft |-> FALSE,
                                free |-> FALSE, step |-> "check", px |-> 0, qty |-> 0]}
  BY DEF ManualEntry
<1>3. OrdersInv' /\ LoopWaits'
  BY <1>1, <1>2 DEF LegInv, OrdersInv, OrderOk, LoopWaits
<1>4. SideIsFilters' = SideIsFilters /\ \A x : Heard(x)' = Heard(x)
  BY <1>1 DEF SideIsFilters, Heard
<1> QED BY <1>1, <1>3, <1>4 DEF LegInv, TodoInv, CurInv, InScan, BookInv, RowOk

\* Of the exits only what they do to the book matters.
LEMMA ExitStep ==
  ASSUME LegInv, UNCHANGED <<settings, at, dir, bias, s0, todo, cur, orders>>, BookInv'
  PROVE  LegInv'
<1>1. SideIsFilters' = SideIsFilters /\ \A x : Heard(x)' = Heard(x)
  BY DEF SideIsFilters, Heard
<1> QED BY <1>1 DEF LegInv, TodoInv, CurInv, InScan, OrdersInv, OrderOk, LoopWaits

LEMMA GuardOk ==
  ASSUME LegInv, NEW p \in positions, Guard(p)
  PROVE  LegInv'
<1> DEFINE Seen(hit) == [p EXCEPT !.hit = hit]
<1>1. \A hit : RowOk(Seen(hit))
  BY DEF LegInv, BookInv, RowOk
<1>2. \/ \E hit : positions' = (positions \ {p}) \cup {Seen(hit)} /\ UNCHANGED closed
      \/ /\ positions' = positions \ {p}
         /\ closed' = closed \cup {Booked(Seen(Hit(p)), Hit(p)[1], Hit(p)[2])}
  BY DEF Guard
<1>3. RowOk(Booked(Seen(Hit(p)), Hit(p)[1], Hit(p)[2]))
  BY <1>1, BookedOk
<1>4. BookInv'
  <2> SUFFICES ASSUME NEW q \in positions' \cup closed' PROVE RowOk(q)
    BY DEF BookInv, RowOk
  <2> HIDE DEF Seen
  <2> QED BY <1>1, <1>2, <1>3 DEF LegInv, BookInv
<1> QED BY <1>4, ExitStep DEF Guard, trendVars, trend

LEMMA ExitDueOk ==
  ASSUME LegInv, NEW e \in exits, ExitDue(e)
  PROVE  LegInv'
<1>1. /\ positions' \subseteq positions
      /\ closed' = closed \cup {Booked(p, e.reason, e.px) : p \in {q \in positions : q.id = e.id}}
  BY DEF ExitDue
<1>2. BookInv'
  <2> SUFFICES ASSUME NEW q \in positions' \cup closed' PROVE RowOk(q)
    BY DEF BookInv, RowOk
  <2> QED BY <1>1, BookedOk DEF LegInv, BookInv
<1> QED BY <1>2, ExitStep DEF ExitDue, trendVars, trend

LEMMA ManualCloseOk ==
  ASSUME LegInv, NEW p \in positions, ManualClose(p)
  PROVE  LegInv'
<1>1. /\ positions' \subseteq positions
      /\ closed' = closed \cup {Booked(p, "MANUAL", Price(p))}
  BY DEF ManualClose
<1>2. BookInv'
  <2> SUFFICES ASSUME NEW q \in positions' \cup closed' PROVE RowOk(q)
    BY DEF BookInv, RowOk
  <2> QED BY <1>1, BookedOk DEF LegInv, BookInv
<1> QED BY <1>2, ExitStep DEF ManualClose, trendVars, trend

-----------------------------------------------------------------------------
LEMMA LegInvInit == Init => LegInv
  BY SavedStrategies DEF Init, TrendInit, LegInv, TodoInv, CurInv, InScan, OrdersInv, LoopWaits,
     BookInv

LEMMA LegInvStep == LegInv /\ [Next]_vars => LegInv'
<1> SUFFICES ASSUME LegInv, [Next]_vars PROVE LegInv'
  OBVIOUS
<1> settings \in Settings
  BY DEF LegInv
<1>1. CASE Loop
  <2>1. CASE TrendTask /\ UNCHANGED <<book, tasks>>
    BY <2>1, TrendTaskOk
  <2>2. CASE Scan
    <3>1. CASE ScanEnd
      BY <3>1, Outside, Quiet DEF ScanEnd, trendRest, trend, book, tasks, LegInv, TodoInv, CurInv,
         InScan, OrdersInv, OrderOk, LoopWaits, BookInv, RowOk
    <3> QED BY <2>2, <3>1, ScanDropsOk, ScanBeginOk, ConsiderOk, EvalGateOk, ResolveLegOk, SendOk
            DEF Scan
  <2>3. CASE \E o \in orders : o.from = "loop" /\ (EntryCheck(o) \/ EntryBook(o))
    BY <2>3, EntryCheckOk, EntryBookOk
  <2> QED BY <1>1, <2>1, <2>2, <2>3 DEF Loop
<1>2. CASE WatchTask /\ UNCHANGED <<book, tasks>>
  BY <1>2, Quiet DEF WatchTask, WatchReads, Write, book, tasks
<1>3. CASE \E o \in orders : o.from = "late" /\ (Wake(o) \/ EntryCheck(o) \/ EntryBook(o))
  BY <1>3, WakeOk, EntryCheckOk, EntryBookOk
<1>4. CASE \E p \in positions : Guard(p)
  BY <1>4, GuardOk
<1>5. CASE \E e \in exits : ExitDue(e)
  BY <1>5, ExitDueOk
<1>6. CASE Operator
  <2>1. CASE ChangeSettings /\ UNCHANGED <<book, tasks>>
    BY <2>1, Quiet DEF ChangeSettings, trend, book, tasks
  <2>2. CASE EngineSwitch
    BY <2>2, Quiet DEF EngineSwitch, tasks
  <2> QED BY <1>6, <2>1, <2>2, ManualEntryOk, ManualCloseOk, EntryCheckOk, EntryBookOk DEF Operator
<1>7. CASE MarketMoves /\ UNCHANGED <<book, tasks>>
  BY <1>7, Quiet DEF MarketMoves, book, tasks
<1>8. CASE Tick \/ SecondPasses
  BY <1>8, Quiet DEF Tick, SecondPasses, trendVars, book, tasks
<1>9. CASE UNCHANGED vars
  BY <1>9, Quiet DEF vars, trendVars, book, tasks
<1> QED BY <1>1, <1>2, <1>3, <1>4, <1>5, <1>6, <1>7, <1>8, <1>9 DEF Next

\* An entry of a scanner, made while the settings left the side to the filters,
\* buys the side its filters let through, whatever the operator, the watch and the
\* market do between the gate and the order (scanner_targets,
\* resolve_option_strategy).
THEOREM LegFollowsFiltersHolds == Spec => []LegFollowsFilters
<1>1. LegInv => LegFollowsFilters
  BY DEF LegInv, BookInv, RowOk, LegFollowsFilters
<1> QED BY <1>1, LegInvInit, LegInvStep, PTL DEF Spec

-----------------------------------------------------------------------------
(* What an exit is booked at.                                              *)

Columns == {"id", "hit", "reason", "mark"}

\* Positions have names of their own, which no later one gets, and a position with
\* a hit has an exit on its way that will be booked at it.
ExitInv ==
  /\ nextId \in Nat
  /\ \A p \in positions : /\ Columns \subseteq DOMAIN p
                          /\ p.id \in Nat /\ p.id < nextId
                          /\ p.hit # None => \E e \in exits : e.id = p.id
                          /\ \A e \in exits : e.id = p.id => p.hit = <<e.reason, e.px>>
                          /\ \A q \in positions : q.id = p.id => q = p
  /\ \A e \in exits : e.id \in Nat /\ e.id < nextId
  /\ BookedAtTrigger

LEMMA BookedRow ==
  ASSUME NEW p, NEW reason, NEW mark, Columns \subseteq DOMAIN p
  PROVE  LET b == Booked(p, reason, mark) IN b.reason = reason /\ b.mark = mark /\ b.hit = p.hit
  BY DEF Columns, Booked

LEMMA HitShape == \A p : Hit(p) = None \/ Hit(p) = <<Hit(p)[1], Hit(p)[2]>>
  BY DEF Hit

LEMMA ExitQuiet ==
  ASSUME ExitInv, UNCHANGED <<positions, closed, exits, nextId>>
  PROVE  ExitInv'
  BY DEF ExitInv, BookedAtTrigger

\* Positions go, and are booked for another reason than a level.
LEMMA ExitOther ==
  ASSUME ExitInv, positions' \subseteq positions, UNCHANGED <<exits, nextId>>,
         \A c \in closed' \ closed : c.reason \notin {"TARGET", "STOP_LOSS"}
  PROVE  ExitInv'
  BY DEF ExitInv, BookedAtTrigger

LEMMA ExitScanDrops ==
  ASSUME ExitInv, ScanDrops
  PROVE  ExitInv'
<1>1. \A p \in positions : Booked(p, "nifty_pick_drop", Price(p)).reason = "nifty_pick_drop"
  BY BookedRow DEF ExitInv
<1>2. \A c \in closed' \ closed : c.reason \notin {"TARGET", "STOP_LOSS"}
  BY <1>1 DEF ScanDrops
<1> QED BY <1>2, ExitOther DEF ScanDrops, tasks

LEMMA ExitManualClose ==
  ASSUME ExitInv, NEW p \in positions, ManualClose(p)
  PROVE  ExitInv'
<1>1. Booked(p, "MANUAL", Price(p)).reason = "MANUAL"
  BY BookedRow DEF ExitInv
<1> QED BY <1>1, ExitOther DEF ManualClose

LEMMA ExitEntryBook ==
  ASSUME ExitInv, NEW o \in orders, EntryBook(o)
  PROVE  ExitInv'
<1>1. PICK p : /\ positions' = positions \cup {p} /\ Columns \subseteq DOMAIN p
              /\ p.id = nextId /\ p.hit = None
  <2> DEFINE levels == LevelsFor(settings, settings.cfg, TRUE, o.px, settings.ai)
             picked == o.strat.u \in {k.u : k \in picks}
             p == [id |-> nextId, strat |-> o.strat.id, u |-> o.strat.u, leg |-> o.leg, from |-> o.from,
                   gate |-> StrategySide(o.strat), synthetic |-> o.strat.synthetic, free |-> o.free,
                   qty |-> o.qty, entry |-> PaperFill(o.px, TRUE, settings.slip),
                   sl |-> levels.sl, tp |-> levels.tp, pick |-> picked,
                   pickDir |-> IF picked THEN dir ELSE 0, hit |-> None,
                   exit |-> 0, mark |-> 0, reason |-> "", pnl |-> 0]
  <2>1. positions' = positions \cup {p}
    BY DEF EntryBook
  <2>2. Columns \subseteq DOMAIN p /\ p.id = nextId /\ p.hit = None
    BY DEF Columns
  <2> QED BY <2>1, <2>2
<1>2. nextId' = nextId + 1 /\ UNCHANGED <<exits, closed>>
  BY DEF EntryBook
<1> QED BY <1>1, <1>2 DEF ExitInv, BookedAtTrigger

LEMMA ExitGuard ==
  ASSUME ExitInv, NEW p \in positions, Guard(p)
  PROVE  ExitInv'
<1>0. /\ Hit(p) = <<Hit(p)[1], Hit(p)[2]>> /\ Hit(p) # None /\ UNCHANGED nextId
      /\ Columns \subseteq DOMAIN p
  BY HitShape DEF Guard, ExitInv
<1>1. CASE settings.exitDelay
  <2> DEFINE seen == [p EXCEPT !.hit = IF p.hit = None THEN Hit(p) ELSE p.hit]
             e == [id |-> p.id, reason |-> Hit(p)[1], px |-> Hit(p)[2]]
  <2>1. positions' = (positions \ {p}) \cup {seen} /\ UNCHANGED closed
    BY <1>1 DEF Guard
  <2>2. /\ seen.id = p.id /\ DOMAIN seen = DOMAIN p
        /\ seen.hit = IF p.hit = None THEN Hit(p) ELSE p.hit
    BY <1>0 DEF Columns
  <2> HIDE DEF seen
  <2>3. CASE \E x \in exits : x.id = p.id
    <3>1. exits' = exits
      BY <1>1, <2>3 DEF Guard, QueueExit
    <3>2. p.hit # None
      BY <2>3 DEF ExitInv, None
    <3> QED BY <1>0, <2>1, <2>2, <2>3, <3>1, <3>2 DEF ExitInv, BookedAtTrigger
  <2>4. CASE ~\E x \in exits : x.id = p.id
    <3>1. exits' = exits \cup {e}
      BY <1>1, <2>4 DEF Guard, QueueExit
    <3>2. e.id = p.id /\ <<e.reason, e.px>> = Hit(p)
      BY <1>0
    <3>3. p.hit = None
      BY <2>4 DEF ExitInv
    <3> HIDE DEF e
    <3> QED BY <1>0, <2>1, <2>2, <2>4, <3>1, <3>2, <3>3 DEF ExitInv, BookedAtTrigger
  <2> QED BY <2>3, <2>4
<1>2. CASE ~settings.exitDelay
  <2> DEFINE seen == [p EXCEPT !.hit = Hit(p)]
             row == Booked(seen, Hit(p)[1], Hit(p)[2])
  <2>1. positions' = positions \ {p} /\ closed' = closed \cup {row} /\ UNCHANGED exits
    BY <1>2 DEF Guard
  <2>2. DOMAIN seen = DOMAIN p /\ seen.hit = Hit(p)
    BY <1>0 DEF Columns
  <2> HIDE DEF seen
  <2>3. <<row.reason, row.mark>> = row.hit
    BY <1>0, <2>2, BookedRow
  <2> HIDE DEF row
  <2> QED BY <1>0, <2>1, <2>3 DEF ExitInv, BookedAtTrigger
<1> QED BY <1>1, <1>2

LEMMA ExitExitDue ==
  ASSUME ExitInv, NEW e \in exits, ExitDue(e)
  PROVE  ExitInv'
<1> DEFINE open == {p \in positions : p.id = e.id}
<1>1. /\ positions' = positions \ open /\ exits' = exits \ {e} /\ UNCHANGED nextId
      /\ closed' = closed \cup {Booked(p, e.reason, e.px) : p \in open}
  BY DEF ExitDue
<1>2. ASSUME NEW p \in open
      PROVE  LET b == Booked(p, e.reason, e.px) IN <<b.reason, b.mark>> = b.hit
  <2>1. Columns \subseteq DOMAIN p /\ p.hit = <<e.reason, e.px>>
    BY DEF ExitInv
  <2> QED BY <2>1, BookedRow
<1>3. BookedAtTrigger'
  BY <1>1, <1>2 DEF ExitInv, BookedAtTrigger
<1> QED BY <1>1, <1>3 DEF ExitInv

LEMMA ExitInvInit == Init => ExitInv
  BY DEF Init, ExitInv, BookedAtTrigger

LEMMA ExitInvStep == ExitInv /\ [Next]_vars => ExitInv'
<1> SUFFICES ASSUME ExitInv, [Next]_vars PROVE ExitInv'
  OBVIOUS
<1>1. CASE Loop
  <2>1. CASE TrendTask /\ UNCHANGED <<book, tasks>>
    BY <2>1, ExitQuiet DEF book, tasks
  <2>2. CASE Scan
    <3>1. CASE ScanBegin \/ ScanEnd \/ EvalGate \/ ResolveLeg \/ Send \/ \E t \in todo : Consider(t)
      BY <3>1, ExitQuiet DEF ScanBegin, ScanEnd, EvalGate, ResolveLeg, Send, Consider, book, tasks
    <3> QED BY <2>2, <3>1, ExitScanDrops DEF Scan
  <2>3. CASE \E o \in orders : o.from = "loop" /\ (EntryCheck(o) \/ EntryBook(o))
    BY <2>3, ExitQuiet, ExitEntryBook DEF EntryCheck, Fails, book
  <2> QED BY <1>1, <2>1, <2>2, <2>3 DEF Loop
<1>2. CASE \E o \in orders : o.from = "late" /\ (Wake(o) \/ EntryCheck(o) \/ EntryBook(o))
  BY <1>2, ExitQuiet, ExitEntryBook DEF Wake, EntryCheck, Fails, book
<1>3. CASE Operator
  <2>1. CASE (ChangeSettings /\ UNCHANGED <<book, tasks>>) \/ EngineSwitch \/ ManualEntry
    BY <2>1, ExitQuiet DEF EngineSwitch, ManualEntry, book, tasks
  <2>2. CASE \E o \in orders : o.from = "manual" /\ (EntryCheck(o) \/ EntryBook(o))
    BY <2>2, ExitQuiet, ExitEntryBook DEF EntryCheck, Fails, book
  <2> QED BY <1>3, <2>1, <2>2, ExitManualClose DEF Operator
<1>4. CASE (WatchTask \/ MarketMoves) /\ UNCHANGED <<book, tasks>>
  BY <1>4, ExitQuiet DEF book, tasks
<1>5. CASE Tick \/ SecondPasses
  BY <1>5, ExitQuiet DEF Tick, SecondPasses, book, tasks
<1>6. CASE UNCHANGED vars
  BY <1>6, ExitQuiet DEF vars, book, tasks
<1> QED BY <1>1, <1>2, <1>3, <1>4, <1>5, <1>6, ExitGuard, ExitExitDue DEF Next

\* A delayed exit books the level that was reached first, at the price of then, and
\* a prompt one the level of now, whatever prices, operator and other exits do in
\* between (queue_delayed_exit, close_position).
THEOREM BookedAtTriggerHolds == Spec => []BookedAtTrigger
<1>1. ExitInv => BookedAtTrigger
  BY DEF ExitInv
<1> QED BY <1>1, ExitInvInit, ExitInvStep, PTL DEF Spec

-----------------------------------------------------------------------------
(* The limits.                                                             *)


\* What the limits depend on.
Limits(s) == <<s.hft, s.entryDelay, s.tradeLimit, s.aiTrades, s.tradeCount>>

\* The operator leaves the limits alone while the engine runs.  (Whoever lowers
\* one below what is open already has no bound kept.)
LimitsStand ==
  \A s \in Settings :
    /\ s.hft \in BOOLEAN /\ s.entryDelay \in BOOLEAN /\ s.tradeCount \in Int
    /\ \A v \in Variants(s) : Limits(v) = Limits(s)

-----------------------------------------------------------------------------
(* What is counted.                                                        *)

Slack == IF settings.entryDelay THEN 1 ELSE 0

\* Positions and closed trades of the loop for a strategy,
Holding(id) == Cardinality(Own(positions, id))
Banked(id)  == Cardinality(Own(closed, id))

\* its orders that are on their way,
Going(id) == {o \in orders : o.from # "manual" /\ o.strat.id = id}
Busy(id)  == IF Going(id) # {} THEN 1 ELSE 0

\* and what the loop has chosen to look at, or has cleared for sending.
Chosen(id)  == IF at \in {"gate", "leg", "send"} /\ cur.strat.id = id THEN 1 ELSE 0
Cleared(id) == IF at = "send" /\ cur.strat.id = id THEN 1 ELSE 0

Shapes ==
  /\ IsFiniteSet(positions) /\ IsFiniteSet(closed)
  /\ \A p \in positions : {"strat", "from"} \subseteq DOMAIN p
  /\ \A o \in orders : /\ {"from", "strat"} \subseteq DOMAIN o
                       /\ o.from = "late" => settings.entryDelay
                       /\ o.from = "loop" => ~settings.entryDelay
                       /\ o.from \in {"late", "loop", "manual"}

\* The settings a scan works with have the limits of now.
LimitsRead ==
  /\ InScan => Limits(s0) = Limits(settings)
  /\ at \in {"gate", "leg", "send"} => Limits(cur.s) = Limits(settings)

\* A strategy has one order on its way at most.
OneGoing == \A id : \A a, b \in Going(id) : a = b

Classic == ~settings.hft => \A id : Holding(id) + Busy(id) + Chosen(id) <= 1 + Slack
Counted ==
  Limited(settings) =>
    \A id : Holding(id) + Banked(id) + Busy(id) + Cleared(id) <= settings.tradeCount + Slack

\* The inductive invariant, beside that of PaperTabProofs.
LimInv == Shapes /\ LimitsRead /\ OneGoing /\ Classic /\ Counted

-----------------------------------------------------------------------------
(* Counting.                                                               *)

LEMMA Counts ==
  ASSUME Shapes, NEW id
  PROVE  /\ Holding(id) \in Nat /\ Banked(id) \in Nat
         /\ IsFiniteSet(Own(positions, id)) /\ IsFiniteSet(Own(closed, id))
<1>1. Own(positions, id) \in SUBSET positions /\ Own(closed, id) \in SUBSET closed
  BY DEF Own
<1>2. IsFiniteSet(Own(positions, id)) /\ IsFiniteSet(Own(closed, id))
  BY <1>1, FS_Subset DEF Shapes
<1> QED BY <1>2, FS_CardinalityType DEF Holding, Banked

\* Positions D are closed, each booked by f as a trade of its strategy.
LEMMA Moved ==
  ASSUME Shapes, Shapes', NEW D \in SUBSET positions, NEW f,
         positions' = positions \ D, closed' = closed \cup {f[p] : p \in D},
         \A p \in D : f[p].strat = p.strat /\ f[p].from = p.from,
         NEW id
  PROVE  /\ Holding(id)' <= Holding(id)
         /\ Holding(id)' + Banked(id)' <= Holding(id) + Banked(id)
<1> DEFINE P == Own(positions, id)
           C == Own(closed, id)
           O == Own(D, id)
           F == {f[p] : p \in O}
           g == [p \in O |-> f[p]]
<1>1. Own(positions', id) = P \ O /\ Own(closed', id) = C \cup F /\ O \subseteq P
  BY DEF Own
<1>2. IsFiniteSet(P) /\ IsFiniteSet(C)
  BY Counts
<1>3. IsFiniteSet(O) /\ Cardinality(O) \in Nat
  BY <1>1, <1>2, FS_Subset, FS_CardinalityType
<1>4. IsFiniteSet(F) /\ Cardinality(F) <= Cardinality(O) /\ Cardinality(F) \in Nat
  <2>1. g \in Surjection(O, F)
    BY DEF Surjection
  <2> HIDE DEF O, F, g
  <2> QED BY <2>1, <1>3, FS_Surjection, FS_CardinalityType
<1> HIDE DEF P, C, O, F, g
<1>5. Cardinality(P \ O) = Cardinality(P) - Cardinality(O)
  <2>1. P \cap O = O
    BY <1>1
  <2> QED BY <2>1, <1>2, FS_Difference
<1>6. Cardinality(C \cup F) <= Cardinality(C) + Cardinality(F)
  <2>1. IsFiniteSet(C \cap F)
    BY <1>2, FS_Intersection
  <2>2. Cardinality(C \cap F) \in Nat /\ Cardinality(C) \in Nat
    BY <2>1, <1>2, FS_CardinalityType
  <2>3. Cardinality(C \cup F) = Cardinality(C) + Cardinality(F) - Cardinality(C \cap F)
    BY <1>2, <1>4, FS_Union
  <2> QED BY <2>2, <2>3, <1>4
<1>7. /\ Cardinality(P) \in Nat /\ Cardinality(C) \in Nat
      /\ Cardinality(C \cup F) \in Nat
  BY <1>2, <1>4, FS_CardinalityType, FS_Union
<1>8. /\ Holding(id)' = Cardinality(P \ O) /\ Banked(id)' = Cardinality(C \cup F)
      /\ Holding(id) = Cardinality(P) /\ Banked(id) = Cardinality(C)
  BY <1>1 DEF Holding, Banked, P, C
<1> QED BY <1>3, <1>4, <1>5, <1>6, <1>7, <1>8

\* A step that counts no more than before keeps the bounds.
LEMMA NoMore ==
  ASSUME LimInv, Shapes', Limits(settings') = Limits(settings),
         \A id : /\ Holding(id)' <= Holding(id)
                 /\ Holding(id)' + Banked(id)' <= Holding(id) + Banked(id)
                 /\ Busy(id)' <= Busy(id)
                 /\ Chosen(id)' <= Chosen(id) /\ Cleared(id)' <= Cleared(id),
         settings.tradeCount \in Int
  PROVE  Classic' /\ Counted'
<1>1. /\ settings'.hft = settings.hft /\ settings'.entryDelay = settings.entryDelay
      /\ settings'.tradeLimit = settings.tradeLimit /\ settings'.aiTrades = settings.aiTrades
      /\ settings'.tradeCount = settings.tradeCount
  BY DEF Limits
<1>2. Slack' = Slack /\ Slack \in {0, 1} /\ Limited(settings)' = Limited(settings)
  BY <1>1 DEF Slack, Limited
<1>3. \A id : /\ Holding(id) \in Nat /\ Banked(id) \in Nat /\ Holding(id)' \in Nat /\ Banked(id)' \in Nat
  <2> TAKE id
  <2>1. Holding(id) \in Nat /\ Banked(id) \in Nat
    BY Counts DEF LimInv
  <2>2. IsFiniteSet(Own(positions', id)) /\ IsFiniteSet(Own(closed', id))
    <3>1. Own(positions', id) \in SUBSET positions' /\ Own(closed', id) \in SUBSET closed'
      BY DEF Own
    <3> QED BY <3>1, FS_Subset DEF Shapes
  <2> QED BY <2>1, <2>2, FS_CardinalityType DEF Holding, Banked
<1>4. \A id : /\ Busy(id) \in {0, 1} /\ Busy(id)' \in {0, 1} /\ Chosen(id) \in {0, 1} /\ Chosen(id)' \in {0, 1}
              /\ Cleared(id) \in {0, 1} /\ Cleared(id)' \in {0, 1}
  BY DEF Busy, Chosen, Cleared
<1>5. Classic'
  BY <1>1, <1>2, <1>3, <1>4 DEF LimInv, Classic
<1>6. Counted'
  BY <1>1, <1>2, <1>3, <1>4 DEF LimInv, Counted
<1> QED BY <1>5, <1>6

\* An order on its way outside the loop's own wait is a delayed one.
LEMMA BusyIsLate ==
  ASSUME LegInv, LimInv, at # "entry", NEW id
  PROVE  Busy(id) <= Slack /\ Busy(id) \in {0, 1} /\ Slack \in {0, 1}
<1>1. \A o \in Going(id) : o.from = "late"
  BY DEF Going, LimInv, Shapes, LegInv, LoopWaits
<1>2. Going(id) # {} => settings.entryDelay
  BY <1>1 DEF Going, LimInv, Shapes
<1> QED BY <1>2 DEF Busy, Slack

-----------------------------------------------------------------------------
(* The steps that neither choose nor order anything.                       *)

\* Orders and choice stay, the loop stays or leaves the scan, the book counts no
\* more than it did.
LEMMA Frame ==
  ASSUME LegInv, LimitsStand, LimInv, Limits(settings') = Limits(settings),
         UNCHANGED <<orders, cur, s0>>, at' = at \/ ~InScan', Shapes',
         \A id : /\ Holding(id)' <= Holding(id)
                 /\ Holding(id)' + Banked(id)' <= Holding(id) + Banked(id)
  PROVE  LimInv'
<1>1. LimitsRead'
  BY DEF LimInv, LimitsRead, InScan
<1>2. OneGoing' /\ \A id : Busy(id)' = Busy(id)
  BY DEF LimInv, OneGoing, Going, Busy
<1>3. \A id : Chosen(id)' <= Chosen(id) /\ Cleared(id)' <= Cleared(id)
  BY DEF Chosen, Cleared, InScan
<1>4. settings.tradeCount \in Int /\ \A id : Busy(id)' <= Busy(id)
  <2>1. \A id : Busy(id) \in {0, 1}
    BY DEF Busy
  <2> QED BY <1>2, <2>1 DEF LegInv, LimitsStand
<1>5. Classic' /\ Counted'
  BY <1>3, <1>4, NoMore
<1> QED BY <1>1, <1>2, <1>5 DEF LimInv

\* The book stays as well.
LEMMA Still ==
  ASSUME LegInv, LimitsStand, LimInv, Limits(settings') = Limits(settings),
         UNCHANGED <<orders, cur, s0, positions, closed>>, at' = at \/ ~InScan'
  PROVE  LimInv'
<1>1. Shapes'
  BY DEF LimInv, Shapes, Limits
<1>2. \A id : /\ Holding(id) \in Nat /\ Banked(id) \in Nat
              /\ Holding(id)' = Holding(id) /\ Banked(id)' = Banked(id)
  BY Counts DEF LimInv, Holding, Banked
<1>3. \A id : Holding(id)' <= Holding(id) /\ Holding(id)' + Banked(id)' <= Holding(id) + Banked(id)
  BY <1>2
<1> QED BY <1>1, <1>3, Frame

\* Positions are closed, each as a trade of its strategy.
LEMMA Closes ==
  ASSUME LegInv, LimitsStand, LimInv, settings' = settings, UNCHANGED <<orders, cur, s0>>,
         at' = at \/ ~InScan', NEW D \in SUBSET positions, NEW f,
         positions' = positions \ D, closed' = closed \cup {f[p] : p \in D},
         \A p \in D : f[p].strat = p.strat /\ f[p].from = p.from
  PROVE  LimInv'
<1>1. IsFiniteSet(D) /\ IsFiniteSet(positions')
  BY FS_Subset DEF LimInv, Shapes
<1>2. IsFiniteSet({f[p] : p \in D})
  <2> DEFINE F == {f[p] : p \in D}
             g == [p \in D |-> f[p]]
  <2>1. g \in Surjection(D, F)
    BY DEF Surjection
  <2> HIDE DEF F, g
  <2>2. IsFiniteSet(F)
    BY <2>1, <1>1, FS_Surjection
  <2> QED BY <2>2 DEF F
<1>3. IsFiniteSet(closed')
  BY <1>2, FS_Union DEF LimInv, Shapes
<1>4. Shapes'
  BY <1>1, <1>3 DEF LimInv, Shapes
<1>5. \A id : /\ Holding(id)' <= Holding(id)
              /\ Holding(id)' + Banked(id)' <= Holding(id) + Banked(id)
  BY <1>4, Moved DEF LimInv
<1> QED BY <1>4, <1>5, Frame

\* What close_position books is a trade of the position's strategy.
LEMMA BookedStrat ==
  ASSUME NEW p, {"strat", "from"} \subseteq DOMAIN p, NEW reason, NEW mark
  PROVE  Booked(p, reason, mark).strat = p.strat /\ Booked(p, reason, mark).from = p.from
BY DEF Booked

\* The NIFTY scan drops positions,
LEMMA DropsKeep ==
  ASSUME LegInv, LimitsStand, LimInv, ScanDrops
  PROVE  LimInv'
<1> DEFINE kept == {k.u : k \in picks}
           dropped == {p \in positions : p.pick /\ p.pickDir = dir /\ p.u \notin kept}
           f == [p \in dropped |-> Booked(p, "nifty_pick_drop", Price(p))]
<1>1. /\ positions' = positions \ dropped
      /\ closed' = closed \cup {Booked(p, "nifty_pick_drop", Price(p)) : p \in dropped}
      /\ settings' = settings /\ UNCHANGED <<orders, cur, s0>> /\ at' = "engine"
  BY DEF ScanDrops, trendRest, tasks
<1>2. {Booked(p, "nifty_pick_drop", Price(p)) : p \in dropped} = {f[p] : p \in dropped}
  OBVIOUS
<1>3. \A p \in dropped : f[p].strat = p.strat /\ f[p].from = p.from
  BY BookedStrat DEF LimInv, Shapes
<1>4. dropped \in SUBSET positions
  OBVIOUS
<1>5. at' = at \/ ~InScan'
  BY <1>1 DEF InScan
<1> HIDE DEF kept, dropped, f
<1>6. closed' = closed \cup {f[p] : p \in dropped}
  BY <1>1, <1>2
<1>7. settings' = settings /\ UNCHANGED <<orders, cur, s0>> /\ positions' = positions \ dropped
  BY <1>1
<1> QED BY <1>3, <1>4, <1>5, <1>6, <1>7, Closes

\* the operator closes one,
LEMMA ManualCloseKeeps ==
  ASSUME LegInv, LimitsStand, LimInv, NEW p \in positions, ManualClose(p)
  PROVE  LimInv'
<1> DEFINE f == [q \in {p} |-> Booked(q, "MANUAL", Price(q))]
<1>1. /\ positions' = positions \ {p} /\ closed' = closed \cup {f[q] : q \in {p}}
      /\ settings' = settings /\ at' = at /\ UNCHANGED <<orders, cur, s0>>
  BY DEF ManualClose, trendVars
<1>2. {p} \in SUBSET positions /\ \A q \in {p} : f[q].strat = q.strat /\ f[q].from = q.from
  BY BookedStrat DEF LimInv, Shapes
<1> HIDE DEF f
<1> QED BY <1>1, <1>2, Closes

\* a delayed exit is due,
LEMMA ExitDueKeeps ==
  ASSUME LegInv, LimitsStand, LimInv, NEW e \in exits, ExitDue(e)
  PROVE  LimInv'
<1> DEFINE D == {p \in positions : p.id = e.id}
           f == [q \in D |-> Booked(q, e.reason, e.px)]
<1>1. /\ positions' = positions \ D
      /\ closed' = closed \cup {Booked(p, e.reason, e.px) : p \in D}
      /\ settings' = settings /\ at' = at /\ UNCHANGED <<orders, cur, s0>>
  BY DEF ExitDue, trendVars
<1>2. {Booked(p, e.reason, e.px) : p \in D} = {f[p] : p \in D}
  OBVIOUS
<1>3. \A q \in D : f[q].strat = q.strat /\ f[q].from = q.from
  BY BookedStrat DEF LimInv, Shapes
<1>4. D \in SUBSET positions
  OBVIOUS
<1> HIDE DEF f, D
<1>5. positions' = positions \ D /\ closed' = closed \cup {f[p] : p \in D}
  BY <1>1, <1>2
<1>6. settings' = settings /\ UNCHANGED <<orders, cur, s0>> /\ (at' = at \/ ~InScan')
  BY <1>1
<1> QED BY <1>3, <1>4, <1>5, <1>6, Closes

\* or the guardian cuts, now or later: a position it has looked at counts as before.
LEMMA GuardKeeps ==
  ASSUME LegInv, LimitsStand, LimInv, NEW p \in positions, Guard(p)
  PROVE  LimInv'
<1>0. {"strat", "from"} \subseteq DOMAIN p
  BY DEF LimInv, Shapes
<1>u. settings' = settings /\ at' = at /\ UNCHANGED <<orders, cur, s0>>
  BY DEF Guard, trendVars
<1>1. CASE settings.exitDelay
  <2> DEFINE seen == [p EXCEPT !.hit = IF p.hit = None THEN Hit(p) ELSE p.hit]
  <2>1. positions' = (positions \ {p}) \cup {seen} /\ closed' = closed
    BY <1>1 DEF Guard
  <2>2. seen.strat = p.strat /\ seen.from = p.from /\ {"strat", "from"} \subseteq DOMAIN seen
    BY <1>0
  <2> HIDE DEF seen
  <2>3. IsFiniteSet(positions')
    BY <2>1, FS_RemoveElement, FS_AddElement DEF LimInv, Shapes
  <2>4. Shapes'
    BY <1>u, <2>1, <2>2, <2>3 DEF LimInv, Shapes
  <2>5. \A id : /\ Holding(id)' <= Holding(id)
                /\ Holding(id)' + Banked(id)' <= Holding(id) + Banked(id)
    <3> TAKE id
    <3> DEFINE P == Own(positions, id)
    <3>1. IsFiniteSet(P) /\ Holding(id) \in Nat /\ Banked(id) \in Nat /\ Holding(id) = Cardinality(P)
      BY Counts DEF LimInv, Holding
    <3>2. Banked(id)' = Banked(id)
      BY <2>1 DEF Banked
    <3>3. CASE p \in P
      <4>1. Own(positions', id) = (P \ {p}) \cup {seen}
        BY <2>1, <2>2, <3>3 DEF Own
      <4> HIDE DEF P
      <4>2. IsFiniteSet(P \ {p}) /\ Cardinality(P \ {p}) = Cardinality(P) - 1
        BY <3>1, <3>3, FS_RemoveElement
      <4>c. Cardinality(P) \in Nat
        BY <3>1
      <4>3. Cardinality((P \ {p}) \cup {seen}) \in {Cardinality(P) - 1, Cardinality(P)}
        <5>1. Cardinality((P \ {p}) \cup {seen})
                = IF seen \in P \ {p} THEN Cardinality(P \ {p}) ELSE Cardinality(P \ {p}) + 1
          BY <4>2, FS_AddElement
        <5> QED BY <5>1, <4>2, <4>c
      <4>4. Holding(id)' \in {Holding(id) - 1, Holding(id)}
        BY <3>1, <4>1, <4>3 DEF Holding
      <4> QED BY <3>1, <3>2, <4>4
    <3>4. CASE p \notin P
      <4>1. Own(positions', id) = P
        BY <2>1, <2>2, <3>4 DEF Own
      <4> QED BY <3>1, <3>2, <4>1 DEF Holding
    <3> QED BY <3>3, <3>4
  <2> QED BY <1>u, <2>4, <2>5, Frame
<1>2. CASE ~settings.exitDelay
  <2> DEFINE seen == [p EXCEPT !.hit = Hit(p)]
             row == Booked(seen, Hit(p)[1], Hit(p)[2])
             f == [q \in {p} |-> row]
  <2>1. positions' = positions \ {p} /\ closed' = closed \cup {row}
    BY <1>2 DEF Guard
  <2>2. seen.strat = p.strat /\ seen.from = p.from /\ {"strat", "from"} \subseteq DOMAIN seen
    BY <1>0
  <2> HIDE DEF seen
  <2>3. row.strat = p.strat /\ row.from = p.from
    BY <2>2, BookedStrat
  <2> HIDE DEF row
  <2>4. /\ {p} \in SUBSET positions /\ {row} = {f[q] : q \in {p}}
        /\ \A q \in {p} : f[q].strat = q.strat /\ f[q].from = q.from
    BY <2>3
  <2> HIDE DEF f
  <2> QED BY <1>u, <2>1, <2>4, Closes
<1> QED BY <1>1, <1>2

-----------------------------------------------------------------------------
(* The steps that choose.                                                  *)

\* What the book and the orders have to do with it, when both stay.
LEMMA SameBook ==
  ASSUME LimInv, UNCHANGED <<settings, orders, positions, closed>>
  PROVE  /\ Shapes' /\ OneGoing' /\ Slack' = Slack
         /\ \A id : /\ Holding(id) \in Nat /\ Banked(id) \in Nat
                    /\ Holding(id)' = Holding(id) /\ Banked(id)' = Banked(id) /\ Busy(id)' = Busy(id)
BY Counts DEF LimInv, Shapes, OneGoing, Going, Busy, Holding, Banked, Slack

\* A scan begins with the settings of now, at no strategy.
LEMMA BeginKeeps ==
  ASSUME LegInv, LimitsStand, LimInv, ScanBegin
  PROVE  LimInv'
<1>1. /\ UNCHANGED <<settings, orders, positions, closed, cur>> /\ at = "engine"
      /\ \/ at' = "next" /\ s0' = settings
         \/ at' = "movers"
  BY DEF ScanBegin, trendRest, book
<1>2. LimitsRead'
  BY <1>1 DEF LimitsRead, InScan
<1>3. \A id : Chosen(id)' = Chosen(id) /\ Cleared(id)' = Cleared(id)
  BY <1>1 DEF Chosen, Cleared
<1>4. Classic' /\ Counted'
  BY <1>1, <1>3, SameBook DEF LimInv, Classic, Counted
<1> QED BY <1>1, <1>2, <1>4, SameBook DEF LimInv

\* A strategy is chosen: in classic mode it has no position, and one order at most.
LEMMA ConsiderKeeps ==
  ASSUME LegInv, LimitsStand, LimInv, NEW t \in todo, Consider(t)
  PROVE  LimInv'
<1>1. /\ UNCHANGED <<settings, orders, positions, closed, s0>> /\ at = "next"
      /\ \/ at' = "next" /\ cur' = cur
         \/ /\ at' = "gate" /\ cur' = [strat |-> t, s |-> settings, leg |-> NoSide]
            /\ settings.hft \/ Open(t.id) = {}
  BY DEF Consider, trendRest, book
<1>2. CASE at' = "next" /\ cur' = cur
  BY <1>1, <1>2, Still
<1>3. CASE /\ at' = "gate" /\ cur' = [strat |-> t, s |-> settings, leg |-> NoSide]
           /\ settings.hft \/ Open(t.id) = {}
  <2>1. cur'.strat = t /\ cur'.s = settings
    BY <1>3
  <2>2. LimitsRead'
    BY <1>1, <1>3, <2>1 DEF LimInv, LimitsRead, InScan
  <2>3. \A id : /\ Cleared(id)' = 0 /\ Cleared(id) = 0 /\ Chosen(id) = 0
                /\ Chosen(id)' = IF id = t.id THEN 1 ELSE 0
    BY <1>1, <1>3, <2>1 DEF Chosen, Cleared
  <2>4. \A id : Busy(id) <= Slack /\ Busy(id) \in {0, 1} /\ Slack \in {0, 1}
    BY <1>1, BusyIsLate
  <2>5. ASSUME ~settings.hft PROVE Holding(t.id) = 0
    <3>1. Own(positions, t.id) = {}
      BY <1>3, <2>5 DEF Own, Open
    <3> QED BY <3>1, FS_EmptySet DEF Holding
  <2>6. Classic'
    <3> SUFFICES ASSUME ~settings.hft, NEW id
                 PROVE  Holding(id)' + Busy(id)' + Chosen(id)' <= 1 + Slack
      BY <1>1, SameBook DEF Classic
    <3>1. CASE id = t.id
      BY <3>1, <1>1, <2>3, <2>4, <2>5, SameBook
    <3>2. CASE id # t.id
      BY <3>2, <1>1, <2>3, SameBook DEF LimInv, Classic
    <3> QED BY <3>1, <3>2
  <2>7. Counted'
    BY <1>1, <2>3, SameBook DEF LimInv, Counted
  <2> QED BY <1>1, <2>2, <2>6, <2>7, SameBook DEF LimInv
<1> QED BY <1>1, <1>2, <1>3

\* The gate lets it through or not.
LEMMA GateKeeps ==
  ASSUME LegInv, LimitsStand, LimInv, EvalGate
  PROVE  LimInv'
<1>1. /\ UNCHANGED <<settings, orders, positions, closed, s0>> /\ at = "gate"
      /\ \/ at' = "next"
         \/ at' = "leg" /\ cur'.strat = cur.strat /\ cur'.s = cur.s
  <2>1. cur = [strat |-> cur.strat, s |-> cur.s, leg |-> cur.leg]
    BY DEF EvalGate, LegInv, CurInv
  <2>2. \A leg : [cur EXCEPT !.leg = leg].strat = cur.strat /\ [cur EXCEPT !.leg = leg].s = cur.s
    BY <2>1
  <2>3. at' = "next" \/ (at' = "leg" /\ (cur' = cur \/ \E leg : cur' = [cur EXCEPT !.leg = leg]))
    BY DEF EvalGate
  <2> QED BY <2>2, <2>3 DEF EvalGate, trendRest, book
<1>2. LimitsRead'
  BY <1>1 DEF LimInv, LimitsRead, InScan
<1>3. \A id : /\ Chosen(id)' <= Chosen(id) /\ Cleared(id)' = Cleared(id) /\ Cleared(id) = 0
              /\ Holding(id)' <= Holding(id) /\ Busy(id)' <= Busy(id)
              /\ Holding(id)' + Banked(id)' <= Holding(id) + Banked(id)
  <2>1. \A id : /\ Chosen(id)' <= Chosen(id) /\ Cleared(id)' = Cleared(id) /\ Cleared(id) = 0
                /\ Busy(id) \in {0, 1}
    BY <1>1 DEF Chosen, Cleared, Busy
  <2> QED BY <1>1, <2>1, SameBook
<1>4. Classic' /\ Counted'
  <2>1. Shapes' /\ settings.tradeCount \in Int
    BY <1>1, SameBook DEF LegInv, LimitsStand
  <2>2. \A id : Cleared(id)' <= Cleared(id)
    BY <1>3
  <2> QED BY <1>1, <1>3, <2>1, <2>2, NoMore
<1> QED BY <1>1, <1>2, <1>4, SameBook DEF LimInv

\* Whatever the trades of a strategy, the loop counts all of its own.
LEMMA DoneCounts ==
  ASSUME LimInv, NEW id
  PROVE  Holding(id) + Banked(id) <= Done(id) /\ Done(id) \in Nat
<1> DEFINE C == {c \in closed : c.strat = id}
<1>1. IsFiniteSet(Open(id)) /\ IsFiniteSet(C)
  <2>1. Open(id) \in SUBSET positions /\ C \in SUBSET closed
    BY DEF Open
  <2> QED BY <2>1, FS_Subset DEF LimInv, Shapes
<1>2. Own(positions, id) \in SUBSET Open(id) /\ Own(closed, id) \in SUBSET C
  BY DEF Own, Open
<1>3. /\ Holding(id) <= Cardinality(Open(id)) /\ Cardinality(Open(id)) \in Nat
  BY <1>1, <1>2, FS_Subset, FS_CardinalityType DEF Holding
<1>4. Banked(id) <= Cardinality(C) /\ Cardinality(C) \in Nat
  BY <1>1, <1>2, FS_Subset, FS_CardinalityType DEF Banked
<1>5. Holding(id) \in Nat /\ Banked(id) \in Nat /\ Done(id) = Cardinality(Open(id)) + Cardinality(C)
  BY Counts DEF LimInv, Done
<1> QED BY <1>3, <1>4, <1>5

\* The contract is chosen and the trade limit asked: what is booked leaves room for
\* one, and one more may be on its way.
LEMMA ResolveKeeps ==
  ASSUME LegInv, LimitsStand, LimInv, ResolveLeg
  PROVE  LimInv'
<1> DEFINE id0 == cur.strat.id
<1>1. /\ UNCHANGED <<settings, orders, positions, closed, s0>> /\ at = "leg"
      /\ \/ at' = "next"
         \/ /\ at' = "send" /\ cur'.strat = cur.strat /\ cur'.s = cur.s
            /\ TradeLimitAllows(s0, Done(id0))
  <2>1. cur = [strat |-> cur.strat, s |-> cur.s, leg |-> cur.leg]
    BY DEF ResolveLeg, LegInv, CurInv
  <2>2. \A leg : [cur EXCEPT !.leg = leg].strat = cur.strat /\ [cur EXCEPT !.leg = leg].s = cur.s
    BY <2>1
  <2>3. \/ at' = "next"
        \/ /\ at' = "send" /\ TradeLimitAllows(s0, Done(id0))
           /\ \E leg : cur' = [cur EXCEPT !.leg = leg]
    BY DEF ResolveLeg
  <2> QED BY <2>2, <2>3 DEF ResolveLeg, trendRest, book
<1>2. LimitsRead'
  BY <1>1 DEF LimInv, LimitsRead, InScan
<1>c. \A id : /\ Chosen(id)' <= Chosen(id) /\ Chosen(id) \in {0, 1} /\ Chosen(id)' \in {0, 1}
              /\ Cleared(id) = 0
  BY <1>1 DEF Chosen, Cleared
<1>3. Classic'
  <2>1. \A id : Busy(id) \in {0, 1} /\ Slack \in {0, 1}
    BY DEF Busy, Slack
  <2> QED BY <1>1, <1>c, <2>1, SameBook DEF LimInv, Classic
<1>4. Counted'
  <2> SUFFICES ASSUME Limited(settings), NEW id
               PROVE  Holding(id) + Banked(id) + Busy(id) + Cleared(id)' <= settings.tradeCount + Slack
    BY <1>1, SameBook DEF Counted
  <2>1. Busy(id) <= Slack /\ Busy(id) \in {0, 1} /\ Slack \in {0, 1}
    BY <1>1, BusyIsLate
  <2>2. CASE at' = "send" /\ id = id0
    <3>1. Limits(s0) = Limits(settings) /\ TradeLimitAllows(s0, Done(id))
      BY <1>1, <2>2 DEF LimInv, LimitsRead, InScan
    <3>2. Done(id) < settings.tradeCount
      BY <3>1 DEF Limits, TradeLimitAllows, Limited
    <3>3. settings.tradeCount \in Int /\ Holding(id) \in Nat /\ Banked(id) \in Nat
      BY Counts DEF LegInv, LimitsStand, LimInv
    <3>4. Cleared(id)' \in {0, 1}
      BY DEF Cleared
    <3> QED BY <2>1, <3>2, <3>3, <3>4, DoneCounts
  <2>3. CASE ~(at' = "send" /\ id = id0)
    <3>1. Cleared(id)' = Cleared(id)
      BY <1>1, <1>c, <2>3 DEF Cleared
    <3> QED BY <3>1 DEF LimInv, Counted
  <2> QED BY <2>2, <2>3
<1> QED BY <1>1, <1>2, <1>3, <1>4, SameBook DEF LimInv

\* The order goes out, and takes the place of the choice; a delayed one only if the
\* strategy has none on its way.
LEMMA SendKeeps ==
  ASSUME LegInv, LimitsStand, LimInv, Send
  PROVE  LimInv'
<1> DEFINE id0 == cur.strat.id
           order == [from |-> IF Delays(cur.s) THEN "late" ELSE "loop", strat |-> cur.strat,
                     leg |-> cur.leg, hft |-> cur.s.hft, free |-> SideIsFilters,
                     step |-> IF Delays(cur.s) THEN "asleep" ELSE "check", px |-> 0, qty |-> 0]
<1>1. /\ UNCHANGED <<settings, positions, closed, s0>> /\ at = "send" /\ at' \in {"entry", "next"}
      /\ orders' = orders \/ (orders' = orders \cup {order} /\ (Delays(cur.s) => Late(id0) = {}))
  BY DEF Send, trendRest, book, Underway
<1>2. cur.s.entryDelay = settings.entryDelay /\ settings.entryDelay \in BOOLEAN
  BY <1>1 DEF LimInv, LimitsRead, Limits, LegInv, LimitsStand
<1>3. /\ order.strat = cur.strat /\ {"from", "strat"} \subseteq DOMAIN order
      /\ order.from = IF settings.entryDelay THEN "late" ELSE "loop"
  BY <1>2 DEF Delays
<1> HIDE DEF order
<1>4. LimitsRead'
  BY <1>1 DEF LimInv, LimitsRead, InScan
<1>5. Shapes' /\ Slack' = Slack
  BY <1>1, <1>3 DEF LimInv, Shapes, Slack
<1>6. \A o \in orders : o.from # "loop"
  BY <1>1 DEF LegInv, LoopWaits
<1>7. orders' # orders => Going(id0) = {}
  <2>1. CASE settings.entryDelay
    BY <1>1, <1>2, <1>6, <2>1 DEF Delays, Late, Going, LimInv, Shapes
  <2>2. CASE ~settings.entryDelay
    BY <1>6, <2>2 DEF Going, LimInv, Shapes
  <2> QED BY <2>1, <2>2
<1>8. \A id : /\ id # id0 \/ orders' = orders => Going(id)' = Going(id)
              /\ id = id0 /\ orders' # orders => Going(id)' = {order}
  BY <1>1, <1>3, <1>7 DEF Going
<1>9. OneGoing'
  BY <1>8 DEF LimInv, OneGoing
<1>10. \A id : /\ Chosen(id)' = 0 /\ Cleared(id)' = 0
               /\ Chosen(id) = (IF id = id0 THEN 1 ELSE 0) /\ Cleared(id) = (IF id = id0 THEN 1 ELSE 0)
               /\ Busy(id) \in {0, 1}
               /\ Busy(id)' \in {0, 1} /\ Busy(id)' <= Busy(id) + (IF id = id0 THEN 1 ELSE 0)
  BY <1>1, <1>8 DEF Chosen, Cleared, Busy
<1>11. \A id : /\ Holding(id) \in Nat /\ Banked(id) \in Nat
               /\ Holding(id)' = Holding(id) /\ Banked(id)' = Banked(id)
  BY <1>1, Counts DEF LimInv, Holding, Banked
<1>12. Slack \in {0, 1} /\ settings.tradeCount \in Int
  BY DEF Slack, LegInv, LimitsStand
<1>13. Classic'
  BY <1>1, <1>5, <1>10, <1>11, <1>12 DEF LimInv, Classic
<1>14. Counted'
  BY <1>1, <1>5, <1>10, <1>11, <1>12 DEF LimInv, Counted
<1> QED BY <1>4, <1>5, <1>9, <1>13, <1>14 DEF LimInv

-----------------------------------------------------------------------------
(* The steps of an order.                                                  *)

\* An order goes on: it is still one of its strategy's.
LEMMA GoesOn ==
  ASSUME LegInv, LimitsStand, LimInv, NEW o \in orders, NEW next,
         next.from = o.from, next.strat = o.strat, DOMAIN next = DOMAIN o,
         orders' = (orders \ {o}) \cup {next},
         settings' = settings, at' = at, UNCHANGED <<positions, closed, cur, s0>>
  PROVE  LimInv'
<1>1. Shapes' /\ Slack' = Slack
  BY DEF LimInv, Shapes, Slack
<1>2. \A id : /\ Going(id)' = IF o \in Going(id) THEN (Going(id) \ {o}) \cup {next} ELSE Going(id)
  BY DEF Going
<1>3. OneGoing' /\ \A id : Busy(id)' = Busy(id)
  BY <1>2 DEF LimInv, OneGoing, Busy
<1>4. LimitsRead'
  BY DEF LimInv, LimitsRead, InScan
<1>5. \A id : /\ Holding(id)' = Holding(id) /\ Banked(id)' = Banked(id)
              /\ Chosen(id)' = Chosen(id) /\ Cleared(id)' = Cleared(id)
  BY DEF Holding, Banked, Chosen, Cleared
<1>6. Classic' /\ Counted'
  BY <1>1, <1>3, <1>5 DEF LimInv, Classic, Counted
<1> QED BY <1>1, <1>3, <1>4, <1>6 DEF LimInv

\* What an order that ends leaves to the others: nothing of its strategy is on its
\* way any more, and the loop, if it waited, is at no strategy.
LEMMA Gone ==
  ASSUME LegInv, LimInv, NEW o \in orders, orders' = orders \ {o},
         at' = IF o.from = "loop" THEN "next" ELSE at, UNCHANGED <<settings, cur, s0>>
  PROVE  /\ LimitsRead' /\ OneGoing'
         /\ \A id : /\ Chosen(id)' = Chosen(id) /\ Cleared(id)' = Cleared(id)
                    /\ Busy(id) \in {0, 1} /\ Busy(id)' \in {0, 1} /\ Busy(id)' <= Busy(id)
                    /\ o \in Going(id) => Busy(id) = 1 /\ Busy(id)' = 0
<1>1. o.from = "loop" => at = "entry"
  BY DEF LegInv, LoopWaits
<1>2. \A id : Going(id)' = Going(id) \ {o}
  BY DEF Going
<1>3. LimitsRead'
  BY <1>1 DEF LimInv, LimitsRead, InScan
<1>4. OneGoing'
  BY <1>2 DEF LimInv, OneGoing
<1>5. \A id : Chosen(id)' = Chosen(id) /\ Cleared(id)' = Cleared(id)
  BY <1>1 DEF Chosen, Cleared
<1>6. \A id : /\ Busy(id) \in {0, 1} /\ Busy(id)' \in {0, 1} /\ Busy(id)' <= Busy(id)
              /\ o \in Going(id) => Busy(id) = 1 /\ Busy(id)' = 0
  BY <1>2 DEF Busy, LimInv, OneGoing
<1> QED BY <1>3, <1>4, <1>5, <1>6

\* It ends without a position: refused, out of margin, or woken to a stopped engine.
LEMMA GivenUp ==
  ASSUME LegInv, LimitsStand, LimInv, NEW o \in orders, orders' = orders \ {o},
         at' = IF o.from = "loop" THEN "next" ELSE at,
         UNCHANGED <<settings, cur, s0, positions, closed>>
  PROVE  LimInv'
<1>1. Shapes' /\ settings.tradeCount \in Int
  BY DEF LimInv, Shapes, LegInv, LimitsStand
<1>2. \A id : /\ Holding(id) \in Nat /\ Banked(id) \in Nat
              /\ Holding(id)' = Holding(id) /\ Banked(id)' = Banked(id)
              /\ Chosen(id) \in {0, 1} /\ Cleared(id) \in {0, 1}
  BY Counts DEF LimInv, Holding, Banked, Chosen, Cleared
<1>3. \A id : /\ Holding(id)' <= Holding(id)
              /\ Holding(id)' + Banked(id)' <= Holding(id) + Banked(id)
              /\ Busy(id)' <= Busy(id)
              /\ Chosen(id)' <= Chosen(id) /\ Cleared(id)' <= Cleared(id)
  BY <1>2, Gone
<1>4. Limits(settings') = Limits(settings)
  OBVIOUS
<1>5. Classic' /\ Counted'
  BY <1>1, <1>3, <1>4, NoMore
<1> QED BY <1>1, <1>5, Gone DEF LimInv

\* It is booked: what was on its way is now a position.
LEMMA BookKeeps ==
  ASSUME LegInv, LimitsStand, LimInv, NEW o \in orders, EntryBook(o)
  PROVE  LimInv'
<1>1. PICK p : /\ positions' = positions \cup {p} /\ {"strat", "from"} \subseteq DOMAIN p
              /\ p.strat = o.strat.id /\ p.from = o.from
  <2> DEFINE levels == LevelsFor(settings, settings.cfg, TRUE, o.px, settings.ai)
             picked == o.strat.u \in {k.u : k \in picks}
             p == [id |-> nextId, strat |-> o.strat.id, u |-> o.strat.u, leg |-> o.leg, from |-> o.from,
                   gate |-> StrategySide(o.strat), synthetic |-> o.strat.synthetic, free |-> o.free,
                   qty |-> o.qty, entry |-> PaperFill(o.px, TRUE, settings.slip),
                   sl |-> levels.sl, tp |-> levels.tp, pick |-> picked,
                   pickDir |-> IF picked THEN dir ELSE 0, hit |-> None,
                   exit |-> 0, mark |-> 0, reason |-> "", pnl |-> 0]
  <2>1. positions' = positions \cup {p}
    BY DEF EntryBook
  <2>2. {"strat", "from"} \subseteq DOMAIN p /\ p.strat = o.strat.id /\ p.from = o.from
    OBVIOUS
  <2> QED BY <2>1, <2>2
<1>2. /\ orders' = orders \ {o} /\ at' = IF o.from = "loop" THEN "next" ELSE at
      /\ UNCHANGED <<settings, cur, s0>> /\ closed' = closed
  BY DEF EntryBook, trendRest
<1>3. Shapes' /\ Slack' = Slack
  <2>1. IsFiniteSet(positions')
    BY <1>1, FS_AddElement DEF LimInv, Shapes
  <2> QED BY <1>1, <1>2, <2>1 DEF LimInv, Shapes, Slack
<1>4. \A id : /\ Holding(id) \in Nat /\ Banked(id) \in Nat /\ Banked(id)' = Banked(id)
              /\ Holding(id)' \in Nat
              /\ o \in Going(id) => Holding(id)' <= Holding(id) + 1
              /\ o \notin Going(id) => Holding(id)' = Holding(id)
  <2> TAKE id
  <2> DEFINE P == Own(positions, id)
  <2>1. /\ IsFiniteSet(P) /\ Holding(id) \in Nat /\ Banked(id) \in Nat /\ Holding(id) = Cardinality(P)
        /\ Banked(id)' = Banked(id)
    BY <1>2, Counts DEF LimInv, Holding, Banked
  <2>2. CASE o \in Going(id)
    <3>1. Own(positions', id) = P \cup {p}
      BY <1>1, <2>2 DEF Own, Going
    <3> HIDE DEF P
    <3>2. Cardinality(P \cup {p}) = IF p \in P THEN Cardinality(P) ELSE Cardinality(P) + 1
      BY <2>1, FS_AddElement
    <3>3. Holding(id)' = IF p \in P THEN Holding(id) ELSE Holding(id) + 1
      BY <2>1, <3>1, <3>2 DEF Holding
    <3> QED BY <2>1, <2>2, <3>3
  <2>3. CASE o \notin Going(id)
    <3>1. Own(positions', id) = P
      BY <1>1, <2>3 DEF Own, Going
    <3>2. Holding(id)' = Holding(id)
      BY <3>1 DEF Holding
    <3> QED BY <2>1, <2>3, <3>2
  <2> QED BY <2>2, <2>3
<1>5. Slack \in {0, 1} /\ settings.tradeCount \in Int
  BY DEF Slack, LegInv, LimitsStand
<1>6. \A id : Chosen(id) \in {0, 1} /\ Cleared(id) \in {0, 1}
  BY DEF Chosen, Cleared
<1>7. LimitsRead' /\ OneGoing'
  BY <1>2, Gone
<1>8. \A id : /\ Chosen(id)' = Chosen(id) /\ Cleared(id)' = Cleared(id)
              /\ Busy(id) \in {0, 1} /\ Busy(id)' \in {0, 1} /\ Busy(id)' <= Busy(id)
              /\ o \in Going(id) => Busy(id) = 1 /\ Busy(id)' = 0
  BY <1>2, Gone
<1>9. \A id : Holding(id)' + Busy(id)' <= Holding(id) + Busy(id)
  BY <1>4, <1>8
<1>10. Classic'
  <2> SUFFICES ASSUME ~settings.hft, NEW id
               PROVE  Holding(id)' + Busy(id)' + Chosen(id)' <= 1 + Slack
    BY <1>2, <1>3 DEF Classic
  <2>1. Holding(id) + Busy(id) + Chosen(id) <= 1 + Slack
    BY DEF LimInv, Classic
  <2> QED BY <2>1, <1>4, <1>5, <1>6, <1>8, <1>9
<1>11. Counted'
  <2> SUFFICES ASSUME Limited(settings), NEW id
               PROVE  Holding(id)' + Banked(id)' + Busy(id)' + Cleared(id)' <= settings.tradeCount + Slack
    BY <1>2, <1>3 DEF Counted
  <2>1. Holding(id) + Banked(id) + Busy(id) + Cleared(id) <= settings.tradeCount + Slack
    BY DEF LimInv, Counted
  <2> QED BY <2>1, <1>4, <1>5, <1>6, <1>8, <1>9
<1> QED BY <1>3, <1>7, <1>10, <1>11 DEF LimInv

\* Its time is up,
LEMMA WakeKeeps ==
  ASSUME LegInv, LimitsStand, LimInv, NEW o \in orders, o.from = "late", Wake(o)
  PROVE  LimInv'
<1> DEFINE next == [o EXCEPT !.step = "check"]
<1>1. next.from = o.from /\ next.strat = o.strat /\ DOMAIN next = DOMAIN o
  BY DEF LimInv, Shapes
<1>2. /\ settings' = settings /\ at' = at /\ UNCHANGED <<positions, closed, cur, s0>>
      /\ orders' = (orders \ {o}) \cup {next} \/ orders' = orders \ {o}
  BY DEF Wake, trendVars, book
<1> HIDE DEF next
<1>3. CASE orders' = orders \ {o}
  BY <1>2, <1>3, GivenUp
<1>4. CASE orders' = (orders \ {o}) \cup {next}
  BY <1>1, <1>2, <1>4, GoesOn
<1> QED BY <1>2, <1>3, <1>4

\* it is checked,
LEMMA CheckKeeps ==
  ASSUME LegInv, LimitsStand, LimInv, NEW o \in orders, EntryCheck(o)
  PROVE  LimInv'
<1>1. CASE Fails(o)
  BY <1>1, GivenUp DEF Fails, trendRest, book
<1>2. CASE ~Fails(o)
  <2> DEFINE Next1(leg, px, qty) == [o EXCEPT !.step = "book", !.leg = leg, !.px = px, !.qty = qty]
  <2>1. PICK leg, px, qty : orders' = (orders \ {o}) \cup {Next1(leg, px, qty)}
    BY <1>2 DEF EntryCheck
  <2>2. settings' = settings /\ at' = at /\ UNCHANGED <<positions, closed, cur, s0>>
    BY <1>2 DEF EntryCheck, trendVars, book
  <2> DEFINE next == Next1(leg, px, qty)
  <2>3. next.from = o.from /\ next.strat = o.strat /\ DOMAIN next = DOMAIN o
    BY DEF LimInv, Shapes
  <2>4. orders' = (orders \ {o}) \cup {next}
    BY <2>1
  <2> HIDE DEF next
  <2> QED BY <2>2, <2>3, <2>4, GoesOn
<1> QED BY <1>1, <1>2

\* or the operator sends one, which counts for no strategy.
LEMMA ManualEntryKeeps ==
  ASSUME LegInv, LimitsStand, LimInv, ManualEntry
  PROVE  LimInv'
<1>1. /\ settings' = settings /\ at' = at /\ UNCHANGED <<positions, closed, cur, s0>>
      /\ \E o : /\ orders' = orders \cup {o} /\ o.from = "manual" /\ {"from", "strat"} \subseteq DOMAIN o
  <2> DEFINE Sent(t) == [from |-> "manual", strat |-> t, leg |-> NoSide, hft |-> FALSE,
                         free |-> FALSE, step |-> "check", px |-> 0, qty |-> 0]
  <2>1. PICK t : orders' = orders \cup {Sent(t)}
    BY DEF ManualEntry
  <2>2. Sent(t).from = "manual" /\ {"from", "strat"} \subseteq DOMAIN Sent(t)
    OBVIOUS
  <2>3. settings' = settings /\ at' = at /\ UNCHANGED <<positions, closed, cur, s0>>
    BY DEF ManualEntry, trendVars, book
  <2> HIDE DEF Sent
  <2> QED BY <2>1, <2>2, <2>3
<1>2. Shapes' /\ Slack' = Slack /\ LimitsRead'
  BY <1>1 DEF LimInv, Shapes, Slack, LimitsRead, InScan
<1>3. \A id : Going(id)' = Going(id)
  BY <1>1 DEF Going
<1>4. OneGoing'
  BY <1>3 DEF LimInv, OneGoing
<1>5. \A id : /\ Holding(id)' = Holding(id) /\ Banked(id)' = Banked(id) /\ Busy(id)' = Busy(id)
              /\ Chosen(id)' = Chosen(id) /\ Cleared(id)' = Cleared(id)
  BY <1>1, <1>3 DEF Holding, Banked, Busy, Chosen, Cleared
<1>6. Classic' /\ Counted'
  BY <1>1, <1>2, <1>5 DEF LimInv, Classic, Counted
<1> QED BY <1>2, <1>4, <1>6 DEF LimInv

-----------------------------------------------------------------------------
(* The invariant holds.                                                    *)

\* Nothing is open, banked, on its way or chosen.
LEMMA LimInvInit == ASSUME LimitsStand PROVE Init => LimInv
<1> SUFFICES ASSUME Init PROVE LimInv
  OBVIOUS
<1>1. /\ positions = {} /\ closed = {} /\ orders = {} /\ at = "movers" /\ settings \in Settings
  BY SavedStrategies DEF Init, TrendInit
<1>2. Shapes
  BY <1>1, FS_EmptySet DEF Shapes
<1>3. \A id : Holding(id) = 0 /\ Banked(id) = 0 /\ Going(id) = {} /\ Chosen(id) = 0 /\ Cleared(id) = 0
  BY <1>1, FS_EmptySet DEF Holding, Banked, Own, Going, Chosen, Cleared
<1>4. OneGoing /\ LimitsRead
  BY <1>1, <1>3 DEF OneGoing, LimitsRead, InScan
<1>5. \A id : Busy(id) = 0
  BY <1>3 DEF Busy
<1>6. Slack \in {0, 1} /\ settings.tradeCount \in Int
  BY <1>1 DEF Slack, LimitsStand
<1>7. Classic /\ Counted
  BY <1>3, <1>5, <1>6 DEF Classic, Counted, Limited
<1> QED BY <1>2, <1>4, <1>7 DEF LimInv

\* Every step keeps the bounds.
LEMMA LimInvStep == ASSUME LimitsStand PROVE LegInv /\ LimInv /\ [Next]_vars => LimInv'
<1> SUFFICES ASSUME LegInv, LimInv, [Next]_vars PROVE LimInv'
  OBVIOUS
<1>s. ASSUME settings' = settings, UNCHANGED <<orders, cur, s0, positions, closed>>,
             at' = at \/ ~InScan'
      PROVE  LimInv'
  <2>1. Limits(settings') = Limits(settings)
    BY <1>s
  <2> QED BY <1>s, <2>1, Still
<1>1. CASE Loop
  <2>1. CASE TrendTask /\ UNCHANGED <<book, tasks>>
    BY <2>1, <1>s DEF TrendTask, RefreshMovers, LoopReads, Write, ScanStart, ScanPublish, InScan,
       book, tasks
  <2>2. CASE Scan
    <3>1. CASE ScanEnd
      BY <3>1, <1>s DEF ScanEnd, trendRest, book, tasks, InScan
    <3> QED BY <2>2, <3>1, DropsKeep, BeginKeeps, ConsiderKeeps, GateKeeps, ResolveKeeps, SendKeeps
            DEF Scan
  <2>3. CASE \E o \in orders : o.from = "loop" /\ (EntryCheck(o) \/ EntryBook(o))
    BY <2>3, CheckKeeps, BookKeeps
  <2> QED BY <1>1, <2>1, <2>2, <2>3 DEF Loop
<1>2. CASE WatchTask /\ UNCHANGED <<book, tasks>>
  BY <1>2, <1>s DEF WatchTask, WatchReads, Write, book, tasks
<1>3. CASE \E o \in orders : o.from = "late" /\ (Wake(o) \/ EntryCheck(o) \/ EntryBook(o))
  BY <1>3, WakeKeeps, CheckKeeps, BookKeeps
<1>4. CASE \E p \in positions : Guard(p)
  BY <1>4, GuardKeeps
<1>5. CASE \E e \in exits : ExitDue(e)
  BY <1>5, ExitDueKeeps
<1>6. CASE Operator
  <2>1. CASE ChangeSettings /\ UNCHANGED <<book, tasks>>
    <3>1. Limits(settings') = Limits(settings)
      BY <2>1 DEF ChangeSettings, LimitsStand, LegInv
    <3>2. at' = at /\ UNCHANGED <<orders, cur, s0, positions, closed>>
      BY <2>1 DEF ChangeSettings, book, tasks
    <3> QED BY <3>1, <3>2, Still
  <2>2. CASE EngineSwitch
    BY <2>2, <1>s DEF EngineSwitch, tasks
  <2> QED BY <1>6, <2>1, <2>2, ManualEntryKeeps, ManualCloseKeeps, CheckKeeps, BookKeeps DEF Operator
<1>7. CASE MarketMoves /\ UNCHANGED <<book, tasks>>
  BY <1>7, <1>s DEF MarketMoves, book, tasks
<1>8. CASE Tick \/ SecondPasses
  BY <1>8, <1>s DEF Tick, SecondPasses, trendVars, book, tasks
<1>9. CASE UNCHANGED vars
  BY <1>9, <1>s DEF vars, trendVars, book, tasks
<1> QED BY <1>1, <1>2, <1>3, <1>4, <1>5, <1>6, <1>7, <1>8, <1>9 DEF Next

\* Classic mode has one position per strategy and the trade limit is kept, each but
\* for one more when entries are delayed, as long as the operator leaves these
\* settings alone: whatever is on its way while the loop counts, whoever else opens,
\* closes or wakes in between (queue_delayed_entry, trade_limit_allows).
THEOREM EntriesBoundedHolds ==
  ASSUME LimitsStand
  PROVE  Spec => []EntriesBounded
<1>1. LimInv /\ LegInv => EntriesBounded
  <2> SUFFICES ASSUME LimInv, LegInv, NEW id
               PROVE  /\ ~settings.hft => Cardinality(Own(positions, id)) <= 1 + Slack
                      /\ Limited(settings)
                           => Cardinality(Own(positions \cup closed, id)) <= settings.tradeCount + Slack
    BY DEF EntriesBounded, Slack
  <2>1. /\ Holding(id) \in Nat /\ Banked(id) \in Nat
        /\ IsFiniteSet(Own(positions, id)) /\ IsFiniteSet(Own(closed, id))
    BY Counts DEF LimInv
  <2>2. /\ Busy(id) \in {0, 1} /\ Chosen(id) \in {0, 1} /\ Cleared(id) \in {0, 1}
        /\ Slack \in {0, 1} /\ settings.tradeCount \in Int
    BY DEF Busy, Chosen, Cleared, Slack, LegInv, LimitsStand
  <2>3. Own(positions \cup closed, id) = Own(positions, id) \cup Own(closed, id)
    BY DEF Own
  <2>4. Cardinality(Own(positions \cup closed, id)) <= Holding(id) + Banked(id)
        /\ Cardinality(Own(positions \cup closed, id)) \in Nat
    <3> DEFINE P == Own(positions, id)
               C == Own(closed, id)
    <3>1. Holding(id) = Cardinality(P) /\ Banked(id) = Cardinality(C)
      BY DEF Holding, Banked
    <3> HIDE DEF P, C
    <3>2. IsFiniteSet(P) /\ IsFiniteSet(C) /\ Own(positions \cup closed, id) = P \cup C
      BY <2>1, <2>3 DEF P, C
    <3>3. Cardinality(P \cap C) \in Nat
      BY <3>2, FS_Intersection, FS_CardinalityType
    <3>4. /\ Cardinality(P \cup C) = Cardinality(P) + Cardinality(C) - Cardinality(P \cap C)
          /\ Cardinality(P \cup C) \in Nat
      BY <3>2, FS_Union, FS_CardinalityType
    <3>5. Cardinality(P) \in Nat /\ Cardinality(C) \in Nat
      BY <3>2, FS_CardinalityType
    <3>6. Cardinality(P \cup C) <= Cardinality(P) + Cardinality(C)
      BY <3>3, <3>4, <3>5
    <3> QED BY <3>1, <3>2, <3>4, <3>6
  <2>5. ~settings.hft => Holding(id) <= 1 + Slack
    BY <2>1, <2>2 DEF LimInv, Classic
  <2>6. Limited(settings) => Holding(id) + Banked(id) <= settings.tradeCount + Slack
    BY <2>1, <2>2 DEF LimInv, Counted
  <2> QED BY <2>1, <2>2, <2>4, <2>5, <2>6 DEF Holding
<1>2. Init => LegInv /\ LimInv
  BY LegInvInit, LimInvInit
<1>3. LegInv /\ LimInv /\ [Next]_vars => LegInv' /\ LimInv'
  BY LegInvStep, LimInvStep
<1> QED BY <1>1, <1>2, <1>3, PTL DEF Spec
=============================================================================
