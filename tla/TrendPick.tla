----------------------------- MODULE TrendPick -----------------------------
(***************************************************************************)
(* Which way the engine trades and which stocks it picks: the movers scan, the *)
(* NIFTY direction and the NIFTY picks of crates/server/src/realtime.rs.       *)
(* Two tasks set the direction.  The engine's loop reads it with REST at hand  *)
(* and goes on to scan; the watch wakes on every tick.  Each publishes a       *)
(* reading in three writes, bull list, bear list, sign, under no common lock,  *)
(* so the writes of the two mix.                                           *)
(* reads[tf] is what the straight lines say of NIFTY on that chart, line by    *)
(* line, or None while the chart is too short; ranks orders the stocks by the  *)
(* day's change.  An await that only reads ends in the step that uses it.      *)
(***************************************************************************)
EXTENDS EntryGate, FiniteSetsExt, SequencesExt

CONSTANTS
  Settings,    \* the settings there may be; each comes with the bounds of its instance
  Starts,      \* those of them a behaviour may start with
  Variants(_), \* what one intervention of the operator turns them into
  Readings,    \* what a chart's lines may say
  Rankings     \* the orders the stocks may be in: sequences of [u, pct]

Timeframes == {"1min", "5min"}
Tasks == {"loop", "watch"}

\* scanner_targets alone makes synthetic strategies; the saved ones are not.
ASSUME SavedStrategies ==
  Starts \subseteq Settings /\ \A s \in Settings : \A t \in s.strategies : ~t.synthetic

VARIABLES
  settings, toggles,
  reads, ranks, moves,
  bull, bear, dir,   \* nifty_bull_filters, nifty_bear_filters, nifty_dir
  bias, cache,       \* mover_bias, movers_cache
  picks, rescan,     \* nifty_picks; last_nifty_scan has been set to 0
  at,                \* where the loop is
  writes,            \* the writes a task has still to make
  sidesOn            \* the sides refresh_nifty_scan found assigned

\* Bounds, which no setting changes: the moves of the market, the interventions of
\* the operator.
MaxMoves   == settings.bounds.moves
MaxToggles == settings.bounds.toggles

market == <<reads, ranks, moves>>
trend  == <<bull, bear, dir>>
trendVars == <<settings, toggles, market, trend, bias, cache, picks, rescan, at, writes, sidesOn>>

NoList == [gainers |-> <<>>, losers |-> <<>>]

TrendInit ==
  /\ settings \in Starts /\ toggles = 0
  /\ reads \in [Timeframes -> {CHOOSE r \in Readings : r # None}]
  /\ ranks = (CHOOSE r \in Rankings : TRUE) /\ moves = 0
  /\ bull = {} /\ bear = {} /\ dir = 0
  /\ bias = 0 /\ cache = NoList
  /\ picks = {} /\ rescan = TRUE
  /\ at = "movers" /\ writes = [t \in Tasks |-> <<>>] /\ sidesOn = {}

Sign(n) == IF n > 0 THEN 1 ELSE IF n < 0 THEN -1 ELSE 0
Take(seq, n) == SubSeq(seq, 1, IF n < Len(seq) THEN n ELSE Len(seq))
Top(n)    == Take(ranks, n)
Bottom(n) == Take(Reverse(ranks), n)
CountIf(seq, P(_)) == Cardinality({i \in DOMAIN seq : P(seq[i])})

-----------------------------------------------------------------------------
(* The environment: the market moves, the operator changes a setting.         *)

MarketMoves ==
  /\ moves < MaxMoves
  /\ moves' = moves + 1
  /\ \/ /\ settings.niftyOn
        /\ \E tf \in EnabledTfs(settings), r \in Readings : reads' = [reads EXCEPT ![tf] = r]
        /\ UNCHANGED ranks
     \/ ranks' \in Rankings /\ UNCHANGED reads
  /\ UNCHANGED <<settings, toggles, trend, bias, cache, picks, rescan, at, writes, sidesOn>>

ChangeSettings ==
  /\ toggles < MaxToggles
  /\ toggles' = toggles + 1
  /\ settings' \in Variants(settings) \cap Settings
  /\ UNCHANGED <<market, trend, bias, cache, picks, rescan, at, writes, sidesOn>>

-----------------------------------------------------------------------------
(* The movers.                                                             *)

\* refresh_movers.  Turned off it keeps the lists it had.
RefreshMovers ==
  /\ at = "movers" /\ at' = "trend"
  /\ IF ~settings.moversOn THEN bias' = 0 /\ UNCHANGED cache
     ELSE LET g == Top(settings.gainN)
              l == Bottom(settings.loseN)
          IN /\ cache' = [gainers |-> g, losers |-> l]
             /\ bias' = MoversAutoBias(g # <<>>, l # <<>>,
                          CountIf(g, LAMBDA r : r.pct >= 0), CountIf(l, LAMBDA r : r.pct < 0),
                          CountIf(ranks, LAMBDA r : r.pct > 0), CountIf(ranks, LAMBDA r : r.pct < 0))
  /\ UNCHANGED <<settings, toggles, market, trend, picks, rescan, writes, sidesOn>>

\* nifty_mover_lists: the lists of the movers scan, if it has ever made any.
NiftyMoverLists ==
  IF cache # NoList THEN cache
  ELSE [gainers |-> Top(settings.topN), losers |-> Bottom(settings.topN)]

-----------------------------------------------------------------------------
(* The direction.                                                          *)

\* nifty_assignment_for: the lines that rise, those that fall, their difference.
Assignment(tf) ==
  IF reads[tf] = None THEN None
  ELSE LET Going(d) == {l \in DOMAIN reads[tf] : reads[tf][l] = d}
       IN [bull |-> Going(1), bear |-> Going(-1),
           net |-> Cardinality(Going(1)) - Cardinality(Going(-1))]

\* resolve_nifty_direction: two charts must agree; one alone decides.
Resolve ==
  LET tf == NiftyTimeframe(settings)
      a == Assignment("1min")
      b == Assignment("5min")
  IN IF tf # "both" THEN Assignment(tf)
     ELSE IF a = None THEN b
     ELSE IF b = None THEN a
     ELSE IF Sign(a.net) = Sign(b.net) THEN b ELSE None

ApplyWrites(r) == <<[on |-> "bull", to |-> r.bull], [on |-> "bear", to |-> r.bear],
                    [on |-> "dir", to |-> Sign(r.net)]>>
ClearWrites == <<[on |-> "off", to |-> 0], [on |-> "bull", to |-> {}], [on |-> "bear", to |-> {}]>>
\* Mutant: a reading with the sign that is up is not published.
ReadingWritesOnFlip ==
  IF Resolve = None \/ Sign(Resolve.net) = dir THEN <<>> ELSE ApplyWrites(Resolve)
ReadingWrites == IF Resolve = None THEN <<>> ELSE ApplyWrites(Resolve)

\* refresh_nifty_trend and refresh_nifty_flip, up to their writes.
LoopReads ==
  /\ at = "trend" /\ at' = "apply"
  /\ writes' = [writes EXCEPT !["loop"] = IF settings.niftyOn THEN ReadingWrites ELSE ClearWrites]
  /\ UNCHANGED <<settings, toggles, market, trend, bias, cache, picks, rescan, sidesOn>>

WatchReads ==
  /\ settings.niftyOn /\ writes["watch"] = <<>>
  /\ writes' = [writes EXCEPT !["watch"] = ReadingWrites]
  /\ UNCHANGED <<settings, toggles, market, trend, bias, cache, picks, rescan, at, sidesOn>>

\* apply_nifty_direction and clear_nifty_direction, write by write.  A change of
\* sign asks for new picks.
Write(t) ==
  /\ writes[t] # <<>>
  /\ LET w == Head(writes[t]) IN
     /\ bull' = IF w.on = "bull" THEN w.to ELSE bull
     /\ bear' = IF w.on = "bear" THEN w.to ELSE bear
     /\ dir'  = IF w.on \in {"dir", "off"} THEN w.to ELSE dir
     /\ rescan' = (rescan \/ (w.on = "dir" /\ w.to # dir))
  /\ writes' = [writes EXCEPT ![t] = Tail(@)]
  /\ UNCHANGED <<settings, toggles, market, bias, cache, picks, at, sidesOn>>

-----------------------------------------------------------------------------
(* The picks.                                                              *)

\* refresh_nifty_scan, up to its wait for the lists.  It runs when asked for, and
\* else when its 15 seconds are over.  Without a direction the picks stay.
ScanStart ==
  /\ at = "apply" /\ writes["loop"] = <<>>
  /\ LET on == {side \in Sides : (IF side = "CE" THEN bull ELSE bear) # {}} IN
     \/ /\ ~settings.niftyOn
        /\ picks' = {} /\ at' = "engine" /\ UNCHANGED <<rescan, sidesOn>>
     \/ /\ settings.niftyOn /\ ~rescan
        /\ at' = "engine" /\ UNCHANGED <<picks, rescan, sidesOn>>
     \/ /\ settings.niftyOn
        /\ rescan' = FALSE /\ sidesOn' = on
        /\ at' = IF on = {} THEN "engine" ELSE "lists"
        /\ UNCHANGED picks
  /\ UNCHANGED <<settings, toggles, market, trend, bias, cache, writes>>

\* Gainers are picked for the bullish side, losers for the bearish one.
ScanPublish ==
  /\ at = "lists" /\ at' = "drops"
  /\ LET lists == NiftyMoverLists
         List(side) == IF side = "CE" THEN lists.gainers ELSE lists.losers
     IN picks' = UNION {{[u |-> List(side)[i].u, side |-> side] : i \in DOMAIN List(side)} :
                          side \in sidesOn}
  /\ UNCHANGED <<settings, toggles, market, trend, bias, cache, rescan, writes, sidesOn>>

\* scanner_targets: what the movers and the picks make of the side in force.
\* The picks of the NIFTY scan ask for their list only, not for the side.
Target(u, side) == [id |-> <<u, side>>, u |-> u, category |-> IF side = "CE" THEN "BULLISH" ELSE "BEARISH",
                    order |-> "BUY", group |-> "other", instrument |-> "EQUITY", segment |-> "NSE_EQ",
                    timeframe |-> "", synthetic |-> TRUE]
ScannerTargets(s) ==
  LET allowed == SideAllowed(s.filters, ActiveSide(s, dir, bias))
      Named(list) == {list[i].u : i \in DOMAIN list}
      movers == {<<u, "CE">> : u \in Named(cache.gainers)} \cup {<<u, "PE">> : u \in Named(cache.losers)}
                \cup (s.indices \X Sides)
      assigned == {side \in Sides : (IF side = "CE" THEN bull ELSE bear) # {}}
  IN {Target(m[1], m[2]) : m \in {x \in movers : s.moversOn /\ x[2] \in allowed}}
     \cup {Target(p.u, p.side) : p \in {x \in picks : s.niftyOn /\ x.side \in assigned}}

TrendTask == RefreshMovers \/ LoopReads \/ Write("loop") \/ ScanStart \/ ScanPublish
WatchTask == WatchReads \/ Write("watch")
=============================================================================
