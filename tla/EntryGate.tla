----------------------------- MODULE EntryGate -----------------------------
(***************************************************************************)
(* The rules in front of an entry, from crates/server/src/realtime.rs: which  *)
(* side of the market trades, which filters gate a strategy and how their      *)
(* verdicts are combined, on which chart and timeframe the rule runs, when it  *)
(* may run at all, and how often.                                          *)
(* A side is "CE", the bullish one, or "PE".  A filter is a record: sides, the *)
(* sides its name is read as, kind, "plain", "arrow" or "stream", and group,   *)
(* the research group of a stream flag.  s stands for the settings.          *)
(***************************************************************************)
EXTENDS Integers, Sequences, FiniteSets

None == <<>>
NoTime == -1
Sides == {"CE", "PE"}
NoSide == "none"
Other(side) == IF side = "CE" THEN "PE" ELSE "CE"
SideOf(sign) == IF sign > 0 THEN "CE" ELSE IF sign < 0 THEN "PE" ELSE NoSide
FirstOf(a, b) == IF a # NoSide THEN a ELSE b

\* strategy_is_bull: the category decides; without one, the side it orders.
StrategySide(strat) ==
  IF \/ strat.category = "BULLISH"
     \/ strat.category # "BEARISH" /\ strat.order = "BUY"
  THEN "CE" ELSE "PE"

-----------------------------------------------------------------------------
(* The side that trades.                                                   *)

\* movers_auto_bias: gainers and losers wanted, how many of each agree, and the
\* breadth of the market, which decides a tie.
MoversAutoBias(wantG, wantL, pos, neg, up, down) ==
  LET Sign(a, b) == IF a > b THEN 1 ELSE IF b > a THEN -1 ELSE 0
  IN IF wantG /\ wantL THEN IF pos # neg THEN Sign(pos, neg) ELSE Sign(up, down)
     ELSE IF wantG THEN 1 ELSE IF wantL THEN -1 ELSE 0

\* auto_option_side, from the NIFTY direction dir and the bias of the movers.
AutoOptionSide(s, dir, bias) ==
  FirstOf(IF s.niftyOn THEN SideOf(dir) ELSE NoSide,
          IF s.moversOn THEN SideOf(bias) ELSE NoSide)

\* effective_run_in_side: the override, or NoSide when it is off.
EffectiveRunInSide(s, dir, bias) ==
  IF ~s.runIn THEN NoSide
  ELSE FirstOf(IF s.runInAuto THEN AutoOptionSide(s, dir, bias) ELSE NoSide, s.runInSide)

ActiveSide(s, dir, bias) ==
  FirstOf(EffectiveRunInSide(s, dir, bias), AutoOptionSide(s, dir, bias))

\* The option bought, in resolve_option_strategy: the override, the dropdown, the
\* live direction, and only then the side of the strategy.
OptionSide(s, strat, dir, bias) ==
  FirstOf(EffectiveRunInSide(s, dir, bias),
  FirstOf(s.optionSide,
  FirstOf(AutoOptionSide(s, dir, bias), StrategySide(strat))))

\* side_allowed, over the filters that are ticked.
FilterSides(filters) == UNION {f.sides : f \in filters}
\* Mutant: the side in force is not asked.
SideAllowedBoth(filters, active) == FilterSides(filters)
SideAllowed(filters, active) ==
  {side \in FilterSides(filters) : active = NoSide \/ active = side}

-----------------------------------------------------------------------------
(* The filters.                                                            *)

Gating(filters, side) == {f \in filters : f.kind # "stream" /\ side \in f.sides}

\* active_filter_groups and stream_allows: a stream flag names one side only, and
\* any other key would count as bearish.
Groups(filters, side) == {f.group : f \in {g \in filters : g.kind = "stream" /\ side \in g.sides}}
StreamAllows(filters, strat) ==
  \/ Groups(filters, "CE") \cup Groups(filters, "PE") = {}
  \/ strat.group = "other"
  \/ strat.group \in Groups(filters, StrategySide(strat))

\* template_for_direction: saved settings that gate in place of these, by the bias
\* of the movers or else by the side of the strategy.  A template is a sequence of
\* at most one record.
GateSettings(s, strat, bias) ==
  LET moving == IF s.moversOn /\ bias # 0 THEN s.moverTemplate[SideOf(bias)] ELSE None
      saved  == IF moving # None THEN moving ELSE s.template[StrategySide(strat)]
  IN IF saved = None THEN s ELSE saved[1]

\* filter_gate_facts.  Arrows are one trigger, and a filter without a value
\* passes; on the other side every arrow counts and only a plain yes does.
FilterGate(filters, s, side, verdict) ==
  LET own    == Gating(filters, side)
      arrows == {f \in own : f.kind = "arrow"}
      Passing(fs) == {f \in fs : verdict[f.name] # "no"}
      One(set) == IF set = {} THEN 0 ELSE 1
      pass  == Cardinality(Passing(own \ arrows)) + One(Passing(arrows))
      total == Cardinality(own \ arrows) + One(arrows)
      opp   == Gating(filters, Other(side))
      against == {f \in opp : verdict[f.name] = "yes"}
  IN /\ s.allInOne => pass = total
     /\ s.brain => /\ opp = {} \/ 2 * Cardinality(against) < Cardinality(opp)
                   /\ total = 0 \/ 100 * pass >= s.threshold * total
     /\ ~s.brain /\ ~s.allInOne => total = 0 \/ 2 * pass > total

-----------------------------------------------------------------------------
(* Charts and timeframes.                                                  *)

\* strat_category and run_mode_of.
Category(strat) ==
  IF strat.instrument \in {"INDEX", "OPTIDX"} \/ strat.segment = "IDX_I" THEN "index"
  ELSE IF strat.segment = "MCX_COMM" \/ strat.instrument \in {"FUTCOM", "OPTFUT"} THEN "comm"
  ELSE "fno"
RunModeOf(s, strat) == IF s.premiumOnly THEN "premium" ELSE s.run[Category(strat)]
OnPremium(mode) == mode \notin {"spot", "futures"}

\* enabled_engine_tfs, mtf_pair and nifty_timeframe.
EnabledTfs(s) == IF s.tfs = {} THEN {"5min"} ELSE s.tfs
FirstTf(s) == IF "1min" \in EnabledTfs(s) THEN "1min" ELSE "5min"
MtfPair(s) == IF EnabledTfs(s) = {"1min", "5min"} THEN <<"1min", "5min">> ELSE None
NiftyTimeframe(s) == IF Cardinality(EnabledTfs(s)) >= 2 THEN "both" ELSE FirstTf(s)

-----------------------------------------------------------------------------
(* When, and how often.  A time that is off or does not parse is NoTime.        *)

\* sessions_active and sessions_gate_ok: a list with a window replaces the older
\* pair of times altogether.
Windows(s) == {w \in s.sessions : w.on /\ NoTime \notin {w.start, w.end} /\ w.start < w.end}
TimeGateOk(s, now) ==
  /\ s.startAfter # NoTime => now >= s.startAfter
  /\ s.noTradeAfter # NoTime => now <= s.noTradeAfter
StrategyTimeOk(s, now) ==
  IF Windows(s) # {} THEN \E w \in Windows(s) : w.start <= now /\ now <= w.end
  ELSE TimeGateOk(s, now)

\* trade_limit_allows.
TradeLimitAllows(s, done) == s.tradeLimit /\ ~s.aiTrades /\ s.tradeCount > 0 => done < s.tradeCount

\* hft_ops_budget and hft_allow: the orders of the last second.
HftOpsBudget(ops) == IF ops < 1 THEN 1 ELSE IF ops > 30 THEN 30 ELSE ops
HftAllow(s, recent) == s.hft => recent < HftOpsBudget(s.hftOps)
=============================================================================
