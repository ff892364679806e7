------------------------------- MODULE Charts -------------------------------
(***************************************************************************)
(* A chart and what crates/core computes over it.  bars is the live series    *)
(* of one instrument: ticks move the last bar (patch_tick of                *)
(* crates/server/src/market.rs) and open new ones.  The engine and the charts *)
(* recompute every indicator over the whole series on each change, so what    *)
(* they show is a function of bars.  The properties compare a reading with     *)
(* the one the next tick leaves, with the reading of the same name that        *)
(* another engine computes, and with that of the mirrored chart.             *)
(* Most properties are asked of the chart each step leaves, c, as one evaluates  *)
(* a chart when it changes.                                                  *)
(* study selects the family of readings, with the alphabet and the length of   *)
(* its charts; it never changes.                                           *)
(***************************************************************************)
EXTENDS EntryFilters, Patterns

CONSTANTS Studies,   \* the families of readings examined
          Warm,      \* study -> the bars a chart starts with
          Shapes,    \* study -> the bars that can follow
          MaxBars,   \* study -> how long the chart gets
          Inputs     \* study -> the numeric inputs

\* One bar, with what has been traded in it.
Candle == [open : Int \X Nat, high : Int \X Nat, low : Int \X Nat, close : Int \X Nat,
           volume : Int \X Nat]

ASSUME BarsAssumption == \A s \in Studies : Warm[s] \in Seq(Candle) /\ Shapes[s] \subseteq Candle
\* Widths are unsigned in the code.
ASSUME CoreAssumption ==
  "core" \in Studies => Inputs["core"].wick \in Nat /\ Inputs["core"].railW \in Nat
ASSUME VotesAssumption ==
  "votes" \in Studies =>
    LET in == Inputs["votes"]
    IN in.minAgree \in Int /\ in.confirm \in Nat /\ in.strength \in Nat
ASSUME TurnsAssumption == "turns" \in Studies => Inputs["turns"].strength \in Nat

VARIABLES study, bars

vars == <<study, bars>>

o == Inputs[study]

Init == study \in Studies /\ bars = Warm[study]

\* A tick of a later bucket opens a bar; ticks of the same bucket widen it and
\* move its close.  The bars the chart started with are never touched: that
\* seed_bars replaces a whole series by the broker's, and that patch_tick drops the
\* oldest bars past 5000, is left out.
NewBar ==
  /\ Len(bars) < MaxBars[study]
  /\ \E b \in Shapes[study] : bars' = Append(bars, b)
  /\ UNCHANGED study

Tick ==
  LET n == Len(bars) IN
  /\ n > Len(Warm[study])
  /\ \E b \in Shapes[study] \ {bars[n]} :
       /\ b.open = bars[n].open
       /\ QLeq(bars[n].high, b.high) /\ QLeq(b.low, bars[n].low)
       /\ bars' = [bars EXCEPT ![n] = b]
  /\ UNCHANGED study

Next == NewBar \/ Tick

Spec == Init /\ [][Next]_vars

-----------------------------------------------------------------------------
(* Ranges.                                                                 *)

\* The oscillators with their ranges.
Ranges(c) ==
  LET adx == Adx(c, o.p)
      aroon == Aroon(c, o.p)
      H == [lo |-> Zero, hi |-> Hundred]
      W == [lo |-> Int2Q(-100), hi |-> Zero]
      S == [lo |-> Int2Q(-100), hi |-> Hundred]
      U == [lo |-> Int2Q(-1), hi |-> One]
  IN <<[s |-> Rsi(c, o.p), r |-> H], [s |-> RsiWilder(Closes(c), o.p), r |-> H],
       [s |-> Mfi(c, o.p), r |-> H], [s |-> PaneMfi(c, o.p), r |-> H],
       [s |-> PaneStoch(c, o.p), r |-> H], [s |-> StochRsi(c, o.p, o.p, 1, 1).k, r |-> H],
       [s |-> Uo(c, 1, o.p, o.p + 1), r |-> H],
       [s |-> adx.adx, r |-> H], [s |-> adx.plus, r |-> H], [s |-> adx.minus, r |-> H],
       [s |-> aroon.up, r |-> H], [s |-> aroon.down, r |-> H],
       [s |-> WilliamsR(c, o.p), r |-> W], [s |-> PaneWillR(c, o.p), r |-> W],
       [s |-> Tsi(c, o.p, o.p), r |-> S], [s |-> Smiio(c, o.p, o.p, 1).smi, r |-> S],
       [s |-> Smf(c, o.p, 1, o.p, Int2Q(3)).smf, r |-> S], [s |-> Cmf(c, o.p), r |-> U]>>

\* An oscillator that has a value has a finite one within its range, whatever
\* the bars: no flat window, missing volume or first bar makes it divide by zero
\* or lets a stage of its smoothing leave the scale.
OscillatorsInRange ==
  [][\A c \in {bars'} :
    study = "averages" =>
      LET all == Ranges(c) IN
      \A k \in DOMAIN all : \A i \in DOMAIN all[k].s :
        LET v == all[k].s[i] IN
        v # None => IsFinite(v) /\ QLeq(all[k].r.lo, v) /\ QLeq(v, all[k].r.hi)]_vars

-----------------------------------------------------------------------------
(* Entry filters.                                                          *)

Filter(up, base, arg) == [up |-> up, base |-> base, arg |-> arg, lens |-> <<1, 2>>]

\* The filters that know no side, each with its opposite: <<of rising, of falling>>.
\* Left out are those the two sides share (Widens, GtUp), those that take a flat
\* line for a falling one (PaneIncUpAll, PbgAdx, the direction guard), the ratios,
\* the readings that start out upward (see MirroredChart) and the lines fitted to
\* more bars than these charts have.
Opposites ==
  LET Sided(base, args) == {<<Filter(TRUE, base, a), Filter(FALSE, base, a)>> : a \in args}
      Named(up, down) == {<<Filter(TRUE, up, "-"), Filter(TRUE, down, "-")>>}
      Crossing(base) == {<<Filter(TRUE, base, "Above"), Filter(TRUE, base, "Below")>>}
  IN Named("IncUp", "IncDown") \cup Named("IncUpAll", "IncDownAll") \cup Named("GapUp", "GapDown")
     \cup Named("CrossUp", "CrossDown") \cup Crossing("VwapCloseCross") \cup Crossing("PcCross")
     \cup Sided("MeetCross", {"-"}) \cup Sided("MeetClose", {"Vwap", "Bb", "Pc"})
     \cup Sided("Smf", {"-"})
     \cup Sided("Pbr", {"Ao", "Smiio", "Dpo", "Cci", "Sqzmom", "Ad", "Smf", "Cmf"})
     \cup Sided("Pbg", {"Macd", "Obv", "Tsi", "Smiio", "Smf", "Aroon", "Vortex"})
     \cup Sided("Obr", {"Tenkan", "SenkouA"}) \cup Sided("MeetOvl", {"Kijun", "Keltner", "Donchian"})
     \cup Sided("MeetEma", {"-"}) \cup Sided("EmaTrend", {"-"}) \cup Sided("Ema", {"-"})

\* Filters that read only the bars up to the one they are asked about: not the
\* straight lines (Sl) nor the regime line (Oit), which are redrawn.
StandingFilters ==
  UNION {{p[1], p[2]} : p \in Opposites}
  \cup {Filter(TRUE, base, arg) : base \in {"Pbr"}, arg \in {"Mfi", "Uo", "WilliamsR", "Bbpct", "Pvt"}}
  \cup {Filter(TRUE, "Widens", arg) : arg \in {"Bbw", "Atr", "Volosc"}}
  \cup {Filter(up, "Pbg", arg) : up \in BOOLEAN, arg \in {"Ppo", "Stochrsi", "Rsi", "Adx"}}
  \cup {Filter(up, base, "-") : up \in BOOLEAN, base \in {"St10", "MeetSt10"}}
  \cup {Filter(TRUE, base, "Above") : base \in {"St1CloseCross", "BbCross"}}
  \cup {Filter(TRUE, base, "-") : base \in {"PaneCrossUp", "PaneCrossDown", "PaneIncUpAll",
                                             "PaneIncDownAll", "GtUp", "LtUp", "MeetPaneCross"}}

\* Conditions of a strategy on the price the rapid mode looks at.
Conditions == [op : {"gt", "gte", "lt", "lte", "cross_up", "cross_down", "rising", "falling"},
               value : {Int2Q(o.axis)}, on : {"close", "high"}]

-----------------------------------------------------------------------------
(* Closed bars.                                                            *)

\* The series that read the past of a bar only.
CausalSeries(c) ==
  LET bb == Bb(c, o.p, One)
      kel == Keltner(c, o.p, One)
      ch == Chandelier(c, o.p, One)
      ich == Ichimoku(c, 1, o.p, o.p + 1)
      macd == Macd(c, 1, o.p, o.p)
      vortex == Vortex(c, o.p)
  IN <<Hma(c, o.p, 1), bb.up, bb.lo, kel.up, kel.lo, ch.long, ch.short,
       ich.tenkan, ich.kijun, ich.spanA, ich.spanB, Smma(c, o.p),
       SuperTrendLine(c, 1, One), Vwap(c), macd.line, macd.signal, Ao(c, 1, o.p),
       PpoLine(c, 1, o.p), Cci(c, o.p), Dpo(c, o.p), SqzMom(c, o.p), Obv(c), Ad(c),
       Pvt(c), VolOsc(c, 1, o.p), ElderForce(c, o.p), vortex.plus, vortex.minus,
       BbPct(c, o.p, One, 1), Bbw(c, o.p, One)>>

\* The trends the engine reads bar by bar.
CausalTrends(c) ==
  LET srema == SremaAnalyze(c, o)
  IN <<EwTrendState(c, o.period, o.mult, o.pct), FanSwingTrend(c, o.period, o.mult, o.pct),
       PaTrendState(c, o.pivotLen, o.period, o.paMult),
       PaLine(c, o.pivotLen, o.period, o.paMult), LiveTrendDir(c, o.trendLen),
       Series(LAMBDA i : srema[i].state, Len(c)), Series(LAMBDA i : srema[i].line, Len(c))>>

\* What an engine knows on bar i: nothing before a pivot's own at.
KnownBy(piv, i) == SelectSeq(piv, LAMBDA p : p.at <= i)

\* A reading of a closed bar never changes: neither a tick of the bar under way
\* nor a new bar moves a drawn value, a trend or a confirmed pivot of an earlier
\* bar, so that a signal the engine acted on stays on the chart as long as the chart
\* only grows by ticks (patch_tick; not seed_bars).  The regime of the pane consensus
\* looks 2 * minSeg bars ahead and stands after that.
ClosedBarsStand ==
  [][LET closed == IF Len(bars') > Len(bars) THEN Len(bars) ELSE Len(bars) - 1
         Same(s, t, upto) == \A i \in 1 .. upto : s[i] = t[i]
         \* a trend engine returns nothing for a chart too short for it
         Kept(F(_)) == \A all \in {F(bars)}, next \in {F(bars')} :
                         \A k \in DOMAIN all : \/ all[k] = <<>>
                                               \/ Same(all[k], next[k], closed)
         Piv(F(_)) == KnownBy(F(bars), closed) = KnownBy(F(bars'), closed)
     IN CASE study = "averages" -> Kept(CausalSeries)
          [] study = "turns" ->
               /\ Kept(CausalTrends)
               /\ Piv(LAMBDA c : FractalPivots(c, o.strength))
               /\ Piv(LAMBDA c : StrictPivots(c, o.pivotLen))
               /\ Piv(LAMBDA c : ZigZag(c, o.period, o.mult, o.pct))
          [] study = "votes" ->
               Kept(LAMBDA c : <<OvlConsensusDir(c, o, o.minAgree, o.confirm, o.strength)>>)
          [] study = "pane" ->
               \A s \in {PaneSignal(bars, o)}, t \in {PaneSignal(bars', o)} :
                 s.ready => Same(s.regime, t.regime, closed - 2 * o.minSeg)
          [] study = "filters" ->
               \* the verdicts on the last closed bar, before and after
               LET k == IF Len(bars') > Len(bars) THEN 0 ELSE 1 IN
               /\ \A f \in StandingFilters : FilterEval(f, bars', o, 1) = FilterEval(f, bars, o, k)
               /\ \A up \in BOOLEAN :
                    DirectionOpposite(up, bars', o, 1) = DirectionOpposite(up, bars, o, k)
               /\ \A cond \in Conditions :
                    ConditionMet(cond, EmaPoints(HftPrice(bars', 1, cond.on), 1), 1)
                      = ConditionMet(cond, EmaPoints(HftPrice(bars, k, cond.on), 1), k)
          [] study = "core" ->
               \A s \in {VlCoreEngine(bars, o)}, t \in {VlCoreEngine(bars', o)} :
                 Len(bars) >= 10 => Same(s, t, closed)
          [] OTHER -> TRUE]_vars

-----------------------------------------------------------------------------
(* Twins.                                                                  *)

\* The readings that two engines compute, each in its own way, and the bars on
\* which both are defined: where nothing moved they differ by design.
Twins(c) ==
  LET moved(i) == c[i].close # c[i - 1].close
      Closed == Closes(c)
      channel == Donchian(c, o.p)
      typical == SrcArr(c, "hlc3")
      Wide(i) == channel.up[i] # channel.lo[i]
      Spread(i) == \E j \in i + 1 - o.p .. i : c[j].close # c[i].close
      Paid(i) == \E j \in i + 1 - o.p .. i :
                   /\ c[j].volume # Zero
                   /\ typical[j] # typical[j - 1]
      lsma == VlLsma(Closed, o.p)
  IN {<<Rsi(c, o.p), RsiWilder(Closed, o.p), {i \in o.p + 1 .. Len(c) : \E j \in 2 .. i : moved(j)}>>,
      <<Mfi(c, o.p), PaneMfi(c, o.p), {i \in o.p + 1 .. Len(c) : Paid(i)}>>,
      <<WilliamsR(c, o.p), PaneWillR(c, o.p), {i \in o.p .. Len(c) : Wide(i)}>>,
      <<BollingerB(c, o.p, Int2Q(2)), PaneBb(c, o.p), {i \in o.p .. Len(c) : Spread(i)}>>,
      <<BollingerB(c, o.p, One), BbPct(c, o.p, One, 1), {i \in o.p .. Len(c) : Spread(i)}>>,
      <<Hma(c, o.p, 1), VlHma(Closed, o.p, 1, 1), 1 .. Len(c)>>,
      <<lsma.value, Series(LAMBDA i : IF i < o.p THEN None
                                      ELSE ValueAt(Fit(c, i + 1 - o.p, i), i), Len(c)),
        1 .. Len(c)>>,
      <<Ma(c, o.p), SmaOpt(Closed, o.p), 1 .. Len(c)>>,
      <<Ma(c, o.p), SmaArrTolerant(Closed, o.p), 1 .. Len(c)>>,
      <<Ema(c, o.p), EmaSkip(Closed, o.p), 1 .. Len(c)>>}

\* Two engines that compute the same reading agree on it: the sums kept from bar
\* to bar equal those taken afresh over the window, and the averages that skip
\* gaps equal the plain ones where there are none.
TwinsAgree ==
  [][\A c \in {bars'} :
    study = "averages" =>
      LET all == Twins(c) IN
      \A t \in all : \A i \in t[3] : t[1][i] = t[2][i]]_vars

-----------------------------------------------------------------------------
(* The mirrored chart.                                                     *)

\* Prices reflected at o.axis: a rise becomes a fall, a high a low.
Reflect(x) == QSub(Int2Q(2 * o.axis), x)
Mirror(c) ==
  Series(LAMBDA i : [open |-> Reflect(c[i].open), close |-> Reflect(c[i].close),
                     high |-> Reflect(c[i].low), low |-> Reflect(c[i].high),
                     volume |-> c[i].volume], Len(c))

\* Each entry: a reading of the chart, one of its mirror image, and how a value
\* of the first turns into one of the second.
MirroredSeries(c, m) ==
  LET Flip(a) == QSub(Hundred, a)
      bb == Bb(c, o.p, One)        bbM == Bb(m, o.p, One)
      kel == Keltner(c, o.p, One)  kelM == Keltner(m, o.p, One)
      ch == Chandelier(c, o.p, One)   chM == Chandelier(m, o.p, One)
      ich == Ichimoku(c, 1, o.p, o.p + 1)   ichM == Ichimoku(m, 1, o.p, o.p + 1)
      adx == Adx(c, o.p)           adxM == Adx(m, o.p)
      vortex == Vortex(c, o.p)     vortexM == Vortex(m, o.p)
      aroon == Aroon(c, o.p)       aroonM == Aroon(m, o.p)
      Turned(s, t, T(_)) == \A i \in 1 .. Len(c) :
                              t[i] = IF s[i] = None THEN None ELSE T(s[i])
      Same(x) == x
  IN /\ Turned(Ema(c, o.p), Ema(m, o.p), Reflect) /\ Turned(Ma(c, o.p), Ma(m, o.p), Reflect)
     /\ Turned(Smma(c, o.p), Smma(m, o.p), Reflect)
     /\ Turned(Hma(c, o.p, 1), Hma(m, o.p, 1), Reflect) /\ Turned(Vwap(c), Vwap(m), Reflect)
     /\ Turned(bb.up, bbM.lo, Reflect) /\ Turned(kel.up, kelM.lo, Reflect)
     /\ Turned(ch.long, chM.short, Reflect) /\ Turned(ich.spanA, ichM.spanA, Reflect)
     /\ Turned(ich.spanB, ichM.spanB, Reflect)
     /\ Turned(Macd(c, 1, o.p, o.p).hist, Macd(m, 1, o.p, o.p).hist, QNeg)
     /\ Turned(Ao(c, 1, o.p), Ao(m, 1, o.p), QNeg) /\ Turned(Cci(c, o.p), Cci(m, o.p), QNeg)
     /\ Turned(Dpo(c, o.p), Dpo(m, o.p), QNeg) /\ Turned(SqzMom(c, o.p), SqzMom(m, o.p), QNeg)
     /\ Turned(Obv(c), Obv(m), QNeg) /\ Turned(Ad(c), Ad(m), QNeg)
     /\ Turned(Cmf(c, o.p), Cmf(m, o.p), QNeg)
     /\ Turned(ElderForce(c, o.p), ElderForce(m, o.p), QNeg)
     /\ Turned(Tsi(c, o.p, o.p), Tsi(m, o.p, o.p), QNeg)
     /\ Turned(Smiio(c, o.p, o.p, 1).hist, Smiio(m, o.p, o.p, 1).hist, QNeg)
     /\ Turned(Smf(c, o.p, 1, o.p, Int2Q(3)).smf, Smf(m, o.p, 1, o.p, Int2Q(3)).smf, QNeg)
     /\ Turned(RsiWilder(Closes(c), o.p), RsiWilder(Closes(m), o.p), Flip)
     /\ Turned(PaneStoch(c, o.p), PaneStoch(m, o.p), Flip)
     /\ Turned(PaneBb(c, o.p), PaneBb(m, o.p), LAMBDA x : QSub(One, x))
     /\ Turned(adx.plus, adxM.minus, Same) /\ Turned(adx.adx, adxM.adx, Same)
     /\ Turned(vortex.plus, vortexM.minus, Same) /\ Turned(aroon.up, aroonM.down, Same)

\* Pivots, the arrows of the structure they make, the lines through them and the
\* divergences; charts on which a bar is both a high and a low are left out, as
\* the pivots call such a bar a high on either side.
MirroredSwings(c, m) ==
  LET piv == FractalPivots(c, o.strength)
      pivM == FractalPivots(m, o.strength)
      Turn(p) == [p EXCEPT !.isHigh = ~@, !.price = Reflect(@)]
      FlipArrow(x) == [x EXCEPT !.up = ~@]
      Image(T(_), S) == {T(x) : x \in S}
      support == LevelLine(c, o, TRUE)
      resistance == LevelLine(m, o, FALSE)
      strict == StrictPivots(c, o.pivotLen)
      trend == PaTrendState(c, o.pivotLen, o.period, o.paMult)
      trendM == PaTrendState(m, o.pivotLen, o.period, o.paMult)
  IN /\ Len(pivM) = Len(piv) /\ \A k \in DOMAIN piv : pivM[k] = Turn(piv[k])
     /\ StructuralMarkers(pivM) = Image(FlipArrow, StructuralMarkers(piv))
     /\ BreakMarkers(pivM, TRUE) = Image(FlipArrow, BreakMarkers(piv, TRUE))
     /\ AutoTrend(m, o.strength)
          = Series(LAMBDA k : [AutoTrend(c, o.strength)[k] EXCEPT !.value = Reflect(@)],
                   Len(AutoTrend(c, o.strength)))
     /\ NiftyAssignment(m, o, {"AutoTrendline"}).net = -NiftyAssignment(c, o, {"AutoTrendline"}).net
     /\ (support = None) = (resistance = None)
     /\ support # None =>
          /\ resistance.p1 = support.p1 /\ resistance.p2 = support.p2
          /\ resistance.a = QNeg(support.a) /\ resistance.score = support.score
     /\ \A i \in DOMAIN trend : trendM[i] = -trend[i]
     /\ Divergence(m, o.rsiLen, o.strength, 4)
          = Image(LAMBDA d : [d EXCEPT !.bull = ~@], Divergence(c, o.rsiLen, o.strength, 4))

MirroredVotes(c, m) ==
  LET v == OvlVoters(c, o)
      votes == Votes(Series(LAMBDA k : OvlLineDir(v[k], Len(c)), Len(v)), Len(c))
      against == Series(LAMBDA i : -votes[i], Len(c))
      gate == ConsensusGate(c, votes, o.minAgree, o.confirm, o.strength)
      gateM == ConsensusGate(m, against, o.minAgree, o.confirm, o.strength)
  IN \A i \in DOMAIN gate : gateM[i] = -gate[i]

\* The patterns that come in pairs, one for each side of the market.
Pairings ==
  {<<"dragonfly", "gravestone">>, <<"bull_engulfing", "bear_engulfing">>,
   <<"bull_harami", "bear_harami">>, <<"piercing", "dark_cloud">>,
   <<"morning_star", "evening_star">>, <<"three_white_soldiers", "three_black_crows">>,
   <<"bull_marubozu", "bear_marubozu">>, <<"bull_belt_hold", "bear_belt_hold">>}

MirroredPatterns(c, m) ==
  \A i \in DOMAIN c :
    LET s == PatternSignals(c, i)
        t == PatternSignals(m, i)
    IN \A p \in Pairings : t[p[2]] = -s[p[1]] /\ t[p[1]] = -s[p[2]]

MirroredFilters(c, m) ==
  \A p \in Opposites : \A k \in 0 .. 1 :
    /\ FilterEval(p[1], c, o, k) = FilterEval(p[2], m, o, k)
    /\ FilterEval(p[2], c, o, k) = FilterEval(p[1], m, o, k)

BothWays(c) ==
  \E i \in o.strength + 1 .. Len(c) - o.strength :
    \A k \in (i - o.strength .. i + o.strength) :
      QLeq(c[k].high, c[i].high) /\ QLeq(c[i].low, c[k].low)

\* The code knows no side: on the mirrored chart every reading is mirrored, every
\* arrow points the other way, support is resistance and a buy is a sell.  (The
\* zigzags, SuperTrend and the pane regime are not: they start out upward.)
MirroredChart ==
  [][\A c \in {bars'} :
    LET m == Mirror(c) IN
    CASE study = "averages" -> MirroredSeries(c, m)
      [] study = "turns"    -> BothWays(c) \/ MirroredSwings(c, m)
      [] study = "votes"    -> BothWays(c) \/ MirroredVotes(c, m)
      [] study = "filters"  -> BothWays(c) \/ MirroredFilters(c, m)
      [] study = "patterns" -> MirroredPatterns(c, m)
      [] study = "core"     -> LET core == VlCoreEngine(c, o)
                                   coreM == VlCoreEngine(m, o)
                               IN \A i \in DOMAIN c : coreM[i].dir = -core[i].dir
      [] OTHER -> TRUE]_vars

-----------------------------------------------------------------------------
(* Turns and lines.                                                        *)

\* Bar i goes beyond a high, or a low, of that price.
Beaten(c, isHigh, price, i) ==
  IF isHigh THEN QLess(price, c[i].high) ELSE QLess(c[i].low, price)

\* The pivots alternate and move forward, and from the last turn until its own is
\* confirmed none is beaten.
LegsOf(c, zig) ==
  LET Since(k) == IF k = 1 THEN 1 ELSE zig[k - 1].at IN
  \A k \in DOMAIN zig :
    /\ \A i \in Since(k) .. zig[k].at : ~Beaten(c, zig[k].isHigh, zig[k].price, i)
    /\ k > 1 => /\ zig[k].isHigh # zig[k - 1].isHigh
                /\ zig[k - 1].idx <= zig[k].idx /\ zig[k - 1].at < zig[k].at

\* alt alternates and moves forward, and no pivot of piv between an entry's neighbours
\* beats it on its own side.
ChosenOf(c, piv, alt) ==
  LET Between(k) == {q \in DOMAIN piv : /\ piv[q].isHigh = alt[k].isHigh
                                        /\ k = 1 \/ piv[q].idx > alt[k - 1].idx
                                        /\ k = Len(alt) \/ piv[q].idx < alt[k + 1].idx} IN
  \A k \in DOMAIN alt :
    /\ \A q \in Between(k) : ~Beaten(c, alt[k].isHigh, alt[k].price, piv[q].idx)
    /\ k > 1 => alt[k].isHigh # alt[k - 1].isHigh /\ alt[k - 1].idx < alt[k].idx

\* A zigzag goes from one extreme to the next: its pivots alternate and move
\* forward, and none is overtaken before the move against it is confirmed.
\* What the trend lines, waves and fans measure is never half a leg.
LegsAreExtremes ==
  [][\A c \in {bars'} :
    study = "turns" =>
      /\ LegsOf(c, ZigZag(c, o.period, o.mult, o.pct))
      /\ \A piv \in {FractalPivots(c, o.strength)} : ChosenOf(c, piv, AlternatingPivots(piv))]_vars

\* The drawn lines whose corners are prices the market traded at.
CornerLines(c) ==
  CASE study = "turns" ->
         {ProjLine(c, o).hist, WaveFib(c, o).zig, AutoTrend(c, o.strength), PaZig(c, o.pivotLen)}
    [] study = "votes" -> {SlConsensus(c, o).line}
    [] study = "pane"  -> {PaneMaster(c, o)}
    [] OTHER -> {}

\* The lines and levels of a chart belong to it: a line goes forward in time, each
\* corner lies within the bar it is drawn on, a leg to the last close ends there,
\* resistance is above support, and the key levels are few, apart and between the
\* chart's extremes.
LinesTouchTheChart ==
  [][\A c \in {bars'} :
    LET n == Len(c)
        OnBar(p) == /\ p.idx \in 1 .. n
                    /\ QLeq(c[p.idx].low, p.value) /\ QLeq(p.value, c[p.idx].high)
        Forward(line) == \A k \in 2 .. Len(line) : line[k - 1].idx <= line[k].idx
        Leg(line) ==
          line # <<>> => /\ OnBar(line[1])
                         /\ line[1].idx = n \/ line[Len(line)] = Point(n, c[n].close)
    IN /\ \A line \in CornerLines(c) :
            Forward(line) /\ \A k \in DOMAIN line : OnBar(line[k])
       /\ study = "turns" =>
            LET sd == SupplyDemand(c, o)
                levels == KeyLevels(c, o)
                sr == AutoSr(c, o)
                labels == EwLabels(c, o.period, o.mult, o.pct)
                marks == PaMarkers(c, o.pivotLen, o.period, o.paMult)
                arrows == {m.idx : m \in BreakMarkers(FractalPivots(c, o.strength), TRUE)}
            IN /\ Leg(SremaLine(c, o)) /\ Leg(sd.live)
               /\ Forward(sd.struct) /\ Forward(sd.mirror)
               /\ \A ray \in FanRays(c, o, FibRatios) : Forward(ray) /\ OnBar(ray[1])
               /\ \A k \in DOMAIN Pitchfork(c, o) : Forward(Pitchfork(c, o)[k])
               /\ QLess(sr.sup, sr.res)
               /\ Len(levels) <= o.zones
               /\ \A j, k \in DOMAIN levels :
                    /\ QLeq(LowestLow(c), levels[k].price)
                    /\ QLeq(levels[k].price, HighestHigh(c))
                    /\ j < k => levels[j].n >= levels[k].n /\ levels[j].price # levels[k].price
               /\ \A j, k \in DOMAIN labels : j < k => labels[j].idx < labels[k].idx
               /\ \A k \in 2 .. Len(marks) : marks[k - 1].idx < marks[k].idx
               /\ VolumeMarkers(c, o, arrows) \cap arrows = {}]_vars

\* Thinning a line out moves it by at most eps: a point that was dropped lies
\* within eps of the straight piece that replaces it, both axes scaled to 1, and
\* no point is moved or made up.
ThinnedLineFits ==
  [][\A c \in {bars'} :
    study = "turns" =>
      LET n == Len(c)
          full == Series(LAMBDA i : Point(i, c[i].close), n)
          thin == Straighten(full, o.eps)
          Highest == HighestArr(Closes(c), n)[n]
          Lowest  == LowestArr(Closes(c), n)[n]
          span == IF Highest = Lowest THEN One ELSE QSub(Highest, Lowest)
          X(i) == Q(i, n - 1)
          ys == Series(LAMBDA i : QDiv(c[i].close, span), n)
          Y(i) == ys[i]
          \* the square of the distance of point i from the piece a .. b, times the
          \* square of that piece's length, which is length
          Area(a, b, i) == QSub(QMul(QSub(X(b), X(a)), QSub(Y(i), Y(a))),
                                QMul(QSub(Y(b), Y(a)), QSub(X(i), X(a))))
          Length(a, b) == QAdd(QMul(QSub(X(b), X(a)), QSub(X(b), X(a))),
                               QMul(QSub(Y(b), Y(a)), QSub(Y(b), Y(a))))
          Fits(a, b, i) == QLeq(QMul(Area(a, b, i), Area(a, b, i)),
                                QMul(QMul(o.eps, o.eps), Length(a, b)))
      IN /\ \A k \in DOMAIN thin : thin[k] = full[thin[k].idx]
         /\ thin[1].idx = 1 /\ thin[Len(thin)].idx = n
         /\ \A k \in 2 .. Len(thin) : \A i \in thin[k - 1].idx + 1 .. thin[k].idx - 1 :
              Fits(thin[k - 1].idx, thin[k].idx, i)]_vars

-----------------------------------------------------------------------------
(* Verdicts.                                                               *)

\* A high: no bar within s of it is higher.  A bar that is both counts as a high.
HighAt(c, p, s) == \A k \in p - s .. p + s : QLeq(c[k].high, c[p].high)
LowAt(c, p, s)  == ~HighAt(c, p, s) /\ \A k \in p - s .. p + s : QLeq(c[p].low, c[k].low)

\* The swings against d that the market had confirmed by bar i.
SwingsBy(c, i, d, s) ==
  {p \in s + 1 .. i - s : IF d = 1 THEN HighAt(c, p, s) ELSE LowAt(c, p, s)}

\* The close of bar i is beyond the last of them.
BrokenBy(c, i, d, s) ==
  \E p \in SwingsBy(c, i, d, s) :
    /\ \A q \in SwingsBy(c, i, d, s) : q <= p
    /\ IF d = 1 THEN QLess(c[p].high, c[i].close) ELSE QLess(c[i].close, c[p].low)

\* dir turns to d on bar i for a reason.
FlipsOnBreak(c, votes, dir, in) ==
  LET need == IF in.minAgree < 1 THEN 1 ELSE in.minAgree
      wait == IF in.confirm < 1 THEN 1 ELSE in.confirm
      Before(i) == IF i = 1 THEN 0 ELSE dir[i - 1]
      Asked(i, d) == votes[i] * d >= need
      Turns(i, d) == /\ d # Before(i)
                     /\ i >= wait
                     /\ \A j \in i + 1 - wait .. i : Asked(j, d)
                     /\ in.strength < 2 \/ Before(i) = 0 \/ BrokenBy(c, i, d, in.strength)
  IN \A i \in 1 .. Len(c) :
       dir[i] = IF Turns(i, 1) THEN 1 ELSE IF Turns(i, -1) THEN -1 ELSE Before(i)

\* The consensus turns exactly when it should: confirm bars on end, up to this
\* one, have need votes for the other side, and the close is beyond the last swing
\* the market had confirmed by then.  The first verdict needs no swing, and neither
\* does any when strength is below 2; a bar that falls short of need starts the
\* count again.
ConsensusFlipsOnBreak ==
  [][\A c \in {bars'} :
    study = "votes" =>
      LET v == OvlVoters(c, o)
          votes == Votes(Series(LAMBDA k : OvlLineDir(v[k], Len(c)), Len(v)), Len(c))
      IN FlipsOnBreak(c, votes, OvlConsensusDir(c, o, o.minAgree, o.confirm, o.strength), o)]_vars

\* The trend core never turns twice within max(wick, 2) bars, whatever price does:
\* not by a run of closes, not by a crash, not by a level a new pivot moved.
TrendTurnsApart ==
  [][\A c \in {bars'} :
    study = "core" =>
      LET core == VlCoreEngine(c, o)
          turned == {i \in 2 .. Len(c) : core[i].dir # core[i - 1].dir}
      IN \A i, j \in turned : i < j => j - i > o.wick /\ j - i > 2]_vars
=============================================================================
