---------------------------- MODULE EntryFilters ----------------------------
(***************************************************************************)
(* The indicator filters an entry passes: filter_eval_inner and its helpers   *)
(* in crates/server/src/realtime.rs, over the bars c the engine evaluates.    *)
(* A filter is a record: up, the side its name begins with (Bull or Bear, and *)
(* Bull for a name without one), base, the rest of its name, arg, the         *)
(* indicator in it, and lens, the numbers in it.  Its verdict is "yes", "no" or "none"; the  *)
(* code's None, no value yet or no such filter, does not block an entry.      *)
(* k counts bars back from the newest: 0 is the bar under way.               *)
(* o are the numeric inputs, o.core and o.oi those of the two engines whose    *)
(* names clash; the lengths the code fixes are o.p and 2 * o.p, or o.emas.     *)
(* Fisher, the one logarithm among the indicators, is not modelled.           *)
(***************************************************************************)
EXTENDS Consensus, VlCore, OiTrend, TLC

\* series_value counts the drawn points of a series from its end.
Points(arr) == SelectSeq(PointsFrom(arr), LAMBDA x : x # None)
Heights(line) == Series(LAMBDA j : line[j].value, Len(line))
At(pts, k) == IF Len(pts) <= k THEN None ELSE pts[Len(pts) - k]

\* a > b on the upper side, a < b on the lower: None if either is.
Beats(up, a, b) ==
  IF None \in {a, b} THEN "none" ELSE IF Ahead(up, a, b) THEN "yes" ELSE "no"

Crosses(up, a, wasA, b, wasB) ==
  IF None \in {a, wasA, b, wasB} THEN "none"
  ELSE IF Ahead(up, a, b) /\ ~Ahead(up, wasA, wasB) THEN "yes" ELSE "no"

\* Some(a && b) after both have a value.
AndThen(v, w) == IF "none" \in {v, w} THEN "none" ELSE IF v = "yes" THEN w ELSE "no"

\* unwrap_or.
Or(v, missing) == IF v = "none" THEN missing ELSE v

\* Every line or pair agrees; those without a value are passed over.
AllAgree(verdicts) == IF "no" \in verdicts THEN "no" ELSE "yes"

Close(c, k) == IF Len(c) <= k THEN None ELSE c[Len(c) - k].close

\* close_vs_series, cross_close_ind and series_dir on the points of a series.
CloseBeats(up, c, pts, k)   == Beats(up, Close(c, k), At(pts, k))
CloseCrosses(up, c, pts, k) == Crosses(up, Close(c, k), Close(c, k + 1), At(pts, k), At(pts, k + 1))
Moves(up, pts, k)           == Beats(up, At(pts, k), At(pts, k + 1))
PairBeats(up, pair, k)      == Beats(up, At(pair[1], k), At(pair[2], k))
PairCrosses(up, pair, k) ==
  Crosses(up, At(pair[1], k), At(pair[1], k + 1), At(pair[2], k), At(pair[2], k + 1))

-----------------------------------------------------------------------------
(* The series the filters name.                                             *)

\* ema_val: an average of one bar is the candle itself, on every bar.
EmaPoints(c, n) == IF n <= 1 THEN Closes(c) ELSE Points(Ema(c, n))
St(c, factor, o) == Points(SuperTrendLine(c, o.p, factor))
BbMid(c, o) == Points(Bb(c, o.p, Int2Q(2)).mid)
PcMid(c, o) == Points(Donchian(c, o.p).mid)

PaneLine(name, c, o) ==
  CASE name = "Ao"        -> Points(Ao(c, 1, o.p))
    [] name = "Smiio"     -> Points(Smiio(c, 1, o.p, o.p).smi)
    [] name = "Dpo"       -> Points(Dpo(c, o.p))
    [] name = "Mfi"       -> Points(Mfi(c, o.p))
    [] name = "Uo"        -> Points(Uo(c, 1, o.p, o.p + 1))
    [] name = "WilliamsR" -> Points(WilliamsR(c, o.p))
    [] name = "Bbpct"     -> Points(BbPct(c, o.p, Int2Q(2), 1))
    [] name = "Pvt"       -> Points(Pvt(c))
    [] name = "Ad"        -> Points(Ad(c))
    [] name = "Smf"       -> Points(Smf(c, o.p, o.p, o.p, Int2Q(3)).smf)
    [] name = "Cmf"       -> Points(Cmf(c, o.p))
    [] name = "Cci"       -> Points(Cci(c, o.p))
    [] name = "Sqzmom"    -> Points(SqzMom(c, o.p))
    [] name = "Rsi"       -> Points(Rsi(c, o.p))
    [] name = "Obv"       -> Points(Obv(c))
    [] name = "Tsi"       -> Points(Tsi(c, o.p, 1))

\* Those that only widen.
WideLine(name, c, o) ==
  CASE name = "Bbw"    -> Points(Bbw(c, o.p, Int2Q(2)))
    [] name = "Atr"    -> Points(Atr(c, o.p))
    [] name = "Volosc" -> Points(VolOsc(c, 1, o.p))

\* PANE_PAIRS: a main line and its signal.
PanePair(name, c, o) ==
  CASE name = "Macd"     -> LET m == Macd(c, 1, o.p, o.p)
                            IN <<Points(m.line), Points(m.signal)>>
    [] name = "Ppo"      -> LET m == Ppo(c, 1, o.p, o.p)
                            IN <<Points(m.line), Points(m.signal)>>
    [] name = "Smiio"    -> LET m == Smiio(c, 1, o.p, o.p)
                            IN <<Points(m.smi), Points(m.signal)>>
    [] name = "Stochrsi" -> LET m == StochRsi(c, o.p, o.p, 1, o.p)
                            IN <<Points(m.k), Points(m.d)>>
    [] name = "Aroon"    -> LET m == Aroon(c, o.p) IN <<Points(m.up), Points(m.down)>>
    [] name = "Vortex"   -> LET m == Vortex(c, o.p) IN <<Points(m.plus), Points(m.minus)>>
    [] name = "Adx"      -> LET m == Adx(c, o.p) IN <<Points(m.plus), Points(m.minus)>>
    [] name = "Smf"      -> LET m == Smf(c, o.p, o.p, o.p, Int2Q(3))
                            IN <<Points(m.smf), Points(m.signal)>>
    [] name = "Vl"       -> LET m == Vl(c, o.p, 1, o.eps)
                            IN <<Heights(m.main), Heights(m.signal)>>

PanePairs == {"Macd", "Ppo", "Smiio", "Stochrsi", "Aroon", "Vortex", "Adx"}

\* PANE_SINGLE_LINES: all the lines of smiio and smf, the only one of the others.
PaneSingles(c, o) ==
  {PaneLine(name, c, o) : name \in {"Ao", "Smiio", "Dpo", "Mfi", "Uo", "WilliamsR", "Bbpct", "Pvt",
                                    "Ad", "Smf", "Cmf", "Cci", "Sqzmom", "Rsi", "Obv", "Tsi"}}
  \cup {PanePair("Smiio", c, o)[2], Points(Smiio(c, 1, o.p, o.p).hist),
        PanePair("Smf", c, o)[2], Points(Smf(c, o.p, o.p, o.p, Int2Q(3)).hist)}

\* overlay_series; the trend core is drawn thinned out.
OverlayLine(name, c, o) ==
  CASE name = "Hma"       -> Points(Hma(c, o.p, 1))
    [] name = "Tenkan"    -> Points(Ichimoku(c, 1, o.p, o.p + 1).tenkan)
    [] name = "Kijun"     -> Points(Ichimoku(c, 1, o.p, o.p + 1).kijun)
    [] name = "SenkouA"   -> Points(Ichimoku(c, 1, o.p, o.p + 1).spanA)
    [] name = "Keltner"   -> Points(Keltner(c, o.p, Int2Q(2)).mid)
    [] name = "Donchian"  -> Points(Donchian(c, o.p).mid)
    [] name = "TrendCore" ->
         LET core == VlCoreEngine(c, o.core)
             drawn == SelectSeq(Series(LAMBDA i : Point(i, core[i].val), Len(c)),
                                LAMBDA p : p.value # None)
         IN Heights(Straighten(drawn, o.eps))

\* sl_series; support and resistance carry their extension past the last bar.
StraightLine(name, c, o) ==
  Heights(CASE name \in {"ElliottWave", "SupplyDemand"} -> EwTrend(c, o)
            [] name = "PriceAction"     -> PaTrendLine(c, o)
            [] name = "ZigZag"          -> TrendLine(c, o)
            [] name = "ComboMaster"     -> TrendLine(c, [o EXCEPT !.look = o.trendLook])
            [] name = "PaneConsensus"   -> PaneMaster(c, o)
            [] name = "AutoTrendline"   -> AutoTrend(c, o.strength)
            [] name = "Pitchfork"       -> IF Pitchfork(c, o) = <<>> THEN <<>>
                                           ELSE Pitchfork(c, o)[1]
            [] name = "TrendProjection" -> ProjLine(c, o).hist
            [] name \in {"GannFan", "FibFan"} -> FanTrend(c, o)
            [] name = "Srema"           -> SremaT(c, o)
            [] name = "Support"         -> LevelTrend(c, o, TRUE)
            [] name = "Resistance"      -> LevelTrend(c, o, FALSE))

-----------------------------------------------------------------------------
(* One filter.                                                             *)

\* gap_dir: the bar opens beyond the whole bar before it.
Gap(up, c, k) ==
  IF Len(c) <= k + 1 THEN "none"
  ELSE Beats(up, c[Len(c) - k].open,
             IF up THEN c[Len(c) - k - 1].high ELSE c[Len(c) - k - 1].low)

\* ema_family: level, direction and crossing.
EmaFilter(f, c, k) ==
  LET A == EmaPoints(c, f.lens[1])
      B == EmaPoints(c, f.lens[2])
  IN CASE f.base = "MeetEma"  -> PairBeats(f.up, <<A, B>>, k)
       [] f.base = "EmaTrend" -> Moves(f.up, A, k)
       [] f.base = "Ema"      -> PairCrosses(f.up, <<A, B>>, k)

\* IncUpAll and IncDownAll: the second comparison is made only if the first holds.
Ordered(up, c, o, k) ==
  LET E(j) == At(EmaPoints(c, o.emas[j]), k)
      first == Beats(up, E(1), E(2))
  IN IF first = "yes" THEN Beats(up, E(2), E(3)) ELSE first

\* The main line and its gap to the signal are not shrinking.
PbgHold(up, pair, k) ==
  LET m == At(pair[1], k)  was == At(pair[1], k + 1)
      s == At(pair[2], k)  old == At(pair[2], k + 1)
  IN IF None \in {m, s, was, old} THEN "none"
     ELSE IF /\ Ahead(up, m, s) /\ ~Ahead(up, was, m)
             /\ ~Ahead(up, QSub(was, old), QSub(m, s)) THEN "yes" ELSE "no"

\* Turned round: a fall of all three below the histogram is the rising side.
PbgSmiio(up, c, o, k) ==
  LET all == Smiio(c, 1, o.p, o.p)
      v == Points(all.smi)  s == Points(all.signal)  h == Points(all.hist)
      Falls(pts) == Moves(~up, pts, k)
  IN IF "none" \in {Falls(v), Falls(s), Falls(h)} THEN "none"
     ELSE AllAgree({PairBeats(~up, <<v, h>>, k), PairBeats(~up, <<s, h>>, k),
                    Falls(v), Falls(s), Falls(h)})

PbgVortex(up, pair, k) ==
  LET moves == {Moves(up, pair[1], k), Moves(~up, pair[2], k)}
  IN IF "none" \in moves THEN "none" ELSE AllAgree(moves \cup {PairBeats(up, pair, k)})

\* The gauge rises for one side and falls for the other.
PbgAdx(up, c, o, k) ==
  LET all == Adx(c, o.p)
      a == Points(all.adx)  p == Points(all.plus)  m == Points(all.minus)
      Gauge == Moves(up, a, k)
      Width(j) == QAbs(QSub(At(p, j), At(m, j)))
  IN IF "none" \in {Gauge, Moves(up, p, k), Moves(up, m, k)} THEN "none"
     ELSE IF /\ Gauge = "yes" /\ PairBeats(up, <<p, m>>, k) = "yes"
             /\ ~Ahead(up, At(p, k + 1), At(p, k)) /\ ~Ahead(up, At(m, k), At(m, k + 1))
             /\ QLeq(Width(k + 1), Width(k)) THEN "yes" ELSE "no"

\* rolling_signal: a mean over the line's own points.  The weights of Ema are
\* those of EmaArr; a point with no mean yet does not block.
BeatsOwnMean(up, pts, mean, k) ==
  IF At(pts, k) = None THEN "none"
  ELSE LET m == mean[Len(pts) - k] IN IF m = None THEN "yes" ELSE Beats(up, At(pts, k), m)

PbgFilter(f, c, o, k) ==
  LET Line == PaneLine(f.arg, c, o) IN
  CASE f.arg \in {"Macd", "Ppo", "Stochrsi"} -> PairBeats(f.up, PanePair(f.arg, c, o), k)
    [] f.arg \in {"Tsi", "Rsi"}     -> BeatsOwnMean(f.up, Line, EmaArr(Line, o.p), k)
    [] f.arg = "Obv"                -> BeatsOwnMean(f.up, Line, SmaArr(Line, o.p), k)
    [] f.arg = "Smiio"              -> PbgSmiio(f.up, c, o, k)
    [] f.arg \in {"Smf", "Aroon"}   -> PbgHold(f.up, PanePair(f.arg, c, o), k)
    [] f.arg = "Vortex"             -> PbgVortex(f.up, PanePair("Vortex", c, o), k)
    [] f.arg = "Adx"                -> PbgAdx(f.up, c, o, k)

\* asr_gap_rising: the room between the close and the zigzag's live support or
\* resistance, a series of its own, has grown over the last seven bars.
RoomGrows(up, c, o, k) ==
  LET n == Len(c)
      piv == ZigZag(c, o.period, o.mult, o.pct)
      Known(i) == SelectSeq(piv, LAMBDA p : p.at <= i)
      Lowest(i)  == LowestArr(Lows(c), i)[i]
      Highest(i) == HighestArr(Highs(c), i)[i]
      \* the extreme of the leg under way, from the bar that confirmed the last turn
      Ext(i, rising) ==
        LET from == IF Known(i) = <<>> THEN 1 ELSE Known(i)[Len(Known(i))].at
        IN IF rising THEN HighestArr(Highs(c), i - from + 1)[i]
           ELSE LowestArr(Lows(c), i - from + 1)[i]
      Room(i) ==
        LET turns == Known(i)
            rising == turns = <<>> \/ ~turns[Len(turns)].isHigh
            Last == IF turns = <<>> THEN IF rising THEN Lowest(i) ELSE Highest(i)
                    ELSE turns[Len(turns)].price
        IN IF up THEN QSub(c[i].close, IF rising THEN Last ELSE Ext(i, FALSE))
           ELSE QSub(IF rising THEN Ext(i, TRUE) ELSE Last, c[i].close)
      to == n - k
      from == IF to < 8 THEN 1 ELSE to - 6
  IN IF n < 4 \/ to - from < 3 THEN "none" ELSE Beats(TRUE, Room(to), Room(from))
OitMoves(up, c, o, k) == Moves(up, RegimeLine(c, o.oi), k)

\* sl_consensus_at, sl_consensus_ok and sl_consensus_flip: the filter's own gate.
ConsensusAt(c, o, k) ==
  IF Len(c) <= k THEN 0
  ELSE SlConsensusDir(c, o, o.scNeed, o.scConfirm, o.scStrength)[Len(c) - k]
ConsensusHolds(up, c, o, k) == IF up THEN ConsensusAt(c, o, k) >= 0 ELSE ConsensusAt(c, o, k) <= 0
ConsensusFlips(up, c, o, k) ==
  LET want == IF up THEN 1 ELSE -1
  IN ConsensusAt(c, o, k) = want /\ (Len(c) <= k + 1 \/ ConsensusAt(c, o, k + 1) # want)

\* arrow_gate: the direction has just turned; the fitted lines, whose slope is one
\* number, are read through the arrows of the structure instead.
Fresh(now, was) == IF now = "none" \/ (now = "yes" /\ was # "yes") THEN "yes" ELSE "no"
ArrowFilter(f, c, o, k) ==
  LET Turned(pts) == Fresh(Moves(f.up, pts, k), Moves(f.up, pts, k + 1))
      marked == TrendFlipAt(c, k, f.up, o.strength)
  IN CASE f.arg = "Consensus" -> IF Len(c) <= k \/ ConsensusFlips(f.up, c, o, k)
                                 THEN "yes" ELSE "no"
       [] f.arg = "Oit"       -> Turned(RegimeLine(c, o.oi))
       [] f.arg \in {"Srema", "AutoTrendline", "Pitchfork", "TrendProjection", "GannFan",
                     "FibFan", "Support", "Resistance"} ->
            IF marked = None THEN "none" ELSE IF marked[1] THEN "yes" ELSE "no"
       [] f.arg = "TrendCore" -> Turned(OverlayLine("TrendCore", c, o))
       [] f.arg = "Vl"        -> Turned(PanePair("Vl", c, o)[1])
       [] OTHER               -> Turned(StraightLine(f.arg, c, o))

\* A straight line that is not drawn yet does not block.  The two side lines are
\* fitted with the panel's settings, o.side.
SlFilter(f, c, o, k) ==
  CASE f.arg = "Consensus" -> IF Len(c) <= k \/ ConsensusHolds(f.up, c, o, k) THEN "yes" ELSE "no"
    [] f.arg \in {"Support", "Resistance"} ->
         Or(Moves(f.up, StraightLine(f.arg, c, o.side @@ o), k), "yes")
    [] OTHER -> Or(Moves(f.up, StraightLine(f.arg, c, o), k), "yes")

\* The cross of a mean that also moves that way.
CrossMoving(up, c, pts, k) == AndThen(CloseCrosses(up, c, pts, k), Moves(up, pts, k))
\* bb: the upper band is crossed, the middle one has to move.
BbCross(up, c, o, k) ==
  AndThen(CloseCrosses(up, c, Points(Bb(c, o.p, Int2Q(2)).up), k), Moves(up, BbMid(c, o), k))

\* filter_eval_inner.  The side of the first group is in the name.
FilterEval(f, c, o, k) ==
  LET E == EmaPoints(c, o.emas[1]) IN
  CASE f.base \in {"IncUp", "IncDown"} ->
         Or(Beats(f.base = "IncUp", Close(c, k), Close(c, k + 1)), "no")
    [] f.base \in {"IncUpAll", "IncDownAll"} -> Ordered(f.base = "IncUpAll", c, o, k)
    [] f.base \in {"GapUp", "GapDown"} -> Gap(f.base = "GapUp", c, k)
    [] f.base \in {"PaneCrossUp", "PaneCrossDown"} ->
         AllAgree({PairCrosses(f.base = "PaneCrossUp", PanePair(p, c, o), k) : p \in PanePairs})
    [] f.base \in {"PaneIncUpAll", "PaneIncDownAll"} ->
         \* flat counts as down
         LET lines == UNION {{PanePair(p, c, o)[1], PanePair(p, c, o)[2]} : p \in PanePairs}
                      \cup PaneSingles(c, o)
             rises == {Moves(TRUE, l, k) : l \in lines}
         IN IF (IF f.base = "PaneIncUpAll" THEN "no" ELSE "yes") \in rises THEN "no" ELSE "yes"
    [] f.base \in {"CrossUp", "CrossDown"} -> CloseCrosses(f.base = "CrossUp", c, E, k)
    [] f.base \in {"GtUp", "GtDown"} -> CloseBeats(TRUE, c, E, k)
    [] f.base \in {"LtUp", "LtDown"} -> CloseBeats(FALSE, c, E, k)
    [] f.base = "VwapCloseCross" -> CloseCrosses(f.arg = "Above", c, Points(Vwap(c)), k)
    [] f.base = "St1CloseCross" -> CloseCrosses(f.arg = "Above", c, St(c, One, o), k)
    [] f.base = "BbCross" -> BbCross(f.arg = "Above", c, o, k)
    [] f.base = "PcCross" -> CrossMoving(f.arg = "Above", c, PcMid(c, o), k)
    [] f.base = "Widens" -> Moves(TRUE, WideLine(f.arg, c, o), k)
    [] f.base = "MeetPaneCross" ->
         AllAgree({PairBeats(f.up, PanePair(p, c, o), k) : p \in PanePairs})
    [] f.base = "MeetCross" ->
         PairBeats(f.up, <<Points(Hma(c, o.p, 1)), Points(Hma(c, 2 * o.p, 1))>>, k)
    [] f.base = "Asr" -> RoomGrows(f.up, c, o, k)
    [] f.base = "Oit" -> OitMoves(f.up, c, o, k)
    [] f.base \in {"Smf", "MeetVl"} ->
         PairBeats(f.up, PanePair(IF f.base = "Smf" THEN "Smf" ELSE "Vl", c, o), k)
    [] f.base = "MeetClose" ->
         CloseBeats(f.up, c, CASE f.arg = "Vwap" -> Points(Vwap(c))
                               [] f.arg = "St"   -> St(c, One, o)
                               [] f.arg = "Bb"   -> BbMid(c, o)
                               [] f.arg = "Pc"   -> PcMid(c, o), k)
    [] f.base = "Pbr" -> Moves(f.up, PaneLine(f.arg, c, o), k)
    [] f.base = "PbrElderforce" -> "yes"
    [] f.base \in {"St10", "MeetSt10"} ->
         LET pair == <<St(c, Int2Q(f.lens[1]), o), St(c, Int2Q(f.lens[2]), o)>>
         IN IF f.base = "St10" THEN PairCrosses(f.up, pair, k) ELSE PairBeats(f.up, pair, k)
    [] f.base = "Obr"     -> Moves(f.up, OverlayLine(f.arg, c, o), k)
    [] f.base = "MeetOvl" -> CloseBeats(f.up, c, OverlayLine(f.arg, c, o), k)
    [] f.base = "Vl"      -> Moves(f.up, PanePair("Vl", c, o)[1], k)
    [] f.base = "Arrow"   -> ArrowFilter(f, c, o, k)
    [] f.base = "Sl"      -> SlFilter(f, c, o, k)
    [] f.base = "Pbg"     -> PbgFilter(f, c, o, k)
    [] f.base \in {"MeetEma", "EmaTrend", "Ema"} -> EmaFilter(f, c, k)
    [] OTHER -> "none"

\* direction_opposite: of four readings at least three are against the side; a tie
\* of a reading counts as down.
DirectionOpposite(up, c, o, k) ==
  LET E(j) == At(EmaPoints(c, o.emas[j]), k)
      pairs == <<<<E(1), E(2)>>, <<E(2), E(3)>>,
                 <<Close(c, k), At(St(c, One, o), k)>>, <<Close(c, k), At(Points(Vwap(c)), k)>>>>
      against == {i \in 1 .. 4 : Beats(TRUE, pairs[i][1], pairs[i][2])
                                   = IF up THEN "no" ELSE "yes"}
  IN Cardinality(against) >= 3

\* condition_detail: one condition of a strategy on the points of its series.
ConditionMet(cond, pts, k) ==
  LET last == At(pts, k)
      was  == At(pts, k + 1)
      Is(v) == v = "yes"
  IN CASE cond.op = "gt"  -> Is(Beats(TRUE, last, cond.value))
       [] cond.op = "gte" -> last # None /\ ~QLess(last, cond.value)
       [] cond.op = "lt"  -> Is(Beats(FALSE, last, cond.value))
       [] cond.op = "lte" -> last # None /\ ~QLess(cond.value, last)
       [] cond.op \in {"cross_up", "cross_down"} ->
            Is(Crosses(cond.op = "cross_up", last, was, cond.value, cond.value))
       [] cond.op \in {"rising", "falling"} -> Is(Beats(cond.op = "rising", last, was))
       [] OTHER -> FALSE


\* apply_hft_price: the conditions see another price of the bar as its close.
HftPrice(c, k, field) ==
  IF Len(c) <= k THEN c
  ELSE LET b == c[Len(c) - k] IN [c EXCEPT ![Len(c) - k].close = b[field]]

\* nifty_indicator_assignment: which straight lines rise, which fall, and by how
\* many the rising ones lead.
NiftyAssignment(c, o, names) ==
  LET Rising(up) == {n \in names : Moves(up, StraightLine(n, c, o), 0) = "yes"}
  IN [bull |-> Rising(TRUE), bear |-> Rising(FALSE),
      net |-> Cardinality(Rising(TRUE)) - Cardinality(Rising(FALSE))]
=============================================================================
