----------------------------- MODULE TrendLines -----------------------------
(***************************************************************************)
(* The lines and arrows that crates/core/src/indicators.rs draws from the    *)
(* swing engines.  A line is a sequence of points [idx, value]; lines through  *)
(* pivots have points at their corners only, fitted lines have one per bar.   *)
(* An arrow is [idx, up].  o holds the numeric inputs, pct as a fraction.     *)
(* clean_candles changes nothing here: bars are finite and in time order.     *)
(***************************************************************************)
EXTENDS Indicators, Reversals

Point(i, v) == [idx |-> i, value |-> v]
MidPrice(c, i) == Halve(c[i].high, c[i].low)

LastFinite(arr) ==
  LET known == {i \in DOMAIN arr : arr[i] # None /\ IsFinite(arr[i])}
  IN IF known = {} THEN Zero ELSE arr[CHOOSE i \in known : \A j \in known : j <= i]

\* The tolerance around a line: a multiple of the last ATR, at least a fraction
\* of the last close, never 0.
Tolerance(c, period, mult, pct) ==
  LET close == QAbs(c[Len(c)].close)
      t == QMax(QMul(LastFinite(Atr(c, period)), mult), QMul(close, pct))
  IN IF QLess(Zero, t) THEN t
     ELSE IF close # Zero THEN QDiv(close, Int2Q(1000)) ELSE One

LowestLow(c)   == SumOf(LowestArr(Lows(c), Len(c)), Len(c), Len(c))
HighestHigh(c) == SumOf(HighestArr(Highs(c), Len(c)), Len(c), Len(c))

DenseSeg(a, va, b, vb) ==
  IF b < a THEN <<>>
  ELSE IF a = b THEN <<Point(a, va)>>
  ELSE Series(LAMBDA k : Point(a + k - 1,
                               QAdd(va, QMul(QSub(vb, va), Q(k - 1, b - a)))), b - a + 1)

\* live_trend_dir: the side of its slow average the close is on; until that
\* exists, the last close against the one before.
LiveTrendDir(c, len) ==
  LET slow == Ema(c, len)
      Step(last, i) ==
        IF slow[i] # None
        THEN IF QLess(slow[i], c[i].close) THEN 1
             ELSE IF QLess(c[i].close, slow[i]) THEN -1
             ELSE IF last = 0 THEN 1 ELSE last
        ELSE IF i = 1 THEN last
        ELSE IF QLess(c[i].close, c[i - 1].close) THEN -1 ELSE 1
  IN Scan(Step, 0, Len(c))

\* Points (k / (m - 1), ys[k]): the distance of point k from the chord a .. b
\* times the chord's length, and that length squared.
ChordOff(ys, a, b, k) ==
  LET x == Q(k - a, Len(ys) - 1)
      w == Q(b - a, Len(ys) - 1)
  IN QAbs(QSub(QMul(QSub(ys[b], ys[a]), x), QMul(QSub(ys[k], ys[a]), w)))

ChordLength2(ys, a, b) ==
  LET w == Q(b - a, Len(ys) - 1)
      h == QSub(ys[b], ys[a])
  IN QAdd(QMul(w, w), QMul(h, h))

\* The mistake ThinnedLineFits is for: the length of the chord is left out.
BeyondUnscaled(ys, eps, a, b, k) == QLess(eps, ChordOff(ys, a, b, k))

Beyond(ys, eps, a, b, k) ==
  LET off == ChordOff(ys, a, b, k)
  IN QLess(QMul(QMul(eps, eps), ChordLength2(ys, a, b)), QMul(off, off))

\* straighten_line: Ramer-Douglas-Peucker over the points' positions, both axes
\* scaled to 1.  The point furthest from its chord stays, the first of equals,
\* while it is further than eps.
Straighten(pts, eps) ==
  LET m == Len(pts)
      vals == Series(LAMBDA k : pts[k].value, m)
      vmin == LowestArr(vals, m)[m]
      span == QSub(HighestArr(vals, m)[m], vmin)
      ys == Series(LAMBDA k : QDiv(QSub(vals[k], vmin), IF span = Zero THEN One ELSE span), m)
      Furthest(a, b) ==
        LET off == [k \in a + 1 .. b - 1 |-> ChordOff(ys, a, b, k)]
        IN CHOOSE k \in DOMAIN off : /\ \A j \in DOMAIN off : ~QLess(off[k], off[j])
                                    /\ \A j \in a + 1 .. k - 1 : QLess(off[j], off[k])
      kept[a \in 1 .. m, b \in 1 .. m] ==
        IF b - a < 2 \/ ~Beyond(ys, eps, a, b, Furthest(a, b)) THEN {}
        ELSE LET k == Furthest(a, b) IN {k} \cup kept[a, k] \cup kept[k, b]
  IN IF m < 3 THEN pts
     ELSE Collect(LAMBDA k : IF k \in {1, m} \cup kept[1, m] THEN pts[k] ELSE None, m)

-----------------------------------------------------------------------------
(* Arrows.                                                                 *)

\* slope_markers: where a line's slope turns; a level stretch keeps the slope.
SlopeMarkers(pts) ==
  LET Step(prev, k) ==
        IF k = 1 THEN 0
        ELSE IF QLess(pts[k - 1].value, pts[k].value) THEN 1
        ELSE IF QLess(pts[k].value, pts[k - 1].value) THEN -1 ELSE prev
      dir == Scan(Step, 0, Len(pts))
  IN {[idx |-> pts[k].idx, up |-> dir[k] = 1] :
        k \in {j \in 2 .. Len(pts) : dir[j] # 0 /\ dir[j] # dir[j - 1]}}

\* The last two highs and lows after each pivot, in the order of the pivots.
SwingsAfter(piv) == Scan(LAMBDA w, k : WithPivot(w, piv[k]), NoSwings, Len(piv))

\* Only the first arrow of a bar is kept.
FirstPerBar(piv, Marked(_)) ==
  {k \in DOMAIN piv : Marked(k) /\ \A j \in 1 .. k - 1 : piv[j].idx # piv[k].idx \/ ~Marked(j)}

\* break_markers: an arrow on the extreme with which the structure turned.
BreakMarkers(piv, require3) ==
  LET w == SwingsAfter(piv)
      trend == Scan(LAMBDA t, k : StructureFlip(w[k], t), 0, Len(piv))
      Before(k) == IF k = 1 THEN 0 ELSE trend[k - 1]
      Turns(k) == trend[k] # 0 /\ trend[k] # Before(k)
  IN IF Len(piv) < 3 /\ require3 THEN {}
     ELSE {[idx |-> piv[k].idx, up |-> trend[k] = 1, first |-> Before(k) = 0] :
             k \in FirstPerBar(piv, Turns)}

\* structural_markers: an arrow on every extreme that leaves the last two highs
\* and the last two lows both higher, or both lower.
StructuralMarkers(piv) ==
  LET w == SwingsAfter(piv)
      Dir(k) == StructureFlip(w[k], 0)
  IN {[idx |-> piv[k].idx, up |-> Dir(k) = 1] :
        k \in FirstPerBar(piv, LAMBDA k : Dir(k) # 0)}

\* markers_pivot_trend, and the arrow filter of the engine that reads it: is
\* there such an arrow on the bar offset bars back?  None is not blocking.
PivotTrendMarkers(c, strength) == StructuralMarkers(FractalPivots(c, strength))

TrendFlipAt(c, offset, bull, strength) ==
  IF offset >= Len(c) \/ Len(FractalPivots(c, strength)) < 3 THEN None
  ELSE <<[idx |-> Len(c) - offset, up |-> bull] \in PivotTrendMarkers(c, strength)>>

\* markers_trendmaster: bars of unusual volume that close in the direction of
\* the structure confirmed so far; bars with an arrow already are left out.
VolumeMarkers(c, o, taken) ==
  LET piv == ZigZag(c, o.period, o.mult, o.pct)
      w == SwingsAfter(piv)
      trend == Scan(LAMBDA t, k : StructureFlip(w[k], t), 0, Len(piv))
      Bias(i) == LET known == {k \in DOMAIN piv : piv[k].at <= i}
                 IN IF known = {} THEN 0
                    ELSE trend[CHOOSE k \in known : \A j \in known : j <= k]
      Avg(i) == QDiv(SumOf(Volumes(c), i - o.volLen, i - 1), Int2Q(o.volLen))
  IN {i \in o.volLen + 1 .. Len(c) :
        /\ Bias(i) # 0 /\ QLess(Zero, Avg(i))
        /\ QLess(QMul(o.volMult, Avg(i)), c[i].volume)
        /\ (Bias(i) = 1) = QLeq(c[i].open, c[i].close)
        /\ i \notin taken}

-----------------------------------------------------------------------------
(* Lines through the swings.                                               *)

\* The mistake LinesTouchTheChart is for: a corner on the bar that confirmed it.
ZigPointsLate(c, piv) ==
  LET corners == Series(LAMBDA k : Point(piv[k].at, piv[k].price), Len(piv))
  IN IF piv = <<>> \/ piv[Len(piv)].at >= Len(c) THEN corners
     ELSE Append(corners, Point(Len(c), c[Len(c)].close))

\* zig_points: the pivots, carried to the last close.
ZigPoints(c, piv) ==
  LET corners == Series(LAMBDA k : Point(piv[k].idx, piv[k].price), Len(piv))
  IN IF piv = <<>> \/ piv[Len(piv)].idx >= Len(c) THEN corners
     ELSE Append(corners, Point(Len(c), c[Len(c)].close))

\* pivot_zigzag_line as compute_autotrend and compute_projline feed it: the
\* pivots, carried to the middle of the last bar.
PivotZigzagLine(c, piv) ==
  LET corners == Series(LAMBDA k : Point(piv[k].idx, piv[k].price), Len(piv))
  IN IF piv[Len(piv)].idx >= Len(c) THEN corners
     ELSE Append(corners, Point(Len(c), MidPrice(c, Len(c))))

\* The mistake LegsAreExtremes is for: of neighbours on one side the first stays.
JoinFirst(out, k, piv) ==
  LET p == piv[k]
      n == Len(out)
  IN IF n = 0 THEN <<p>>
     ELSE IF out[n].isHigh # p.isHigh /\ p.idx > out[n].idx THEN Append(out, p) ELSE out

\* Of neighbours on one side the more extreme stays, in the first one's place; a
\* pivot of the other side joins only if it comes later.
Join(out, k, piv) ==
  LET p == piv[k]
      n == Len(out)
      Beats(q) == IF p.isHigh THEN QLess(q.price, p.price) ELSE QLess(p.price, q.price)
  IN IF n = 0 THEN <<p>>
     ELSE IF out[n].isHigh = p.isHigh
     THEN IF Beats(out[n]) THEN [out EXCEPT ![n] = p] ELSE out
     ELSE IF p.idx > out[n].idx THEN Append(out, p) ELSE out

AlternatingPivots(piv) ==
  IF piv = <<>> THEN <<>>
  ELSE Scan(LAMBDA out, k : Join(out, k, piv), <<>>, Len(piv))[Len(piv)]

AutoTrend(c, strength) ==
  LET alt == AlternatingPivots(FractalPivots(c, strength))
  IN IF Len(c) < 12 \/ Len(alt) < 2 THEN <<>> ELSE PivotZigzagLine(c, alt)

\* The bars after the last one a line is continued over, up to the first that
\* would leave the price band of the chart.
Extension(c, fwd, Value(_)) ==
  LET pad == QDiv(QSub(HighestHigh(c), LowestLow(c)), Int2Q(4))
      In(k) == /\ QLeq(QSub(LowestLow(c), pad), Value(k))
               /\ QLeq(Value(k), QAdd(HighestHigh(c), pad))
      ok == {k \in 1 .. fwd : \A j \in 1 .. k : In(j)}
  IN Series(LAMBDA k : Point(Len(c) + k, Value(k)), Cardinality(ok))

\* compute_projline: the zigzag, and the slope fitted to its last three pivots
\* continued from the middle of the last bar.
ProjLine(c, o) ==
  LET piv == ZigZag(c, o.period, o.mult, o.pct)
      used == LastOf(piv, 3)
      m == Len(used)
      S(F(_)) == SumOf([k \in 1 .. m |-> F(used[k])], 1, m)
      sx == S(LAMBDA p : Int2Q(p.idx))
      sy == S(LAMBDA p : p.price)
      den == QSub(QMul(Int2Q(m), S(LAMBDA p : Int2Q(p.idx * p.idx))), QMul(sx, sx))
      gap == used[m].idx - used[1].idx
      slope == IF den = Zero
               THEN QDiv(QSub(used[m].price, used[1].price), Int2Q(IF gap < 1 THEN 1 ELSE gap))
               ELSE QDiv(QSub(QMul(Int2Q(m), S(LAMBDA p : QMul(Int2Q(p.idx), p.price))),
                              QMul(sx, sy)), den)
      base == MidPrice(c, Len(c))
  IN IF Len(c) < 3 \/ Len(piv) < 2 THEN [hist |-> <<>>, fut |-> <<>>]
     ELSE [hist |-> PivotZigzagLine(c, piv),
           fut |-> <<Point(Len(c), base)>>
                   \o Extension(c, o.fwd, LAMBDA k : QAdd(base, QMul(slope, Int2Q(k))))]

\* compute_wavefib: the waves, and the retracement levels of the chosen leg.
WaveFib(c, o) ==
  LET piv == ZigZag(c, o.period, o.mult, o.pct)
      leg == EwFib(c, o.period, o.mult, o.pct)
      Level(r) == QAdd(leg[1].price, QMul(QSub(leg[2].price, leg[1].price), Q(r, 1000)))
  IN IF Len(c) < 3 \/ Len(piv) < 2 THEN [zig |-> <<>>, levels |-> {}]
     ELSE [zig |-> ZigPoints(c, piv),
           levels |-> IF leg = None THEN {}
                      ELSE {Level(r) : r \in {236, 382, 500, 618, 786, 1000, 1272, 1618, 2000}}]

\* score_line: the running sum of a state.
ScoreLine(states) ==
  LET sums == Scan(LAMBDA x, k : x + states[k], 0, Len(states))
  IN Series(LAMBDA k : Point(k, Int2Q(sums[k])), Len(states))

EwTrend(c, o)  == ScoreLine(EwTrendState(c, o.period, o.mult, o.pct))
PaTrendLine(c, o) == ScoreLine(PaTrendState(c, o.pivotLen, o.period, o.paMult))
SremaT(c, o) ==
  LET a == SremaAnalyze(c, o)
  IN IF Len(c) < 3 THEN <<>> ELSE ScoreLine(Series(LAMBDA k : a[k].state, Len(c)))

\* compute_fibt and compute_gant: fan_swing_trend as a line.
FanTrend(c, o) ==
  LET t == FanSwingTrend(c, o.period, o.mult, o.pct)
  IN Series(LAMBDA k : Point(k, Int2Q(t[k])), Len(t))

\* A line over the bars from .. Len(c).
Drawn(c, line, from) ==
  Series(LAMBDA k : Point(from + k - 1, ValueAt(line, from + k - 1)), Len(c) - from + 1)

\* compute_zzline and compute_trendmaster with fullSpan: the best trend line.
TrendLine(c, o) ==
  LET piv == AtrZigzag(c, o.period, o.mult, o.pct)
      best == AutoTrendLine(c, piv, o.look, Tolerance(c, o.period, Q(1, 2), o.pct))
  IN IF Len(c) < 3 \/ Len(piv) < 2 \/ best = None THEN <<>> ELSE Drawn(c, best, 1)

\* compute_level_trend: the best line through one side's pivots, and whether it
\* is a support line that ends above the price, or a resistance line below it.
LevelLine(c, o, support) ==
  LET side == SelectSeq(FractalPivots(c, o.strength), LAMBDA p : p.isHigh # support)
  IN IF Len(c) < 12 THEN None
     ELSE SideTrendLine(c, side, o.look, Tolerance(c, o.period, o.tolMult, o.pct), support)

LevelTrend(c, o, support) ==
  LET best == LevelLine(c, o, support)
  IN IF best = None THEN <<>>
     ELSE Drawn(c, best, best.p1)
          \o Extension(c, o.fwd, LAMBDA k : ValueAt(best, Len(c) + k))

\* compute_keylevel: the levels with most members, the latest first among
\* equals, each at least minSep from those already shown.
KeyLevels(c, o) ==
  LET piv == FractalPivots(c, o.strength)
      tol == Tolerance(c, o.period, o.keyMult, o.pct)
      cl == ClusterLevels(piv, tol)
      n == Len(cl)
      Prior(j, k) == \/ cl[j].n > cl[k].n
                     \/ cl[j].n = cl[k].n /\ cl[j].last > cl[k].last
                     \/ cl[j].n = cl[k].n /\ cl[j].last = cl[k].last /\ j < k
      Ranked(r) == cl[CHOOSE k \in 1 .. n :
                        Cardinality({j \in 1 .. n : Prior(j, k)}) = r - 1]
      prices == [k \in 1 .. n |-> cl[k].price]
      spread == QSub(HighestArr(prices, n)[n], LowestArr(prices, n)[n])
      minSep == QMax(QMul(tol, Q(5, 2)), QMul(spread, Q(1, 25)))
      Step(shown, r) ==
        IF /\ Len(shown) < o.zones
           /\ \A j \in DOMAIN shown : QLeq(minSep, QAbs(QSub(shown[j].price, Ranked(r).price)))
        THEN Append(shown, Ranked(r)) ELSE shown
  IN IF Len(c) < 10 \/ Len(piv) < 3 THEN <<>> ELSE Scan(Step, <<>>, n)[n]

\* compute_autosr: the running extreme is one level, the last pivot the other;
\* touch: the bar from which a line leads from the level to the last close.
AutoSr(c, o) ==
  LET n == Len(c)
      piv == ZigZag(c, o.period, o.mult, o.pct)
      last == IF piv = <<>> THEN None ELSE piv[Len(piv)]
      up == piv = <<>> \/ ~last.isHigh
      since == IF piv = <<>> THEN 1 ELSE last.at
      ext == IF up THEN SumOf(HighestArr(Highs(c), n - since + 1), n, n)
             ELSE SumOf(LowestArr(Lows(c), n - since + 1), n, n)
      res == IF up THEN ext ELSE last.price
      sup == IF ~up THEN ext ELSE IF last = None THEN LowestLow(c) ELSE last.price
      level == IF up THEN sup ELSE res
      tol == QMul(QAbs(level), Q(1, 2000))
      touching == {k \in 1 .. n - 1 : /\ QLeq(QSub(c[k].low, tol), level)
                                      /\ QLeq(level, QAdd(c[k].high, tol))}
      touch == IF last # None /\ last.idx < n THEN last.idx
               ELSE IF touching = {} THEN 0
               ELSE CHOOSE k \in touching : \A j \in touching : j <= k
  IN [res |-> res, sup |-> sup, up |-> up, touch |-> touch]

\* compute_pitchfork: the latest three alternating pivots that are wide enough,
\* not too lopsided and not too steep; None if there are none.
Pitchfork(c, o) ==
  LET piv == ZigZag(c, o.period, o.mult, o.pct)
      range == QSub(HighestHigh(c), LowestLow(c))
      Mx(e) == Q(piv[e - 2].idx + piv[e].idx, 2)
      Slope(e) == QDiv(QSub(Halve(piv[e - 2].price, piv[e].price), piv[e - 1].price),
                       QSub(Mx(e), Int2Q(piv[e - 1].idx)))
      Span(e) == piv[e].idx - piv[e - 2].idx
      Fits(e) ==
        /\ piv[e - 2].isHigh # piv[e - 1].isHigh /\ piv[e - 1].isHigh # piv[e].isHigh
        /\ piv[e - 2].idx < piv[e - 1].idx /\ piv[e - 1].idx < piv[e].idx
        /\ Span(e) >= o.minSpan
        /\ QLeq(QMax(Int2Q(2), Q(15 * Span(e), 100)), QAbs(QSub(Mx(e), Int2Q(piv[e - 1].idx))))
        /\ QLeq(QMul(QAbs(Slope(e)), Int2Q(Span(e))), QMul(range, Q(8, 10)))
      ok == {e \in 3 .. Len(piv) : Fits(e)}
      e == CHOOSE e \in ok : \A f \in ok : f <= e
      Ray(p) == [a |-> Slope(e), b |-> QSub(p.price, QMul(Slope(e), Int2Q(p.idx)))]
  IN IF Len(c) < 3 \/ ok = {} THEN <<>>
     ELSE <<Drawn(c, Ray(piv[e - 1]), piv[e - 2].idx),
            Drawn(c, Ray(piv[e - 2]), piv[e - 2].idx),
            Drawn(c, Ray(piv[e]), piv[e - 2].idx)>>

\* fan_rays and compute_gannfan: rays from the first of the last two alternating
\* pivots, at the given multiples of the leg's slope.
FanRays(c, o, ratios) ==
  LET piv == AtrZigzag(c, o.period, o.mult, o.pct)
      t == LastAlternatingPivots(piv, 2)
      Ray(r) == LET a == QMul(r, QDiv(QSub(t[2].price, t[1].price),
                                      Int2Q(t[2].idx - t[1].idx)))
                IN Drawn(c, [a |-> a, b |-> QSub(t[1].price, QMul(a, Int2Q(t[1].idx)))],
                         t[1].idx)
  IN IF Len(c) < 3 \/ Len(piv) < 2 \/ t = None THEN {} ELSE {Ray(r) : r \in ratios}

FibRatios  == {Q(r, 1000) : r \in {236, 382, 500, 618, 786}}
GannRatios == {Int2Q(8), Int2Q(4), Int2Q(3), Int2Q(2), One, Q(1, 2), Q(1, 3), Q(1, 4), Q(1, 8)}

\* compute_srema: from the last pivot on the side of the live trend to the last
\* close.
SremaLine(c, o) ==
  LET n == Len(c)
      bull == LiveTrendDir(c, o.trendLen)[n] >= 0
      piv == ZigZag(c, o.period, o.mult, o.pct)
      own == {k \in DOMAIN piv : piv[k].isHigh # bull}
      p == piv[CHOOSE k \in own : \A j \in own : j <= k]
  IN IF n < 3 \/ own = {} \/ p.idx = n THEN <<>>
     ELSE DenseSeg(p.idx, p.price, n, c[n].close)

\* compute_supplydemand: the zigzag bar by bar, the leg to the last close, and
\* the mirrored leg when the last two legs are of about the same length.
SupplyDemand(c, o) ==
  LET n == Len(c)
      piv == ZigZag(c, o.period, o.mult, o.pct)
      m == Len(piv)
      Leg(k) == DenseSeg(piv[k - 1].idx, piv[k - 1].price, piv[k].idx, piv[k].price)
      chain == Scan(LAMBDA d, k : IF k = 1 THEN <<>>
                                  ELSE IF k = 2 \/ Leg(k) = <<>> THEN d \o Leg(k)
                                  ELSE d \o Tail(Leg(k)), <<>>, m)
      Size(k) == QAbs(QSub(piv[k].price, piv[k - 1].price))
      guess == IF m >= 3 THEN Size(m - 1) ELSE Size(m)
      mirror == m < 3 \/ LET big == QMax(QMax(Size(m - 1), Size(m)), One)
                         IN QLeq(QDiv(QAbs(QSub(Size(m - 1), Size(m))), big), o.eqTol)
      goal == IF piv[m].isHigh THEN QSub(piv[m].price, guess) ELSE QAdd(piv[m].price, guess)
  IN IF m < 2 THEN [struct |-> <<>>, live |-> <<>>, mirror |-> <<>>]
     ELSE [struct |-> chain[m],
           live |-> DenseSeg(piv[m].idx, piv[m].price, n, c[n].close),
           mirror |-> IF mirror THEN DenseSeg(piv[m].idx, piv[m].price, n, goal) ELSE <<>>]

\* compute_vl: the close weighted by volume and its average, thinned out by
\* Straighten.  A window without volume is drawn at 0.
Vl(c, len, sig, eps) ==
  LET n == Len(c)
      vols == RunningSums(Volumes(c), len)
      paid == RunningSums(Series(LAMBDA i : QMul(c[i].close, c[i].volume), n), len)
      vw == Series(LAMBDA i : IF i >= len /\ QLess(Zero, vols[i])
                              THEN QDiv(paid[i], vols[i]) ELSE Zero, n)
      signal == EmaArr(vw, sig)
      Thin(arr) == Straighten(
        Collect(LAMBDA i : IF i < len \/ arr[i] = None THEN None
                           ELSE Point(i, arr[i]), n), eps)
  IN [main |-> Thin(vw), signal |-> Thin(signal)]
=============================================================================
