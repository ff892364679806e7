------------------------------- MODULE VlCore -------------------------------
(***************************************************************************)
(* The volume-liquidity trend core: vlcore_engine of                        *)
(* crates/core/src/engines.rs.  A score per bar, averaged over avgK bars,     *)
(* starts the trend; afterwards only closes beyond the structure level turn   *)
(* it, and a sweep of the level or a recent turn (grab) suspends that.  A     *)
(* straight line follows the trend, holding still while the level is          *)
(* threatened or price is behind it.  o holds the inputs: length, atr, wick,   *)
(* confirm, strong, and avgK, railW, fast, half, sq, which the code derives    *)
(* from length, and vol (20).  Scores and fits are rounded to hundredths.     *)
(***************************************************************************)
EXTENDS Indicators, Swings

Frac(x, num, den) == QMul(x, Q(num, den))

\* vl_hma: as Hma, with both inner averages counted as 0 while missing.
VlHma(vals, p, half, sq) ==
  LET w1 == Filled(Wma(vals, half))
      w2 == Filled(Wma(vals, p))
      raw == Series(LAMBDA i : QSub(QMul(Int2Q(2), w1[i]), w2[i]), Len(vals))
      out == Wma(raw, sq)
  IN Series(LAMBDA i : IF Len(vals) < p \/ i < p + sq - 1 THEN None ELSE out[i], Len(vals))

\* vl_lsma: value and slope of the least-squares line at the window's end.
VlLsma(vals, p) ==
  LET mid == Q(p - 1, 2)
      X(k) == QSub(Int2Q(k - 1), mid)
      varx == SumOf([k \in 1 .. p |-> QMul(X(k), X(k))], 1, p)
      Mean(i) == QDiv(SumOf(vals, i + 1 - p, i), Int2Q(p))
      Cov(i) == SumOf([k \in 1 .. p |-> QMul(X(k), QSub(vals[i - p + k], Mean(i)))], 1, p)
      Slope(i) == QDiv(Cov(i), varx)
      Ready(i) == p >= 2 /\ i >= p
  IN [value |-> Series(LAMBDA i : IF Ready(i) THEN QAdd(Mean(i), QMul(Slope(i), mid))
                                  ELSE None, Len(vals)),
      slope |-> Series(LAMBDA i : IF Ready(i) THEN Slope(i) ELSE None, Len(vals))]

\* atr_safe: a missing or zero range repeats the last one, then a thousandth of
\* the close.
AtrSafe(c, p) ==
  LET atr == Atr(c, p)
      Step(last, i) ==
        LET a == IF atr[i] = None \/ atr[i] = Zero THEN last ELSE QRound(atr[i])
        IN IF QLeq(a, Zero) THEN QMax(Frac(c[i].close, 1, 1000), Q(1, 1000)) ELSE a
  IN Scan(Step, Zero, Len(c))

\* f_pat: rejection wicks, and bars that answer the one before them.
Pattern(b, a) ==
  LET range == QMax(QSub(b.high, b.low), Q(1, 1000))
      up == QSub(b.high, QMax(b.open, b.close))
      dn == QSub(QMin(b.open, b.close), b.low)
      Long(x, y) == QLess(Frac(range, 6, 10), x) /\ QLess(y, Frac(range, 1, 4))
      midA == Halve(a.open, a.close)
      rises == QLess(b.open, b.close)
      falls == QLess(b.close, b.open)
      Points(p, n) == IF p THEN Q(n, 100) ELSE Zero
  IN QAdd(QAdd(Points(Long(up, dn) /\ falls, -25), Points(Long(dn, up) /\ rises, 25)),
          QAdd(Points(/\ rises /\ QLess(a.close, a.open) /\ QLeq(b.low, a.low)
                      /\ QLeq(midA, b.close), 40),
               Points(/\ falls /\ QLess(a.open, a.close) /\ QLeq(a.high, b.high)
                      /\ QLeq(b.close, midA), -40)))

\* What the loop reads of the bars: every entry depends on bars up to its own
\* only, but the pivots, which need wick bars more.
Tables(c, o) ==
  LET closes == Closes(c)
      n == Len(c)
      a == AtrSafe(c, o.atr)
      lr == VlLsma(closes, o.length)
      hma == VlHma(SrcArr(c, "hl2"), o.length, o.half, o.sq)
      fast == EmaArr(closes, o.fast)
      slow == EmaArr(closes, o.length)
      vma == SmaArr(Volumes(c), o.vol)
      Part(x) == QDiv(QClamp(QRound(x), Int2Q(-2), Int2Q(2)), Int2Q(2))
      Vel(i) == IF lr.slope[i] = None THEN Zero
                ELSE Part(QDiv(QMul(lr.slope[i], Int2Q(o.length)), a[i]))
      Pos(i) == IF hma[i] = None THEN Zero
                ELSE Part(QDiv(QSub(c[i].close, hma[i]), Frac(a[i], 12, 10)))
      Gap(i) == IF slow[i] = None \/ fast[i] = None THEN Zero
                ELSE Part(QDiv(QRound(QSub(fast[i], slow[i])), Frac(a[i], 9, 10)))
      Ratio(i) == IF vma[i] # None /\ QLess(Zero, vma[i]) /\ QLess(Zero, c[i].volume)
                  THEN QDiv(c[i].volume, vma[i]) ELSE One
      VolK(i) == IF QLeq(Q(11, 10), Ratio(i))
                 THEN QMin(QAdd(Q(8, 10), Frac(QSub(Ratio(i), One), 6, 10)), Q(16, 10))
                 ELSE IF QLess(Ratio(i), Q(3, 4)) THEN Q(55, 100) ELSE One
      Score(i) ==
        IF i = 1 THEN Zero
        ELSE QClamp(QRound(QAdd(QAdd(Frac(Vel(i), 42, 100), Frac(Pos(i), 30, 100)),
                                QAdd(Frac(Gap(i), 27, 100),
                                     QMul(QClamp(Pattern(c[i], c[i - 1]), Int2Q(-1), One),
                                          Frac(VolK(i), 1, 2))))), Int2Q(-2), Int2Q(2))
      s == Series(Score, n)
      \* acc: the ring of the last avgK scores, those before the loop starts 0
      Acc(i) == QDiv(SumOf(s, IF i - o.avgK < o.railW THEN o.railW + 1 ELSE i + 1 - o.avgK, i),
                     Int2Q(o.avgK))
  IN [atr |-> a, hma |-> hma, acc |-> Series(Acc, n),
      hi |-> HighestArr(Highs(c), o.railW), lo |-> LowestArr(Lows(c), o.railW),
      piv |-> StrictPivots(c, o.wick)]

-----------------------------------------------------------------------------
(* The trend.                                                              *)

\* dir; stop: st_low in an up trend, st_high in a down trend; pending: closes
\* beyond it in a row; grab: the last bar on which it is not judged; threat.
TrendStart == [dir |-> 0, stop |-> None, pending |-> 0, grab |-> 0, threat |-> FALSE]

Ahead(up, x, y)   == IF up THEN QLess(y, x) ELSE QLess(x, y)
Further(up, x, y) == IF Ahead(up, x, y) THEN x ELSE y

\* The mistake TrendTurnsApart is for: a turn that leaves the next bars judged.
TurnToBare(up, t, c, i, o) ==
  [dir |-> IF up THEN 1 ELSE -1,
   stop |-> IF up THEN QMin(t.lo[i], c[i].close) ELSE QMax(t.hi[i], c[i].close),
   pending |-> 0, grab |-> i, threat |-> FALSE]

\* A new trend puts its level at the far end of the window.
TurnTo(up, t, c, i, o) ==
  [dir |-> IF up THEN 1 ELSE -1,
   stop |-> IF up THEN QMin(t.lo[i], c[i].close) ELSE QMax(t.hi[i], c[i].close),
   pending |-> 0, grab |-> i + (IF o.wick > 2 THEN o.wick ELSE 2), threat |-> FALSE]

\* From no trend: the averaged score, with a close beyond the window or strong.
TrendBegin(s, t, c, i, o) ==
  LET acc == t.acc[i]
      Starts(up) ==
        LET lead == IF up THEN acc ELSE QNeg(acc)
        IN /\ QLeq(Q(18, 100), lead)
           /\ \/ IF up THEN QLess(t.hi[i - 1], c[i].close) ELSE QLess(c[i].close, t.lo[i - 1])
              \/ QLeq(o.strong, lead)
  IN IF Starts(TRUE) THEN TurnTo(TRUE, t, c, i, o)
     ELSE IF Starts(FALSE) THEN TurnTo(FALSE, t, c, i, o) ELSE s

\* Within a trend: a pivot confirmed on this bar may tighten the level; a close
\* at or beyond the level counts, unless the bar swept it and closed back, or a
\* sweep or a turn is recent.  A crash turns the trend on its first such close.
TrendGoOn(s, t, c, i, o) ==
  LET up == s.dir = 1
      new == SelectSeq(t.piv, LAMBDA p : p.at = i /\ p.isHigh # up)
      stop == IF new # <<>> /\ ~Ahead(up, s.stop, new[1].price) THEN new[1].price ELSE s.stop
      local == Further(up, stop, IF up THEN t.lo[i - 1] ELSE t.hi[i - 1])
      swept == /\ Ahead(up, local, IF up THEN c[i].low ELSE c[i].high)
               /\ Ahead(up, c[i].close, local)
      under == ~Ahead(up, c[i].close, local)
      grab == IF swept THEN i + (IF o.wick > 2 THEN o.wick ELSE 2) ELSE s.grab
      judged == i > grab /\ ~swept
      pending == IF ~judged THEN s.pending ELSE IF under THEN s.pending + 1 ELSE 0
      fall == QSub(c[i - 1].close, c[i].close)
      crash == /\ i > o.railW + 1
               /\ Ahead(up, c[i].open, c[i].close)
               /\ QLeq(o.strong, IF up THEN QNeg(t.acc[i]) ELSE t.acc[i])
               /\ QLeq(Frac(t.atr[i], 6, 10), IF up THEN fall ELSE QNeg(fall))
      turns == judged /\ under /\ (pending >= o.confirm \/ crash)
      next == IF turns THEN TurnTo(~up, t, c, i, o)
              ELSE [s EXCEPT !.stop = stop, !.pending = pending, !.grab = grab]
  IN [next EXCEPT !.threat = swept \/ under]

TrendStep(s, t, c, i, o) ==
  IF s.dir = 0 THEN TrendBegin([s EXCEPT !.threat = FALSE], t, c, i, o)
  ELSE TrendGoOn(s, t, c, i, o)

\* leg_damp, and the confidence it damps.
Confidence(dir, t, c, i) ==
  LET ext == QDiv(IF dir = 1 THEN QSub(t.hi[i], c[i].close)
                  ELSE IF dir = -1 THEN QSub(c[i].close, t.lo[i]) ELSE Zero, t.atr[i])
      damp == IF QLess(Int2Q(6), ext)
              THEN QMax(QSub(One, Frac(QSub(ext, Int2Q(6)), 1, 20)), Q(45, 100)) ELSE One
  IN QMul(QAbs(t.acc[i]), damp)

-----------------------------------------------------------------------------
(* The straight line.                                                      *)

\* y: its value; m: its slope; hold: "no", "grab" or "over"; ref: the bar it was
\* last refitted on; refit: a refit is due; from: the bar the trend began on,
\* from which the least-squares sums run; drawn, glide: the line as drawn.
LineStart == [y |-> None, m |-> Zero, hold |-> "no", ref |-> 0, refit |-> FALSE,
              from |-> 0, dir |-> 0, target |-> None, drawn |-> None, glide |-> 0]

\* Ls: least squares through the closes since the trend began.
LsFit(c, from, i) ==
  LET n == i - from + 1
      S(F(_)) == SumOf([k \in 1 .. n |-> F(from + k - 1)], 1, n)
      X(k) == Int2Q(k - from)
      sx == S(X)
      sy == S(LAMBDA k : c[k].close)
      den == QSub(QMul(Int2Q(n), S(LAMBDA k : QMul(X(k), X(k)))), QMul(sx, sx))
      slope == IF n < 2 \/ den = Zero THEN Zero
               ELSE QDiv(QSub(QMul(Int2Q(n), S(LAMBDA k : QMul(X(k), c[k].close))),
                              QMul(sx, sy)), den)
  IN [slope |-> QRound(slope),
      end |-> QRound(QAdd(QDiv(QSub(sy, QMul(slope, sx)), Int2Q(n)), QMul(slope, X(i))))]

\* A new trend: from the latest extreme of the window towards the close; what
\* the line was holding for, and a refit that is due, stay.
LineBegin(l, up, c, i, o) ==
  LET first == IF i - o.railW > o.railW + 1 THEN i - o.railW ELSE o.railW + 1
      P(k) == IF up THEN c[k].low ELSE c[k].high
      Better(k) == \A j \in first .. i : ~Ahead(up, P(k), P(j))
      j == CHOOSE k \in first .. i : Better(k) /\ \A m \in k + 1 .. i : ~Better(m)
      toward == IF i = j THEN Zero ELSE QDiv(QSub(c[i].close, P(j)), Int2Q(i - j))
      m == IF up THEN QMax(toward, Zero) ELSE QMin(toward, Zero)
  IN [l EXCEPT !.dir = IF up THEN 1 ELSE -1, !.ref = i, !.from = i, !.y = P(j), !.m = m]

\* Along the trend.  A hold ends, and asks for a refit, when the threat is over
\* (or the close is back beyond the line).  A line that is not held is refitted
\* when that is due or it has drifted, by at most half an ATR, and moves on.
LineFollow(l, up, threat, a, c, i) ==
  LET held == IF l.hold = "no" THEN threat
              ELSE IF l.hold = "grab" THEN threat
              ELSE Ahead(up, l.y, c[i].close)
      x == IF l.hold = "no" THEN [l EXCEPT !.hold = IF threat THEN "grab" ELSE "no"]
           ELSE IF held THEN l ELSE [l EXCEPT !.hold = "no", !.refit = TRUE]
      ls == LsFit(c, x.from, i)
      age == Int2Q(IF i > x.ref THEN i - x.ref ELSE 1)
      drifted == \/ x.refit
                 \/ QLess(Frac(a, 35, 100), QMul(QAbs(QSub(x.m, ls.slope)), age))
                 \/ QLess(Frac(a, 3, 2), QAbs(QSub(x.y, ls.end)))
      half == Frac(a, 1, 2)
      fitted == IF i - x.from + 1 >= 4 /\ drifted
                THEN [x EXCEPT !.m = IF up THEN QMax(ls.slope, Zero) ELSE QMin(ls.slope, Zero),
                               !.y = QRound(QAdd(x.y, QClamp(QSub(ls.end, x.y), QNeg(half), half))),
                               !.ref = i, !.refit = FALSE]
                ELSE x
  IN IF held THEN x
     ELSE IF Ahead(up, fitted.y, c[i].close) THEN [fitted EXCEPT !.hold = "over"]
     ELSE [fitted EXCEPT !.y = QRound(QAdd(@, fitted.m))]

\* Before the first trend: at the average, or the middle of the window; nudged
\* towards the average when price is far from it.
LineIdle(l, t, c, i) ==
  LET a == t.atr[i]
      far == \/ QLess(c[i].close, QSub(l.y, Frac(a, 3, 2)))
             \/ QLess(QAdd(l.y, Frac(a, 3, 2)), c[i].close)
      nudge == QClamp(QSub(t.hma[i], l.y), QNeg(Frac(a, 4, 10)), Frac(a, 4, 10))
  IN IF l.y = None
     THEN [l EXCEPT !.y = QRound(IF t.hma[i] # None THEN t.hma[i] ELSE Halve(t.hi[i], t.lo[i])),
                    !.ref = i]
     ELSE IF t.hma[i] # None /\ far THEN [l EXCEPT !.y = QRound(QAdd(l.y, nudge))]
     ELSE l

\* After a turn the drawn line glides half the way for four bars.
LineDraw(l, turned) ==
  LET glide == IF turned THEN 4 ELSE l.glide
  IN IF l.drawn = None THEN [l EXCEPT !.target = l.y, !.drawn = l.y, !.glide = 0]
     ELSE IF glide > 0
     THEN [l EXCEPT !.target = l.y, !.glide = glide - 1,
                    !.drawn = QRound(Halve(l.drawn, l.y))]
     ELSE [l EXCEPT !.target = l.y, !.drawn = l.y, !.glide = 0]

LineStep(l, before, s, t, c, i, o) ==
  LET up == s.dir = 1
      moved == IF s.dir = 0 THEN LineIdle(l, t, c, i)
               ELSE IF s.dir # l.dir THEN LineBegin(l, up, c, i, o)
               ELSE LineFollow(l, up, s.threat, t.atr[i], c, i)
  IN LineDraw(moved, s.dir # before)

-----------------------------------------------------------------------------
(* The loop: one step per bar, from the bar after the first full window.     *)

VlStart == [trend |-> TrendStart, line |-> LineStart]

VlStep(s, t, c, i, o) ==
  LET trend == TrendStep(s.trend, t, c, i, o)
  IN IF i <= o.railW THEN s
     ELSE [trend |-> trend, line |-> LineStep(s.line, s.trend.dir, trend, t, c, i, o)]

\* What vlcore_engine returns of each bar; nothing below ten bars.
VlCoreEngine(c, o) ==
  LET t == Tables(c, o)
      run == Scan(LAMBDA s, i : VlStep(s, t, c, i, o), VlStart, Len(c))
  IN IF Len(c) < 10 THEN [i \in 1 .. Len(c) |-> [dir |-> 0, conf |-> Zero, val |-> None]]
     ELSE Series(LAMBDA i : IF i <= o.railW THEN [dir |-> 0, conf |-> Zero, val |-> None]
                            ELSE [dir |-> run[i].trend.dir,
                                  conf |-> Confidence(run[i].trend.dir, t, c, i),
                                  val |-> run[i].line.drawn], Len(c))
=============================================================================
