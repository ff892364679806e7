------------------------------- MODULE Swings -------------------------------
(***************************************************************************)
(* The swing engines of crates/core/src/engines.rs: pivots, zigzags, levels, *)
(* trend lines through pivots and the market-structure trend.  A bar's index *)
(* is its position in the sequence c, one more than in the code.  A pivot is *)
(* a record [isHigh, price, idx, at]: idx is the bar of the extreme, at the   *)
(* bar on which it was confirmed, and nothing may use it before that.       *)
(***************************************************************************)
EXTENDS Averages, FiniteSets

\* The values F gives for the bars 1 .. n, those that have none left out.
Push(s, x) == IF x = None THEN s ELSE Append(s, x)
Collect(F(_), n) ==
  IF n = 0 THEN <<>> ELSE Scan(LAMBDA s, i : Push(s, F(i)), <<>>, n)[n]

\* The first entry of the highest score.
BestScored(cands) ==
  IF cands = <<>> THEN None
  ELSE cands[CHOOSE k \in DOMAIN cands :
               /\ \A j \in DOMAIN cands : ~QLess(cands[k].score, cands[j].score)
               /\ \A j \in 1 .. k - 1 : QLess(cands[j].score, cands[k].score)]

LastOf(s, n) == IF n <= Len(s) THEN SubSeq(s, Len(s) - n + 1, Len(s)) ELSE s

-----------------------------------------------------------------------------
(* Fractal pivots.                                                         *)

\* Equal neighbours do not spoil an extreme, and a bar that is both a high and
\* a low counts as a high only.
PivotAt(c, s, i) ==
  LET High == \A k \in 1 .. s : /\ QLeq(c[i - k].high, c[i].high)
                                /\ QLeq(c[i + k].high, c[i].high)
      Low  == \A k \in 1 .. s : /\ QLeq(c[i].low, c[i - k].low)
                                /\ QLeq(c[i].low, c[i + k].low)
  IN IF i <= s \/ i > Len(c) - s THEN None
     ELSE IF High THEN [isHigh |-> TRUE, price |-> c[i].high, idx |-> i, at |-> i + s]
     ELSE IF Low THEN [isHigh |-> FALSE, price |-> c[i].low, idx |-> i, at |-> i + s]
     ELSE None

FractalPivots(c, s) == Collect(LAMBDA i : PivotAt(c, s, i), Len(c))

\* The latest run of count pivots that alternate and move forward, if any.
LastAlternatingPivots(piv, count) ==
  LET Good(s) == \A k \in s + 1 .. s + count - 1 :
                   /\ piv[k].isHigh # piv[k - 1].isHigh
                   /\ piv[k].idx > piv[k - 1].idx
      starts == {s \in 1 .. Len(piv) - count + 1 : Good(s)}
  IN IF count = 0 \/ starts = {} THEN None
     ELSE LET s == CHOOSE s \in starts : \A t \in starts : t <= s
          IN SubSeq(piv, s, s + count - 1)

\* Levels: pivots in order of price, each joining the first level its price is
\* within tol of, whose price becomes the mean of its members.
ClusterLevels(piv, tol) ==
  LET Step(cl, p) ==
        LET near == {g \in DOMAIN cl : QLeq(QAbs(QSub(p.price, cl[g].price)), tol)}
            first == CHOOSE g \in near : \A h \in near : g <= h
        IN IF near = {}
           THEN Append(cl, [price |-> p.price, n |-> 1, first |-> p.idx, last |-> p.idx])
           ELSE [cl EXCEPT ![first] =
                  [price |-> QDiv(QAdd(QMul(@.price, Int2Q(@.n)), p.price),
                                  Int2Q(@.n + 1)),
                   n     |-> @.n + 1,
                   first |-> IF p.idx < @.first THEN p.idx ELSE @.first,
                   last  |-> IF p.idx > @.last THEN p.idx ELSE @.last]]
      \* position of entry k in the stable order of prices
      Rank(k) == 1 + Cardinality({j \in DOMAIN piv :
                       \/ QLess(piv[j].price, piv[k].price)
                       \/ piv[j].price = piv[k].price /\ j < k})
      sorted == Series(LAMBDA r : piv[CHOOSE k \in DOMAIN piv : Rank(k) = r], Len(piv))
      steps == Scan(LAMBDA cl, r : Step(cl, sorted[r]), <<>>, Len(piv))
  IN IF piv = <<>> THEN <<>> ELSE steps[Len(piv)]

-----------------------------------------------------------------------------
(* Lines through two pivots.                                               *)

LineThrough(p1, p2) ==
  LET a == QDiv(QSub(p2.price, p1.price), Int2Q(p2.idx - p1.idx))
  IN [a |-> a, b |-> QSub(p2.price, QMul(a, Int2Q(p2.idx)))]

ValueAt(line, k) == QAdd(QMul(line.a, Int2Q(k)), line.b)

CountIf(lo, hi, P(_)) == Int2Q(Cardinality({k \in lo .. hi : P(k)}))

\* Pairs of entries of z, the earlier first, in the order of the two loops.
Pairs(z) ==
  LET All == {p \in (1 .. Len(z)) \X (1 .. Len(z)) : p[1] < p[2]}
      Rank(p) == (p[1] - 1) * Len(z) + p[2]
  IN Collect(LAMBDA r : IF \E p \in All : Rank(p) = r
                        THEN CHOOSE p \in All : Rank(p) = r ELSE None,
             Len(z) * Len(z))

\* A rising line through lows or a falling one through highs, scored by the bars
\* it touches, the closes beyond it and its span.
AutoTrendLine(c, piv, look, tol) ==
  LET side(h) == LastOf(SelectSeq(piv, LAMBDA p : p.isHigh = h), look)
      Eval(p1, p2, support) ==
        LET line == LineThrough(p1, p2)
            Touch(k) == /\ QLeq(ValueAt(line, k), QAdd(c[k].high, tol))
                        /\ QLeq(QSub(c[k].low, tol), ValueAt(line, k))
            Viol(k) == IF support
                       THEN QLess(c[k].close, QSub(ValueAt(line, k), tol))
                       ELSE QLess(QAdd(ValueAt(line, k), tol), c[k].close)
            touches == CountIf(p1.idx, Len(c), Touch)
            viol    == CountIf(p1.idx, Len(c), Viol)
        IN [a |-> line.a, b |-> line.b, p1 |-> p1.idx, p2 |-> p2.idx,
            isSupport |-> support,
            score |-> QAdd(QSub(QMul(Int2Q(2), touches), QMul(Int2Q(4), viol)),
                           Q(p2.idx - p1.idx, Len(c)))]
      Cands(z, support) ==
        LET pairs == Pairs(z)
            Fits(p) == /\ z[p[1]].idx < z[p[2]].idx
                       /\ IF support THEN QLess(z[p[1]].price, z[p[2]].price)
                          ELSE QLess(z[p[2]].price, z[p[1]].price)
        IN Collect(LAMBDA r : IF Fits(pairs[r])
                              THEN Eval(z[pairs[r][1]], z[pairs[r][2]], support)
                              ELSE None, Len(pairs))
  IN BestScored(Cands(side(FALSE), TRUE) \o Cands(side(TRUE), FALSE))

\* The line through one side's last pivots, scored on those pivots, on how far
\* it ends from the last close, and by 100 if it ends on the wrong side of it.
WrongSide(line, c, tol, support) ==
  LET v == ValueAt(line, Len(c))
      close == c[Len(c)].close
  IN IF support THEN QLess(QAdd(close, tol), v) ELSE QLess(v, QSub(close, tol))

SideTrendLine(c, side, look, tol, support) ==
  LET z == LastOf(side, look)
      Score(p1, p2) ==
        LET line == LineThrough(p1, p2)
            Off(k) == QSub(z[k].price, ValueAt(line, z[k].idx))
            later == {k \in DOMAIN z : z[k].idx >= p1.idx}
            Touch(k) == k \in later /\ QLeq(QAbs(Off(k)), tol)
            Broken(k) == /\ k \in later /\ ~Touch(k)
                         /\ IF support THEN QLess(Off(k), QNeg(tol))
                            ELSE QLess(tol, Off(k))
            gap == QAbs(QSub(ValueAt(line, Len(c)), c[Len(c)].close))
            prox == IF QLess(Zero, tol) THEN QDiv(gap, tol) ELSE gap
            plus == QAdd(QMul(Int2Q(3), CountIf(1, Len(z), Touch)),
                         Q(p2.idx - p1.idx, Len(c)))
            minus == QAdd(QMul(Int2Q(6), CountIf(1, Len(z), Broken)), QDiv(prox, Int2Q(2)))
        IN QSub(QSub(plus, minus),
                IF WrongSide(line, c, tol, support) THEN Int2Q(100) ELSE Zero)
      pairs == Pairs(z)
      Cand(r) == LET p1 == z[pairs[r][1]]
                     p2 == z[pairs[r][2]]
                     line == LineThrough(p1, p2)
                 IN IF p1.idx >= p2.idx THEN None
                    ELSE [a |-> line.a, b |-> line.b, p1 |-> p1.idx, p2 |-> p2.idx,
                          isSupport |-> support, score |-> Score(p1, p2)]
  IN IF Len(side) < 2 THEN None ELSE BestScored(Collect(Cand, Len(pairs)))

-----------------------------------------------------------------------------
(* The ATR zigzag and what ew_analyze reads from it.                       *)

\* th: the move against the leg that confirms its extreme.  Until the ATR has a
\* value only the percentage of the price counts.
Threshold(atr, i, mult, pct, price) ==
  QMax(IF atr[i] = None THEN Zero ELSE QMul(atr[i], mult), QMul(QAbs(price), pct))

\* The loop of atr_zigzag and of ew_analyze: one bar carries the extreme on, or turns.
\* z: the chart, its ATR and the two factors of the threshold.
ZigTurn(s, i, c) ==
  LET wasHigh == s.dir = 1
  IN [dir |-> -s.dir, ext |-> IF wasHigh THEN c[i].low ELSE c[i].high, extIdx |-> i,
      piv |-> Append(s.piv, [isHigh |-> wasHigh, price |-> s.ext, idx |-> s.extIdx, at |-> i])]

ZigStep(s, i, z) ==
  LET c == z.c
      t == Threshold(z.atr, i, z.mult, z.pct, c[i].close)
      up == s.dir = 1
      further == IF up THEN QLess(s.ext, c[i].high) ELSE QLess(c[i].low, s.ext)
      e == IF further
           THEN [s EXCEPT !.ext = IF up THEN c[i].high ELSE c[i].low, !.extIdx = i]
           ELSE s
      turns == IF up THEN QLeq(c[i].low, QSub(e.ext, t))
               ELSE QLeq(QAdd(e.ext, t), c[i].high)
  IN IF i = 1 THEN s ELSE IF turns THEN ZigTurn(e, i, c) ELSE e

ZigStart(c) == [dir |-> 1, ext |-> c[1].high, extIdx |-> 1, piv |-> <<>>]

ZigZag(c, period, mult, pct) ==
  LET z == [c |-> c, atr |-> WilderArr(TrArr(c), period), mult |-> mult, pct |-> pct]
  IN IF c = <<>> THEN <<>>
     ELSE Scan(LAMBDA s, i : ZigStep(s, i, z), ZigStart(c), Len(c))[Len(c)].piv

AtrZigzag(c, period, mult, pct) ==
  LET piv == ZigZag(c, period, mult, pct)
  IN Series(LAMBDA k : [isHigh |-> piv[k].isHigh, price |-> piv[k].price,
                        idx |-> piv[k].idx], Len(piv))

\* The last two highs and the last two lows confirmed so far.
NoSwings == [lastH |-> None, prevH |-> None, lastL |-> None, prevL |-> None]
WithPivot(w, p) ==
  IF p.isHigh THEN [w EXCEPT !.prevH = w.lastH, !.lastH = p.price]
  ELSE [w EXCEPT !.prevL = w.lastL, !.lastL = p.price]

\* The mistake MirroredChart is for: an equal high passes, an equal low does not.
StructureFlipUneven(w, trend) ==
  IF w.prevH = None \/ w.prevL = None THEN trend
  ELSE IF QLeq(w.prevH, w.lastH) /\ QLeq(w.prevL, w.lastL) THEN 1
  ELSE IF QLess(w.lastH, w.prevH) /\ QLess(w.lastL, w.prevL) THEN -1
  ELSE trend

\* structure_flip: higher highs and higher lows, or lower ones, or as before.
StructureFlip(w, trend) ==
  IF w.prevH = None \/ w.prevL = None THEN trend
  ELSE IF QLess(w.prevH, w.lastH) /\ QLess(w.prevL, w.lastL) THEN 1
  ELSE IF QLess(w.lastH, w.prevH) /\ QLess(w.lastL, w.prevL) THEN -1
  ELSE trend

\* The mistake ClosedBarsStand is for: a pivot used on its own bar.
ConfirmedAtExtreme(piv, i) == SelectSeq(piv, LAMBDA p : p.idx = i)

\* The pivots confirmed on bar i, in the order the loop takes them.
ConfirmedAt(piv, i) == SelectSeq(piv, LAMBDA p : p.at = i)

\* ew_analyze: the structure trend bar by bar; empty below two pivots.
EwTrendState(c, period, mult, pct) ==
  LET piv == ZigZag(c, period, mult, pct)
      Take(s, p) == LET w == WithPivot(s.w, p)
                    IN [w |-> w, trend |-> StructureFlip(w, s.trend)]
      Step(s, i) == LET new == ConfirmedAt(piv, i)
                    IN IF new = <<>> THEN s
                       ELSE Scan(LAMBDA x, k : Take(x, new[k]), s, Len(new))[Len(new)]
      states == Scan(Step, [w |-> NoSwings, trend |-> 0], Len(c))
  IN IF Len(c) < 3 \/ Len(piv) < 2 THEN <<>>
     ELSE Series(LAMBDA i : states[i].trend, Len(c))

LastTrend(states) == IF states = <<>> THEN 0 ELSE states[Len(states)]

\* The five waves after the first pivot of the latest six that run with the
\* trend, else the last three pivots as A-B-C; a bar gets one label.
EwLabels(c, period, mult, pct) ==
  LET piv == ZigZag(c, period, mult, pct)
      n == Len(piv)
      trend == LastTrend(EwTrendState(c, period, mult, pct))
      Alternate(lo, hi) == \A k \in lo + 1 .. hi : piv[k].isHigh # piv[k - 1].isHigh
      Impulse(s) == LET up == ~piv[s].isHigh /\ piv[s + 5].isHigh
                        dn == piv[s].isHigh /\ ~piv[s + 5].isHigh
                    IN /\ Alternate(s, s + 5)
                       /\ (trend = 1 /\ up) \/ (trend = -1 /\ dn) \/ (trend = 0 /\ (up \/ dn))
      starts == {s \in 1 .. n - 5 : s > n - 12 /\ Impulse(s)}
      s == CHOOSE s \in starts : \A t \in starts : t <= s
      Label(k, text) == [idx |-> piv[k].idx, isHigh |-> piv[k].isHigh, text |-> text]
      labels == IF starts # {}
                THEN Series(LAMBDA k : Label(s + k, <<"1", "2", "3", "4", "5">>[k]), 5)
                ELSE IF n >= 3 /\ Alternate(n - 2, n)
                THEN Series(LAMBDA k : Label(n - 3 + k, <<"A", "B", "C">>[k]), 3)
                ELSE <<>>
  IN IF Len(c) < 3 \/ n < 2 THEN <<>>
     ELSE Collect(LAMBDA k : IF \E j \in 1 .. k - 1 : labels[j].idx = labels[k].idx
                             THEN None ELSE labels[k], Len(labels))

\* The last leg that runs with the trend, else the last leg.
EwFib(c, period, mult, pct) ==
  LET piv == ZigZag(c, period, mult, pct)
      n == Len(piv)
      trend == LastTrend(EwTrendState(c, period, mult, pct))
      With(k) == LET up == QLess(piv[k - 1].price, piv[k].price)
                 IN /\ piv[k - 1].idx < piv[k].idx
                    /\ \/ trend = 1 /\ up /\ ~piv[k - 1].isHigh
                       \/ trend = -1 /\ ~up /\ piv[k - 1].isHigh
      legs == {k \in 2 .. n : With(k)}
      k == IF legs = {} THEN n ELSE CHOOSE k \in legs : \A j \in legs : j <= k
  IN IF Len(c) < 3 \/ n < 2 \/ piv[k - 1].idx = piv[k].idx \/ piv[k - 1].price = piv[k].price
     THEN None ELSE <<piv[k - 1], piv[k]>>

\* fan_swing_trend: the sum over the bars of the last confirmed leg's direction.
FanSwingTrend(c, period, mult, pct) ==
  LET piv == ZigZag(c, period, mult, pct)
      Dir(i) == LET known == {k \in 2 .. Len(piv) : piv[k].at <= i}
                    k == CHOOSE k \in known : \A j \in known : j <= k
                IN IF known = {} THEN 0
                   ELSE IF QLeq(piv[k - 1].price, piv[k].price) THEN 1 ELSE -1
  IN IF Len(c) < 3 \/ Len(piv) < 2 THEN <<>>
     ELSE Scan(LAMBDA x, i : x + Dir(i), 0, Len(c))

-----------------------------------------------------------------------------
(* Price-action structure.                                                 *)

\* Pivots by strict comparison with pl bars on each side; a bar may be both.
StrictPivots(c, pl) ==
  LET Around(i) == (i - pl .. i + pl) \ {i}
      High(i) == \A j \in Around(i) : QLess(c[j].high, c[i].high)
      Low(i)  == \A j \in Around(i) : QLess(c[i].low, c[j].low)
      Piv(i, h) == [isHigh |-> h, price |-> IF h THEN c[i].high ELSE c[i].low,
                    idx |-> i, at |-> i + pl]
      Of(r) == LET i == (r + 1) \div 2
                   h == r % 2 = 1
               IN IF i <= pl \/ i > Len(c) - pl THEN None
                  ELSE IF h /\ High(i) THEN Piv(i, TRUE)
                  ELSE IF ~h /\ Low(i) THEN Piv(i, FALSE)
                  ELSE None
  IN Collect(Of, 2 * Len(c))

\* A close beyond the last confirmed high or low by buf decides; otherwise the
\* structure of the last two highs and lows does.
PaTrend(w, close, buf, trend) ==
  IF w.lastH # None /\ QLess(QAdd(w.lastH, buf), close) THEN 1
  ELSE IF w.lastL # None /\ QLess(close, QSub(w.lastL, buf)) THEN -1
  ELSE StructureFlip(w, trend)

PaStructure(c, pl, atrLen, mult) ==
  LET piv == StrictPivots(c, pl)
      atr == WilderArr(TrArr(c), atrLen)
      Take(s, new) == IF new = <<>> THEN s
                      ELSE Scan(LAMBDA w, k : WithPivot(w, new[k]), s, Len(new))[Len(new)]
      Step(s, i) ==
        LET w == Take(s.w, ConfirmedAt(piv, i))
            buf == IF atr[i] = None THEN Zero ELSE QMul(atr[i], mult)
        IN [w |-> w, trend |-> PaTrend(w, c[i].close, buf, s.trend)]
  IN IF Len(c) < 2 * pl + 2 THEN Series(LAMBDA i : [w |-> NoSwings, trend |-> 0], Len(c))
     ELSE Scan(Step, [w |-> NoSwings, trend |-> 0], Len(c))

PaTrendState(c, pl, atrLen, mult) ==
  LET s == PaStructure(c, pl, atrLen, mult) IN Series(LAMBDA i : s[i].trend, Len(c))

\* The level drawn: the last confirmed low under an up trend, the last confirmed
\* high over a down trend, the close while there is none.
PaLine(c, pl, atrLen, mult) ==
  LET s == PaStructure(c, pl, atrLen, mult)
      Or(x, y) == IF x = None THEN y ELSE x
  IN Series(LAMBDA i : CASE s[i].trend = 1  -> Or(s[i].w.lastL, c[i].close)
                         [] s[i].trend = -1 -> Or(s[i].w.lastH, c[i].close)
                         [] OTHER           -> None, Len(c))

\* The drawn zigzag: the first pivot of each bar, then the last close if the last
\* pivot is not the last bar.
PaZig(c, pl) ==
  LET piv == StrictPivots(c, pl)
      own == Collect(LAMBDA k : IF k > 1 /\ piv[k].idx = piv[k - 1].idx THEN None
                                ELSE [idx |-> piv[k].idx, value |-> piv[k].price], Len(piv))
  IN IF Len(c) < 2 * pl + 2 \/ own = <<>> \/ own[Len(own)].idx = Len(c) THEN own
     ELSE Append(own, [idx |-> Len(c), value |-> c[Len(c)].close])

\* One marker per bar: its pivot once confirmed, or the turn of the trend on it,
\* whichever the loop reaches first.
PaMarkers(c, pl, atrLen, mult) ==
  LET piv == StrictPivots(c, pl)
      t == PaTrendState(c, pl, atrLen, mult)
      Before(i) == IF i = 1 THEN 0 ELSE t[i - 1]
      Turns(i) == t[i] # Before(i) /\ t[i] # 0
      Own(i) == SelectSeq(piv, LAMBDA p : p.idx = i)
      \* a turn is marked on its own bar, a pivot pl bars after it
      Mark(i) == IF Turns(i)
                 THEN [idx |-> i, text |-> IF Before(i) = 0 THEN "BOS" ELSE "CHoCH"]
                 ELSE IF Own(i) # <<>>
                 THEN [idx |-> i, text |-> IF Own(i)[1].isHigh THEN "H" ELSE "L"]
                 ELSE None
  IN IF Len(c) < 2 * pl + 2 THEN <<>> ELSE Collect(Mark, Len(c))
=============================================================================
