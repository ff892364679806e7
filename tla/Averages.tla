------------------------------ MODULE Averages ------------------------------
(***************************************************************************)
(* The moving averages of crates/core/src/math.rs.  A series is a sequence  *)
(* with one entry per bar, None while it has no value; the code's index i   *)
(* is the sequence's index i + 1.  Every running loop is a Scan: what is     *)
(* carried from one bar to the next is the state of the code's loop, so a    *)
(* sum that is updated and never recomputed here is updated and never        *)
(* recomputed there.                                                       *)
(***************************************************************************)
EXTENDS Sequences, Rational

None == <<>>

\* The states Step leads through from init, one per index of 1 .. n.
Scan(Step(_, _), init, n) ==
  LET run[i \in 0 .. n] ==
        IF i = 0 THEN <<>>
        ELSE LET done == run[i - 1]
             IN Append(done, Step(IF i = 1 THEN init ELSE done[i - 1], i))
  IN run[n]

\* The sequence of F(1), ..., F(n).
Series(F(_), n) == SubSeq([i \in 1 .. n |-> F(i)], 1, n)

Blank(n) == [i \in 1 .. n |-> None]

SumOf(s, lo, hi) ==
  LET G(x, i) == QAdd(x, s[lo + i - 1])
      sums == Scan(G, Zero, hi - lo + 1)
  IN IF hi < lo THEN Zero ELSE sums[hi - lo + 1]

\* v.unwrap_or(0.0), entry by entry: what the code feeds to a second stage.
Filled(arr) == Series(LAMBDA i : IF arr[i] = None THEN Zero ELSE arr[i], Len(arr))

\* Op of two series where both have a value.
Both(f, s, Op(_, _)) ==
  Series(LAMBDA i : IF f[i] = None \/ s[i] = None THEN None
                    ELSE Op(f[i], s[i]), Len(f))

-----------------------------------------------------------------------------
\* A running sum: the bar that enters is added, the one that leaves subtracted.
RunningSums(vals, p) ==
  LET Step(sum, i) ==
        LET grown == QAdd(sum, vals[i])
        IN IF i > p THEN QSub(grown, vals[i - p]) ELSE grown
  IN Scan(Step, Zero, Len(vals))

SmaArr(vals, p) ==
  IF p <= 0 THEN Blank(Len(vals))
  ELSE LET sums == RunningSums(vals, p)
       IN Series(LAMBDA i : IF i >= p THEN QDiv(sums[i], Int2Q(p)) ELSE None,
                 Len(vals))

\* The average of a series with gaps: a gap restarts the window, and yet the
\* entry that leaves is still taken off, even one from before the gap.
SmaOpt(vals, p) ==
  LET Step(w, i) ==
        LET entered == IF vals[i] = None THEN [sum |-> Zero, cnt |-> 0]
                       ELSE [sum |-> QAdd(w.sum, vals[i]), cnt |-> w.cnt + 1]
        IN IF i > p /\ vals[i - p] # None
           THEN [sum |-> QSub(entered.sum, vals[i - p]),
                 cnt |-> IF entered.cnt > 0 THEN entered.cnt - 1 ELSE 0]
           ELSE entered
      w == Scan(Step, [sum |-> Zero, cnt |-> 0], Len(vals))
  IN IF p <= 0 THEN Blank(Len(vals))
     ELSE Series(LAMBDA i : IF w[i].cnt = p THEN QDiv(w[i].sum, Int2Q(p))
                            ELSE None, Len(vals))

\* sma_arr_tolerant: entries that are not finite are left out of sum and count.
SmaArrTolerant(vals, p) ==
  LET Fin(i) == vals[i] # None /\ IsFinite(vals[i])
      Step(w, i) ==
        LET entered == IF Fin(i)
                       THEN [sum |-> QAdd(w.sum, vals[i]), cnt |-> w.cnt + 1]
                       ELSE w
        IN IF i > p /\ Fin(i - p)
           THEN [sum |-> QSub(entered.sum, vals[i - p]), cnt |-> entered.cnt - 1]
           ELSE entered
      w == Scan(Step, [sum |-> Zero, cnt |-> 0], Len(vals))
  IN IF p = 0 THEN Blank(Len(vals))
     ELSE Series(LAMBDA i : IF w[i].cnt = p THEN QDiv(w[i].sum, Int2Q(p))
                            ELSE None, Len(vals))

\* A recursive average: the mean of the first p entries, then Blend.
Smoothed(vals, p, Blend(_, _)) ==
  LET Step(prev, i) ==
        IF i < p THEN None
        ELSE IF i = p THEN QDiv(SumOf(vals, 1, p), Int2Q(p))
        ELSE Blend(prev, vals[i])
  IN IF p <= 0 \/ Len(vals) < p THEN Blank(Len(vals))
     ELSE Scan(Step, None, Len(vals))

EmaBlend(p, prev, v) ==
  LET k == Q(2, p + 1)
  IN QAdd(QMul(v, k), QMul(prev, QSub(One, k)))

WilderBlend(p, prev, v) == QDiv(QAdd(QMul(prev, Int2Q(p - 1)), v), Int2Q(p))

EmaArr(vals, p)    == Smoothed(vals, p, LAMBDA prev, v : EmaBlend(p, prev, v))
WilderArr(vals, p) == Smoothed(vals, p, LAMBDA prev, v : WilderBlend(p, prev, v))

\* The same over a series with gaps: entries without a finite value are passed
\* over, whether the average is seeded yet or not.
SkipSmoothed(src, p, Blend(_, _)) ==
  LET Step(w, i) ==
        IF src[i] = None \/ ~IsFinite(src[i]) THEN [w EXCEPT !.out = None]
        ELSE IF w.prev # None
             THEN LET np == Blend(w.prev, src[i])
                  IN [w EXCEPT !.prev = np, !.out = np]
        ELSE LET seed == QAdd(w.seed, src[i])
                 full == w.cnt + 1 = p
                 mean == IF full THEN QDiv(seed, Int2Q(p)) ELSE None
             IN [seed |-> seed, cnt |-> w.cnt + 1, prev |-> mean, out |-> mean]
      w == Scan(Step, [seed |-> Zero, cnt |-> 0, prev |-> None, out |-> None],
                Len(src))
  IN IF p <= 0 THEN Blank(Len(src)) ELSE Series(LAMBDA i : w[i].out, Len(src))

\* The mistake TwinsAgree is for: the weights of the other recursive average.
EmaSkipWilder(src, p) == SkipSmoothed(src, p, LAMBDA prev, v : WilderBlend(p, prev, v))

EmaSkip(src, p) == SkipSmoothed(src, p, LAMBDA prev, v : EmaBlend(p, prev, v))
WilderOpt(vals, p) == SkipSmoothed(vals, p, LAMBDA prev, v : WilderBlend(p, prev, v))

-----------------------------------------------------------------------------
\* The best entry of the last p, by the strict comparison the loop makes.
WindowBest(vals, p, Better(_, _)) ==
  LET Best(i) == CHOOSE x \in {vals[j] : j \in i + 1 - p .. i} :
                   \A j \in i + 1 - p .. i : ~Better(vals[j], x)
  IN IF p <= 0 THEN Blank(Len(vals))
     ELSE Series(LAMBDA i : IF i < p THEN None ELSE Best(i), Len(vals))

HighestArr(vals, p) == WindowBest(vals, p, LAMBDA x, y : QLess(y, x))
LowestArr(vals, p)  == WindowBest(vals, p, QLess)

\* The mean of the squares of the distances from the window's mean.
VarianceArr(vals, p) ==
  LET mean == SmaArr(vals, p)
      Dev(i, j) == QMul(QSub(vals[j], mean[i]), QSub(vals[j], mean[i]))
  IN Series(LAMBDA i :
       IF mean[i] = None THEN None
       ELSE QDiv(SumOf([k \in 1 .. p |-> Dev(i, i - p + k)], 1, p), Int2Q(p)),
       Len(vals))

StdevArr(vals, p) ==
  LET var == VarianceArr(vals, p)
  IN Series(LAMBDA i : IF var[i] = None THEN None ELSE QRoot(var[i]), Len(vals))

\* True range: the first bar has no previous close.
TrArr(c) ==
  Series(LAMBDA i :
    LET range == QSub(c[i].high, c[i].low)
    IN IF i = 1 THEN range
       ELSE QMax(QMax(range, QAbs(QSub(c[i].high, c[i - 1].close))),
                 QAbs(QSub(c[i].low, c[i - 1].close))),
    Len(c))

SrcArr(c, key) ==
  Series(LAMBDA i :
    LET x == c[i] IN
    CASE key = "hl2"   -> QDiv(QAdd(x.high, x.low), Int2Q(2))
      [] key = "hlc3"  -> QDiv(QAdd(QAdd(x.high, x.low), x.close), Int2Q(3))
      [] key = "hlcc4" -> QDiv(QAdd(QAdd(x.high, x.low), QMul(Int2Q(2), x.close)),
                               Int2Q(4))
      [] key = "open"  -> x.open
      [] key = "high"  -> x.high
      [] key = "low"   -> x.low
      [] OTHER         -> x.close,
    Len(c))

\* points_from / build_series: the bars that carry a point, with its value.
PointsFrom(arr) ==
  Series(LAMBDA i : IF arr[i] # None /\ IsFinite(arr[i]) THEN arr[i] ELSE None,
         Len(arr))
=============================================================================
