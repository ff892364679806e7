------------------------------ MODULE OiTrend ------------------------------
(***************************************************************************)
(* The regime line of crates/core/src/oi_trend.rs: a trend with hysteresis   *)
(* between two averages of the close, drawn as one straight piece per run.    *)
(* Its averages start at the first bar, unlike those of Averages.           *)
(* The line of a run under way still moves; the entry filters read it bar by  *)
(* bar all the same.                                                       *)
(***************************************************************************)
EXTENDS Indicators

EmaFirst(vals, p) ==
  Scan(LAMBDA prev, i : IF i = 1 THEN vals[1] ELSE EmaBlend(p, prev, vals[i]),
       None, Len(vals))

AtrFirst(c, p) ==
  LET tr == TrArr(c)
  IN Scan(LAMBDA prev, i : IF i = 1 THEN tr[1] ELSE WilderBlend(p, prev, tr[i]),
          None, Len(c))

\* 1, 0 or -1 per bar: in by enterK ranges, out by exitK ranges the other way,
\* and never from one side to the other in one bar.
Regimes(c, o) ==
  LET fast == EmaFirst(Closes(c), o.fast)
      slow == EmaFirst(Closes(c), o.slow)
      atr  == AtrFirst(c, o.atr)
      Step(r, i) ==
        LET gap == QSub(fast[i], slow[i])
            Over(k)  == QLess(QMul(atr[i], k), gap)
            Under(k) == QLess(gap, QNeg(QMul(atr[i], k)))
        IN IF ~QLess(Zero, atr[i]) THEN r
           ELSE IF r = 0 THEN IF Over(o.enterK) THEN 1 ELSE IF Under(o.enterK) THEN -1 ELSE 0
           ELSE IF (r = 1 /\ Under(o.exitK)) \/ (r = -1 /\ Over(o.exitK)) THEN 0 ELSE r
  IN Scan(Step, 0, Len(c))

\* Each run from its first to its last fast average; the bars are equally spaced.
RegimeLine(c, o) ==
  LET fast == EmaFirst(Closes(c), o.fast)
      regs == Regimes(c, o)
      n == Len(c)
      OneRun(i, j) == \A k \in i .. j : regs[k] = regs[i]
      First(k) == CHOOSE i \in 1 .. k : OneRun(i, k) /\ (i = 1 \/ ~OneRun(i - 1, k))
      Last(k)  == CHOOSE j \in k .. n : OneRun(k, j) /\ (j = n \/ ~OneRun(k, j + 1))
      Value(k) == LET i == First(k)
                      j == Last(k)
                  IN IF i = j THEN fast[k]
                     ELSE QAdd(fast[i], QMul(QSub(fast[j], fast[i]), Q(k - i, j - i)))
  IN Series(LAMBDA k : QRound(Value(k)), n)
=============================================================================
