---------------------------- MODULE PaneConsensus ----------------------------
(***************************************************************************)
(* The pane consensus engine: pane_signal of crates/core/src/engines.rs.     *)
(* Eight oscillators vote on each bar; the smoothed vote drives a regime     *)
(* with hysteresis, which two majority passes then smooth over time.  o holds *)
(* the inputs, among them those the code fixes: minBars (35), fast, slow and  *)
(* sig (12, 26, 9), pivotBars (3) and hold (8).  Votes are rounded to         *)
(* hundredths.                                                             *)
(***************************************************************************)
EXTENDS Indicators, Swings

\* clamp1, after the reading v has been centred and scaled.
Clamp1(v, centre, scale) == QClamp(QRound(QDiv(QSub(v, centre), scale)), Int2Q(-1), One)

-----------------------------------------------------------------------------
(* The six oscillators, as pane_signal computes them: unlike the drawn ones   *)
(* they have a neutral value where the window does not move.                *)

PaneBb(c, p) ==
  LET bb == Bb(c, p, Int2Q(2))
  IN Series(LAMBDA i :
       IF bb.up[i] = None THEN None
       ELSE LET range == QSub(bb.up[i], bb.lo[i])
            IN IF QLess(Zero, range) THEN QDiv(QSub(c[i].close, bb.lo[i]), range)
               ELSE Q(1, 2), Len(c))

\* Where the close lies between the window's extremes, from 0 to 100.
Position(c, p, Flat) ==
  LET d == Donchian(c, p)
  IN Series(LAMBDA i :
       IF d.up[i] = None THEN None
       ELSE IF QLess(d.lo[i], d.up[i])
            THEN Pct(QSub(c[i].close, d.lo[i]), QSub(d.up[i], d.lo[i]))
            ELSE Flat, Len(c))

PaneStoch(c, p)  == Position(c, p, Int2Q(50))
PaneWillR(c, p)  ==
  LET k == Position(c, p, Int2Q(50))
  IN Series(LAMBDA i : IF k[i] = None THEN None ELSE QSub(k[i], Hundred), Len(c))

\* Running sums of the flows; the first value is on the bar after the window
\* that the first bar of the chart has no flow in.
PaneMfi(c, p) ==
  LET tp == SrcArr(c, "hlc3")
      n == Len(c)
      Flow(i, Moved(_, _)) == IF i = 1 \/ ~Moved(tp[i - 1], tp[i]) THEN Zero
                              ELSE QMul(c[i].volume, tp[i])
      pos == RunningSums(Series(LAMBDA i : Flow(i, QLess), n), p)
      neg == RunningSums(Series(LAMBDA i : Flow(i, LAMBDA x, y : QLess(y, x)), n), p)
  IN Series(LAMBDA i : IF i <= p THEN None
                       ELSE LET all == QAdd(pos[i], neg[i])
                            IN IF QLess(Zero, all) THEN Pct(pos[i], all)
                               ELSE Int2Q(50), n)

\* The histogram over a signal line that skips the bars without a MACD.
PaneMacdHist(c, fast, slow, sig) ==
  LET line == Both(Ema(c, fast), Ema(c, slow), QSub)
  IN Both(line, EmaSkip(line, sig), QSub)

\* The divergence vote: a pivot that price and RSI disagree on is heard for
\* hold bars from the bar that confirms it; later pivots overrule earlier ones.
DivVotes(c, rsi, o) ==
  LET piv == SelectSeq(FractalPivots(c, o.pivotBars), LAMBDA p : rsi[p.idx] # None)
      Before(k) == {j \in 1 .. k - 1 : piv[j].isHigh = piv[k].isHigh}
      Prev(k) == piv[CHOOSE j \in Before(k) : \A m \in Before(k) : m <= j]
      Diverges(k) ==
        /\ Before(k) # {}
        /\ LET q == Prev(k) IN
           IF piv[k].isHigh
           THEN QLess(q.price, piv[k].price) /\ QLess(rsi[piv[k].idx], rsi[q.idx])
           ELSE QLess(piv[k].price, q.price) /\ QLess(rsi[q.idx], rsi[piv[k].idx])
      Heard(i) == {k \in DOMAIN piv : Diverges(k) /\ piv[k].at <= i /\ i <= piv[k].at + o.hold}
  IN Series(LAMBDA i :
       IF Heard(i) = {} THEN 0
       ELSE IF piv[CHOOSE k \in Heard(i) : \A m \in Heard(i) : m <= k].isHigh THEN -1 ELSE 1,
       Len(c))

-----------------------------------------------------------------------------
(* The vote.                                                               *)

PaneReadings(c, o) ==
  [rsi |-> Rsi(c, o.rsi), hist |-> PaneMacdHist(c, o.fast, o.slow, o.sig),
   atr |-> Atr(c, o.atr), bb |-> PaneBb(c, o.bb), stoch |-> PaneStoch(c, o.stoch),
   cci |-> Cci(c, o.cci), willr |-> PaneWillR(c, o.willr), mfi |-> PaneMfi(c, o.mfi)]

\* How many readings of bar i are overbought (oversold).
Stretched(r, i, over) ==
  LET Out(x, hi, lo) == /\ x # None
                        /\ IF over THEN QLess(hi, x) ELSE QLess(x, lo)
      B(p) == IF p THEN 1 ELSE 0
  IN B(Out(r.rsi[i], Int2Q(70), Int2Q(30))) + B(Out(r.bb[i], One, Zero))
     + B(Out(r.stoch[i], Int2Q(80), Int2Q(20)))
     + B(Out(r.cci[i], Hundred, Int2Q(-100)))
     + B(Out(r.willr[i], Int2Q(-20), Int2Q(-80)))
     + B(Out(r.mfi[i], Int2Q(80), Int2Q(20)))

\* The weighted mean of the votes cast, halved when three readings say that the
\* move it favours has gone too far.
Composite(c, r, div, o) ==
  LET Cast(x, centre, scale) ==
        IF x = None THEN <<>> ELSE <<Clamp1(x, Int2Q(centre), scale)>>
      Votes(i) ==
        Cast(r.rsi[i], 50, Int2Q(20))
        \o (IF r.hist[i] = None \/ r.atr[i] = None THEN <<>>
            ELSE Cast(r.hist[i], 0, QDiv(QMax(r.atr[i], Q(1, 1000)), Int2Q(2))))
        \o (IF r.bb[i] = None THEN <<>>
            ELSE <<Clamp1(r.bb[i], Q(1, 2), Q(1, 2))>>)
        \o Cast(r.stoch[i], 50, Int2Q(40)) \o Cast(r.cci[i], 0, Int2Q(150))
        \o Cast(r.willr[i], -50, Int2Q(40)) \o Cast(r.mfi[i], 50, Int2Q(30))
      Mean(i) ==
        LET v == Votes(i)
            s == QAdd(SumOf(v, 1, Len(v)), Q(3 * div[i], 2))
            w == QAdd(Int2Q(Len(v)), IF div[i] = 0 THEN Zero ELSE Q(3, 2))
        IN IF w = Zero THEN Zero ELSE QRound(QDiv(s, w))
      Damped(i) ==
        LET m == Mean(i)
        IN IF \/ QLess(Zero, m) /\ Stretched(r, i, TRUE) >= 3
              \/ QLess(m, Zero) /\ Stretched(r, i, FALSE) >= 3
           THEN QDiv(m, Int2Q(2)) ELSE m
  IN Series(Damped, Len(c))

\* Before its average has a value the smoothed vote is the vote itself.
PaneSmooth(comp, len) ==
  LET e == EmaArr(comp, len)
  IN IF len <= 1 THEN comp
     ELSE Series(LAMBDA i : IF e[i] = None THEN comp[i] ELSE QRound(e[i]), Len(comp))

-----------------------------------------------------------------------------
(* The regime.                                                             *)

\* Once the readings are complete the regime is never 0 again: it changes when
\* the vote clears the threshold of the other side.
RawRegime(r, sm, o) ==
  LET Step(s, i) ==
        LET started == s.started \/ (/\ r.rsi[i] # None /\ r.bb[i] # None
                                     /\ r.stoch[i] # None)
            turned == IF QLeq(o.bullTh, sm[i]) THEN 1
                      ELSE IF QLeq(sm[i], QNeg(o.bearTh)) THEN -1
                      ELSE IF s.rg # 0 THEN s.rg
                      ELSE IF QLess(sm[i], Zero) THEN -1 ELSE 1
        IN [started |-> started, rg |-> IF started THEN turned ELSE 0]
      run == Scan(Step, [started |-> FALSE, rg |-> 0], Len(sm))
  IN Series(LAMBDA i : run[i].rg, Len(sm))

\* One pass: the sign of the sum over minSeg bars on each side, from a copy.
Majority(rg, minSeg) ==
  LET n == Len(rg)
      From(i) == IF i > minSeg THEN i - minSeg ELSE 1
      To(i)   == IF i + minSeg < n THEN i + minSeg ELSE n
      Count(i, v) == Cardinality({j \in From(i) .. To(i) : rg[j] = v})
  IN Series(LAMBDA i : IF Count(i, 1) > Count(i, -1) THEN 1
                       ELSE IF Count(i, 1) < Count(i, -1) THEN -1 ELSE rg[i], n)

\* The least-squares line through the closes of bars lo .. hi, at bar k.
Fit(c, lo, hi) ==
  LET len == hi - lo + 1
      S(F(_)) == SumOf([j \in 1 .. len |-> F(lo + j - 1)], 1, len)
      sx == S(LAMBDA k : Int2Q(k))
      sy == S(LAMBDA k : c[k].close)
      den == QSub(QMul(Int2Q(len), S(LAMBDA k : Int2Q(k * k))), QMul(sx, sx))
      m == IF den = Zero THEN Zero
           ELSE QDiv(QSub(QMul(Int2Q(len), S(LAMBDA k : QMul(Int2Q(k), c[k].close))),
                          QMul(sx, sy)), den)
  IN [a |-> m, b |-> QDiv(QSub(sy, QMul(m, sx)), Int2Q(len))]

\* pane_signal: data is one fitted line per stretch of one regime, fit the line
\* through the last fitLook bars, curReg what the last bar is read as.
PaneSignal(c, o) ==
  LET n == Len(c)
      r == PaneReadings(c, o)
      comp == Composite(c, r, DivVotes(c, r.rsi, o), o)
      sm == PaneSmooth(comp, o.smooth)
      regime == Majority(Majority(RawRegime(r, sm, o), o.minSeg), o.minSeg)
      Start(i) == CHOOSE k \in 1 .. i : /\ \A j \in k .. i : regime[j] = regime[i]
                                        /\ k = 1 \/ regime[k - 1] # regime[i]
      End(i) == CHOOSE k \in i .. n : /\ \A j \in i .. k : regime[j] = regime[i]
                                      /\ k = n \/ regime[k + 1] # regime[i]
      look == IF n > o.fitLook THEN n - o.fitLook + 1 ELSE 1
  IN IF n < o.minBars
     THEN [ready |-> FALSE, regime |-> [i \in 1 .. n |-> 0], curReg |-> 0]
     ELSE [ready |-> TRUE, regime |-> regime, readings |-> r,
           data |-> Series(LAMBDA i : IF regime[i] = 0 THEN None
                                      ELSE ValueAt(Fit(c, Start(i), End(i)), i), n),
           fit |-> [from |-> look, line |-> Fit(c, look, n)],
           curReg |-> IF regime[n] # 0 THEN regime[n]
                      ELSE IF QLess(sm[n], Zero) THEN -1 ELSE 1]

\* markers_panemaster: the turns of the regime, then the first bar of each run
\* on which four readings are stretched in the regime's direction.
PaneMarkers(c, o) ==
  LET s == PaneSignal(c, o)
      n == Len(c)
      Turn(i) == i > 1 /\ s.regime[i] # s.regime[i - 1] /\ s.regime[i] # 0
      Spent(i) == \/ s.regime[i] = 1 /\ Stretched(s.readings, i, TRUE) >= 4
                  \/ s.regime[i] = -1 /\ Stretched(s.readings, i, FALSE) >= 4
      First(i) == Spent(i) /\ (i = 1 \/ s.regime[i - 1] # s.regime[i] \/ ~Spent(i - 1))
  IN IF ~s.ready THEN {}
     ELSE {[idx |-> i, up |-> s.regime[i] > 0, spent |-> ~Turn(i)] :
             i \in {j \in 1 .. n : Turn(j) \/ First(j)}}
=============================================================================
