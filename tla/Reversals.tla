----------------------------- MODULE Reversals -----------------------------
(***************************************************************************)
(* The two reversal engines of crates/core/src/engines.rs: the support /     *)
(* resistance + EMA state machine (srema_analyze) and RSI divergence.       *)
(***************************************************************************)
EXTENDS Swings

-----------------------------------------------------------------------------
(* srema_analyze: a touch of the last confirmed low (high) followed, within  *)
(* touchWindow bars, by an upward (downward) turn of the EMA.                *)

\* o: the numeric inputs.  State: the last confirmed low and high, the last
\* touch of each, the direction and the line drawn while there is one.
SremaStart ==
  [low |-> None, high |-> None, touchLow |-> None, touchHigh |-> None,
   state |-> 0, anchorIdx |-> 0, anchorPrice |-> None, slope |-> Zero, line |-> None]

\* A pivot replaces the last of its kind.
SremaSwing(s, new) ==
  LET Put(x, k) == IF new[k].isHigh THEN [x EXCEPT !.high = new[k].price]
                   ELSE [x EXCEPT !.low = new[k].price]
  IN IF new = <<>> THEN s ELSE Scan(Put, s, Len(new))[Len(new)]

SremaTouch(s, c, i, Tol(_)) ==
  LET atLow  == /\ s.low # None
                /\ QLeq(c[i].low, QAdd(s.low, Tol(s.low)))
                /\ QLeq(QSub(s.low, Tol(s.low)), c[i].close)
      atHigh == /\ s.high # None
                /\ QLeq(QSub(s.high, Tol(s.high)), c[i].high)
                /\ QLeq(c[i].close, QAdd(s.high, Tol(s.high)))
  IN [s EXCEPT !.touchLow  = IF atLow THEN [idx |-> i, price |-> c[i].low, lvl |-> s.low]
                             ELSE @,
               !.touchHigh = IF atHigh
                             THEN [idx |-> i, price |-> c[i].high, lvl |-> s.high] ELSE @]

\* Entering a direction: the line starts at the touch and heads for the last
\* confirmed swing on the other side, or moves by a quarter of the ATR.
SremaEnter(s, up, atr, o) ==
  LET t == IF up THEN s.touchLow ELSE s.touchHigh
      goal == IF up THEN s.high ELSE s.low
      ahead == goal # None /\ (IF up THEN QLess(t.price, goal) ELSE QLess(goal, t.price))
      at == IF atr[t.idx] = None THEN Zero ELSE atr[t.idx]
      floor == QMul(QAbs(t.price), o.pct)
      base == IF QLess(Zero, at) THEN at ELSE IF floor = Zero THEN One ELSE floor
      slope == IF ahead THEN QDiv(QSub(goal, t.price), Int2Q(o.fwd))
               ELSE QDiv(IF up THEN base ELSE QNeg(base), Int2Q(4))
  IN [s EXCEPT !.state = IF up THEN 1 ELSE -1, !.anchorIdx = t.idx,
               !.anchorPrice = t.price, !.slope = slope]

SremaTurn(s, c, i, g, atr, o) ==
  LET Rises(j) == g[j - 1] # None /\ g[j] # None /\ QLess(g[j - 1], g[j])
      Falls(j) == g[j - 1] # None /\ g[j] # None /\ QLess(g[j], g[j - 1])
      Level(j) == g[j - 1] # None /\ g[j] # None /\ ~Rises(j) /\ ~Falls(j)
      upTurn == i >= 2 /\ Rises(i) /\ (i < 3 \/ Falls(i - 1) \/ Level(i - 1))
      dnTurn == i >= 2 /\ Falls(i) /\ (i < 3 \/ Rises(i - 1) \/ Level(i - 1))
      bull == /\ s.touchLow # None /\ upTurn
              /\ i - s.touchLow.idx <= o.touchWindow /\ QLess(s.touchLow.lvl, c[i].close)
      bear == /\ s.touchHigh # None /\ dnTurn
              /\ i - s.touchHigh.idx <= o.touchWindow /\ QLess(c[i].close, s.touchHigh.lvl)
      lost == \/ s.state = 1 /\ s.low # None /\ QLess(c[i].close, s.low)
              \/ s.state = -1 /\ s.high # None /\ QLess(s.high, c[i].close)
  IN IF bull /\ ~bear THEN SremaEnter(s, TRUE, atr, o)
     ELSE IF bear /\ ~bull THEN SremaEnter(s, FALSE, atr, o)
     ELSE IF lost THEN [s EXCEPT !.state = 0, !.anchorIdx = 0, !.anchorPrice = None,
                                 !.slope = Zero]
     ELSE s

SremaAnalyze(c, o) ==
  LET piv == ZigZag(c, o.period, o.mult, o.pct)
      atr == WilderArr(TrArr(c), o.period)
      closes == SrcArr(c, "close")
      g == IF o.ema <= 1 THEN closes ELSE EmaArr(closes, o.ema)
      Tol(i, lvl) == QMax(IF atr[i] = None THEN Zero ELSE QMul(atr[i], o.touch),
                          QMul(QAbs(lvl), o.pct))
      Step(s, i) ==
        LET swung == SremaSwing(s, ConfirmedAt(piv, i))
            t == SremaTurn(SremaTouch(swung, c, i, LAMBDA lvl : Tol(i, lvl)), c, i, g, atr, o)
        IN [t EXCEPT !.line =
              IF t.state # 0
              THEN QAdd(t.anchorPrice, QMul(t.slope, Int2Q(i - t.anchorIdx))) ELSE None]
  IN IF Len(c) < 3 THEN Series(LAMBDA i : SremaStart, Len(c))
     ELSE Scan(Step, SremaStart, Len(c))

\* srema_run: the drawn part of the line, the last run of bars in state s.
SremaRun(a, s) ==
  LET ends == {i \in DOMAIN a : a[i].state = s}
      end == CHOOSE i \in ends : \A j \in ends : j <= i
      start == CHOOSE i \in 1 .. end :
                 /\ \A j \in i .. end : a[j].state = s
                 /\ i = 1 \/ a[i - 1].state # s
  IN IF ends = {} THEN <<>>
     ELSE Series(LAMBDA k : [idx |-> start + k - 1, value |-> a[start + k - 1].line],
                 end - start + 1)

-----------------------------------------------------------------------------
(* RSI divergence.                                                         *)

\* rsi_wilder: 50 while nothing moved at all.
RsiWilder(closes, len) ==
  LET n == Len(closes)
      D(i) == QSub(closes[i + 1], closes[i])
      ag == WilderArr(Series(LAMBDA i : QMax(D(i), Zero), n - 1), len)
      al == WilderArr(Series(LAMBDA i : QMax(QNeg(D(i)), Zero), n - 1), len)
      Value(g, l) == IF l = Zero THEN (IF g = Zero THEN Int2Q(50) ELSE Int2Q(100))
                     ELSE QSub(Int2Q(100), QDiv(Int2Q(100), QAdd(One, QDiv(g, l))))
  IN IF len < 1 \/ n < len + 1 THEN Blank(n)
     ELSE Series(LAMBDA i : IF i <= len THEN None ELSE Value(ag[i - 1], al[i - 1]), n)

\* Bars whose RSI beats that of every one of the p bars on each side.
RsiSwings(rsi, p, Beats(_, _)) ==
  {i \in p + 1 .. Len(rsi) - p :
     /\ rsi[i] # None
     /\ \A j \in (i - p .. i + p) \ {i} : rsi[j] # None /\ Beats(rsi[i], rsi[j])}

\* A high (low) diverges from the nearest earlier one within lookback that
\* price and RSI contradict; hidden when it is the price that lags.
SwingDivergence(swings, rsi, price, lookback, bull) ==
  LET Beyond(x, y) == IF bull THEN QLess(x, y) ELSE QLess(y, x)
      Regular(i, j) == Beyond(price[i], price[j]) /\ Beyond(rsi[j], rsi[i])
      Hidden(i, j)  == Beyond(price[j], price[i]) /\ Beyond(rsi[i], rsi[j])
      Refs(i) == {j \in swings : /\ j < i /\ i - j <= lookback
                                 /\ rsi[j] # rsi[i] /\ (Regular(i, j) \/ Hidden(i, j))}
      Ref(i) == CHOOSE j \in Refs(i) : \A k \in Refs(i) : k <= j
  IN {[index |-> i, bull |-> bull, hidden |-> Hidden(i, Ref(i))] :
        i \in {s \in swings : Refs(s) # {}}}

Divergence(c, len, pivot, lookback) ==
  LET rsi == RsiWilder(SrcArr(c, "close"), len)
      back == IF lookback < 2 * pivot THEN 2 * pivot ELSE lookback
      highs == RsiSwings(rsi, pivot, LAMBDA x, y : QLess(y, x))
      lows  == RsiSwings(rsi, pivot, QLess)
  IN SwingDivergence(highs, rsi, SrcArr(c, "high"), back, FALSE)
     \cup SwingDivergence(lows, rsi, SrcArr(c, "low"), back, TRUE)
=============================================================================
