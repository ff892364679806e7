----------------------------- MODULE Indicators -----------------------------
(***************************************************************************)
(* The standard indicators of crates/core/src/indicators.rs, as functions   *)
(* of the bars c (a sequence of records open, high, low, close, volume) and  *)
(* of their numeric inputs.  Each is named after its compute_ function and   *)
(* returns the series it draws, before points_from drops what is not finite. *)
(* Colours, line widths and the settings map are left out.                  *)
(***************************************************************************)
EXTENDS Averages

Hundred == Int2Q(100)
Pct(x, y) == QMul(QDiv(x, y), Hundred)
Halve(x, y) == QDiv(QAdd(x, y), Int2Q(2))

Closes(c)  == SrcArr(c, "close")
Highs(c)   == SrcArr(c, "high")
Lows(c)    == SrcArr(c, "low")
Volumes(c) == Series(LAMBDA i : c[i].volume, Len(c))

\* One value per bar, from the running total of Delta.
Running(Delta(_), n) ==
  LET Step(x, i) == QAdd(x, Delta(i)) IN Scan(Step, Zero, n)

\* Value(i) from the bar that completes the first window of p bars.
FromWindow(p, Value(_), n) ==
  Series(LAMBDA i : IF i < p THEN None ELSE Value(i), n)

-----------------------------------------------------------------------------
(* Moving averages, bands and channels.                                    *)

Ema(c, p)  == EmaArr(Closes(c), p)
Ma(c, p)   == SmaArr(Closes(c), p)
Smma(c, p) == WilderArr(Closes(c), p)
Atr(c, p)  == WilderArr(TrArr(c), p)

\* The weighted mean inside compute_hma: the newest bar weighs p.
Wma(vals, p) ==
  LET Weighted(i) == SumOf([k \in 1 .. p |-> QMul(vals[i - p + k], Int2Q(k))], 1, p)
  IN FromWindow(p, LAMBDA i : QDiv(Weighted(i), Q(p * (p + 1), 2)), Len(vals))

\* sq is the rounded square root of len, which must be at least 1 here as the
\* code's max(1) makes it.  Bars without a raw value count as 0 in the last
\* smoothing.
Hma(c, len, sq) ==
  LET src  == Closes(c)
      half == IF len \div 2 < 1 THEN 1 ELSE len \div 2
      raw  == Both(Wma(src, half), Wma(src, len),
                   LAMBDA a, b : QSub(QMul(Int2Q(2), a), b))
      sm   == Wma(Filled(raw), sq)
  IN Series(LAMBDA i : IF raw[i] = None THEN None ELSE sm[i], Len(c))

\* compute_bb, and the bands inside compute_bollinger_b and compute_sqzmom.
Bb(c, p, mult) ==
  LET mid == Ma(c, p)
      sd  == StdevArr(Closes(c), p)
      Band(s) == Both(mid, sd, LAMBDA m, d : QAdd(m, QMul(QMul(s, mult), d)))
  IN [up |-> Band(One), mid |-> mid, lo |-> Band(QNeg(One))]

BollingerB(c, p, mult) ==
  LET bb == Bb(c, p, mult)
  IN Series(LAMBDA i :
       IF bb.up[i] = None THEN None
       ELSE LET range == QSub(bb.up[i], bb.lo[i])
            IN IF range = Zero THEN Zero
               ELSE QDiv(QSub(c[i].close, bb.lo[i]), range), Len(c))

Bbw(c, p, mult) ==
  Both(Ma(c, p), StdevArr(Closes(c), p),
       LAMBDA m, s : IF m = Zero THEN None
                     ELSE Pct(QMul(QMul(Int2Q(2), mult), s), m))

\* compute_bbpct keeps running sums of the values and of their squares, clamps
\* the variance they give at 0, and smooths the bars from the first full window.
BbPct(c, len, mult, smooth) ==
  LET src == Closes(c)
      n   == Len(c)
      sq  == Series(LAMBDA i : QMul(src[i], src[i]), n)
      sum == RunningSums(src, len)
      sumsq == RunningSums(sq, len)
      Mean(i) == QDiv(sum[i], Int2Q(len))
      Sd(i)   == QRoot(QMax(QSub(QDiv(sumsq[i], Int2Q(len)),
                                 QMul(Mean(i), Mean(i))), Zero))
      Pb(i)   == LET w == QMul(mult, Sd(i))
                     lo == QSub(Mean(i), w)
                     range == QMul(Int2Q(2), w)
                 IN IF QLess(Zero, range) THEN QDiv(QSub(src[i], lo), range)
                    ELSE Q(1, 2)
      valid   == IF n < len THEN <<>>
                 ELSE Series(LAMBDA k : Pb(len - 1 + k), n - len + 1)
      sm      == SmaArrTolerant(valid, smooth)
  IN FromWindow(len, LAMBDA i : sm[i - len + 1], n)

Donchian(c, p) ==
  LET hh == HighestArr(Highs(c), p)
      ll == LowestArr(Lows(c), p)
  IN [up |-> hh, mid |-> Both(hh, ll, Halve), lo |-> ll]

\* compute_pc draws the channel without its middle.
Pc(c, p) == LET d == Donchian(c, p) IN [up |-> d.up, lo |-> d.lo]

Keltner(c, p, mult) ==
  LET mid == Ema(c, p)
      atr == Atr(c, p)
      Band(s) == Both(mid, atr, LAMBDA m, a : QAdd(m, QMul(QMul(s, mult), a)))
  IN [up |-> Band(One), mid |-> mid, lo |-> Band(QNeg(One))]

Chandelier(c, p, mult) ==
  LET d == Donchian(c, p)
      a == Atr(c, p)
  IN [long  |-> Both(d.up, a, LAMBDA h, x : QSub(h, QMul(mult, x))),
      short |-> Both(d.lo, a, LAMBDA l, x : QAdd(l, QMul(mult, x)))]

\* The lead spans are the averages of disp = kijun bars earlier.
Ichimoku(c, tenkan, kijun, senkou) ==
  LET t == Donchian(c, tenkan).mid
      k == Donchian(c, kijun).mid
      s == Donchian(c, senkou).mid
      Ahead(f, g) == Series(LAMBDA i :
                       IF i <= kijun \/ f[i - kijun] = None \/ g[i - kijun] = None
                       THEN None ELSE Halve(f[i - kijun], g[i - kijun]), Len(c))
  IN [tenkan |-> t, kijun |-> k, spanA |-> Ahead(t, k), spanB |-> Ahead(s, s)]

\* The band a bar is tested against is the one its own close and the previous
\* close have just moved; the trend turns after the bands did.
SuperTrend(c, period, factor) ==
  LET atr == Atr(c, period)
      Step(s, i) ==
        IF atr[i] = None THEN s
        ELSE LET mid == Halve(c[i].high, c[i].low)
                 bu == QAdd(mid, QMul(factor, atr[i]))
                 bl == QSub(mid, QMul(factor, atr[i]))
                 fu == IF ~s.started \/ QLess(bu, s.fu) \/ QLess(s.fu, c[i - 1].close)
                       THEN bu ELSE s.fu
                 fl == IF ~s.started \/ QLess(s.fl, bl) \/ QLess(c[i - 1].close, s.fl)
                       THEN bl ELSE s.fl
                 trend == IF s.started /\ s.trend = 1 /\ QLess(c[i].close, fl) THEN -1
                          ELSE IF s.started /\ s.trend = -1 /\ QLess(fu, c[i].close)
                          THEN 1 ELSE s.trend
             IN [started |-> TRUE, fu |-> fu, fl |-> fl, trend |-> trend]
  IN Scan(Step, [started |-> FALSE, fu |-> Zero, fl |-> Zero, trend |-> 1], Len(c))

SuperTrendLine(c, period, factor) ==
  LET s == SuperTrend(c, period, factor)
  IN Series(LAMBDA i : IF ~s[i].started THEN None
                       ELSE IF s[i].trend = 1 THEN s[i].fl ELSE s[i].fu, Len(c))

-----------------------------------------------------------------------------
(* Momentum and oscillators.                                               *)

Ao(c, fast, slow) ==
  LET med == SrcArr(c, "hl2") IN Both(SmaArr(med, fast), SmaArr(med, slow), QSub)

\* compute_macd: where the fast or slow average is missing, 0 goes into the
\* signal's average.
Macd(c, fast, slow, sig) ==
  LET macd   == Both(Ema(c, fast), Ema(c, slow), QSub)
      signal == EmaArr(Filled(macd), sig)
  IN [line |-> macd, signal |-> signal, hist |-> Both(macd, signal, QSub)]

PpoLine(c, fast, slow) ==
  Both(Ema(c, fast), Ema(c, slow), LAMBDA a, b : IF b = Zero THEN None ELSE Pct(QSub(a, b), b))

Ppo(c, fast, slow, sig) ==
  LET ppo    == PpoLine(c, fast, slow)
      signal == EmaArr(Filled(ppo), sig)
  IN [line |-> ppo, signal |-> signal, hist |-> Both(ppo, signal, QSub)]

\* The directional movement of a bar is its larger one, never both.
Adx(c, p) ==
  LET n == Len(c)
      Um(i) == QSub(c[i].high, c[i - 1].high)
      Dm(i) == QSub(c[i - 1].low, c[i].low)
      Larger(x, y) == IF QLess(y, x) /\ QLess(Zero, x) THEN x ELSE Zero
      up == Series(LAMBDA i : IF i = 1 THEN Zero ELSE Larger(Um(i), Dm(i)), n)
      dn == Series(LAMBDA i : IF i = 1 THEN Zero ELSE Larger(Dm(i), Um(i)), n)
      tr == Atr(c, p)
      Di(moves) == Both(tr, WilderArr(moves, p),
                        LAMBDA t, m : IF t = Zero THEN None ELSE Pct(m, t))
      plus  == Di(up)
      minus == Di(dn)
      dx == Both(plus, minus, LAMBDA x, y :
              IF QAdd(x, y) = Zero THEN Zero
              ELSE Pct(QAbs(QSub(x, y)), QAdd(x, y)))
  IN [adx |-> WilderArr(Filled(dx), p), plus |-> plus, minus |-> minus]

\* The mistake OscillatorsInRange is for: a window in which nothing moved.
StrengthUnguarded(gain, loss) ==
  QSub(Hundred, QDiv(Hundred, QAdd(One, QDiv(gain, loss))))

\* 100 - 100 / (1 + gain / loss), and 100 when nothing was lost.
Strength(gain, loss) ==
  IF loss = Zero THEN Hundred
  ELSE QSub(Hundred, QDiv(Hundred, QAdd(One, QDiv(gain, loss))))

Rsi(c, len) ==
  LET src == Closes(c)
      n   == Len(c)
      D(i) == QSub(src[i], src[i - 1])
      gains  == Series(LAMBDA i : QMax(D(i + 1), Zero), n - 1)
      losses == Series(LAMBDA i : QMax(QNeg(D(i + 1)), Zero), n - 1)
      ag == WilderArr(gains, len)
      al == WilderArr(losses, len)
  IN IF n <= len THEN Blank(n)
     ELSE Series(LAMBDA i : IF i <= len THEN None
                            ELSE Strength(ag[i - 1], al[i - 1]), n)

\* The window's first bar is compared with the bar before the window.
Mfi(c, p) ==
  LET tp == SrcArr(c, "hlc3")
      Flow(i, Moved(_, _)) ==
        LET F(j) == IF j = 1 \/ ~Moved(tp[j - 1], tp[j]) THEN Zero
                    ELSE QMul(tp[j], c[j].volume)
        IN SumOf([k \in 1 .. p |-> F(i - p + k)], 1, p)
  IN FromWindow(p, LAMBDA i : Strength(Flow(i, QLess),
                                       Flow(i, LAMBDA x, y : QLess(y, x))), Len(c))

WilliamsR(c, p) ==
  LET d == Donchian(c, p)
  IN Series(LAMBDA i :
       IF d.up[i] = None \/ d.up[i] = d.lo[i] THEN None
       ELSE QNeg(Pct(QSub(d.up[i], c[i].close), QSub(d.up[i], d.lo[i]))), Len(c))

\* Epsilon stands for f64::EPSILON, which keeps the quotients finite.
Uo(c, p1, p2, p3) ==
  LET Epsilon == Q(1, 1000)
      n  == Len(c)
      TrueLow(i)  == QMin(c[i].low, c[i - 1].close)
      TrueHigh(i) == QMax(c[i].high, c[i - 1].close)
      bp == Series(LAMBDA i : IF i = 1 THEN Zero ELSE QSub(c[i].close, TrueLow(i)), n)
      tr == Series(LAMBDA i : IF i = 1 THEN Zero ELSE QSub(TrueHigh(i), TrueLow(i)), n)
      A(i, p) == QDiv(SumOf(bp, i + 1 - p, i), QMax(SumOf(tr, i + 1 - p, i), Epsilon))
      Value(i) == QDiv(QMul(Hundred, QAdd(QAdd(QMul(Int2Q(4), A(i, p1)),
                                               QMul(Int2Q(2), A(i, p2))), A(i, p3))),
                       Int2Q(7))
  IN FromWindow(p3, Value, n)

Cci(c, p) ==
  LET tp == SrcArr(c, "hlc3")
      ma == SmaArr(tp, p)
      Dev(i) == QDiv(SumOf([k \in 1 .. p |-> QAbs(QSub(tp[i - p + k], ma[i]))], 1, p),
                     Int2Q(p))
  IN Series(LAMBDA i : IF ma[i] = None THEN None
                       ELSE IF Dev(i) = Zero THEN Zero
                       ELSE QDiv(QSub(tp[i], ma[i]), QMul(Q(3, 200), Dev(i))), Len(c))

\* The latest of equal highs (lows) counts.
Aroon(c, p) ==
  LET Latest(i, Beats(_, _)) ==
        CHOOSE j \in i + 1 - p .. i :
          /\ \A k \in i + 1 - p .. i : ~Beats(k, j)
          /\ \A k \in j + 1 .. i : Beats(j, k)
      Up(i) == Latest(i, LAMBDA k, j : QLess(c[j].high, c[k].high))
      Dn(i) == Latest(i, LAMBDA k, j : QLess(c[k].low, c[j].low))
      Score(i, j) == Q(100 * (p - (i - j)), p)
  IN [up   |-> FromWindow(p, LAMBDA i : Score(i, Up(i)), Len(c)),
      down |-> FromWindow(p, LAMBDA i : Score(i, Dn(i)), Len(c))]

Vortex(c, p) ==
  LET n == Len(c)
      plus  == Series(LAMBDA i : IF i = 1 THEN Zero
                                 ELSE QAbs(QSub(c[i].high, c[i - 1].low)), n)
      minus == Series(LAMBDA i : IF i = 1 THEN Zero
                                 ELSE QAbs(QSub(c[i].low, c[i - 1].high)), n)
      full  == TrArr(c)
      tr    == Series(LAMBDA i : IF i = 1 THEN Zero ELSE full[i], n)
      Vi(vm) == FromWindow(p, LAMBDA i :
                  LET st == SumOf(tr, i + 1 - p, i)
                  IN IF st = Zero THEN None
                     ELSE QDiv(SumOf(vm, i + 1 - p, i), st), n)
  IN [plus |-> Vi(plus), minus |-> Vi(minus)]

\* Missing entries count as 0 in both smoothings; a bar is drawn once the first
\* smoothing has a value there.
Tsi(c, long, short) ==
  LET n == Len(c)
      mom == Series(LAMBDA i : IF i = 1 THEN Zero
                               ELSE QSub(c[i].close, c[i - 1].close), n)
      mag == Series(LAMBDA i : QAbs(mom[i]), n)
      e1  == EmaArr(mom, long)
      s1  == EmaArr(Filled(e1), short)
      s2  == EmaArr(Filled(EmaArr(mag, long)), short)
      tsi == Both(s1, s2, LAMBDA a, b : IF b = Zero THEN None ELSE Pct(a, b))
  IN Series(LAMBDA i : IF e1[i] = None THEN None ELSE tsi[i], n)

\* %K of the RSI and its smoothings; RSI bars without a value count as 0 in the
\* window's extremes, and %K bars without one in the averages.
StochRsi(c, rsiLen, stochLen, kLen, dLen) ==
  LET rsi == Rsi(c, rsiLen)
      f   == Filled(rsi)
      hh  == HighestArr(f, stochLen)
      ll  == LowestArr(f, stochLen)
      raw == Series(LAMBDA i :
               IF rsi[i] = None \/ hh[i] = None THEN None
               ELSE IF hh[i] = ll[i] THEN Zero
               ELSE Pct(QSub(f[i], ll[i]), QSub(hh[i], ll[i])), Len(c))
      k   == SmaArr(Filled(raw), kLen)
      d   == SmaArr(Filled(k), dLen)
  IN [k |-> Series(LAMBDA i : IF raw[i] = None THEN None ELSE k[i], Len(c)),
      d |-> Series(LAMBDA i : IF k[i] = None THEN None ELSE d[i], Len(c))]

Dpo(c, p) ==
  LET sm == Ma(c, p)
      shift == (p \div 2) + 1
  IN Series(LAMBDA i : IF i <= shift \/ sm[i - shift] = None THEN None
                       ELSE QSub(c[i].close, sm[i - shift]), Len(c))

\* compute_sqzmom: the end of the regression line through the window's closes
\* less the middle of channel and mean; bars before the window's own averages
\* exist take those of bar i.  The squeeze flags the code computes are unused.
SqzMom(c, p) ==
  LET basis == Ma(c, p)
      chan  == Donchian(c, p).mid
      Y(i, j) == LET at == IF basis[j] = None THEN i ELSE j
                 IN QSub(c[j].close, Halve(chan[at], basis[at]))
      Sum(F(_)) == SumOf([k \in 1 .. p |-> F(k)], 1, p)
      sumX  == Int2Q((p * (p - 1)) \div 2)
      sumXX == Sum(LAMBDA k : Int2Q((k - 1) * (k - 1)))
      denom == QSub(QMul(Int2Q(p), sumXX), QMul(sumX, sumX))
      Fit(i) == LET sumY  == Sum(LAMBDA k : Y(i, i - p + k))
                    sumXY == Sum(LAMBDA k : QMul(Int2Q(k - 1), Y(i, i - p + k)))
                    slope == QDiv(QSub(QMul(Int2Q(p), sumXY), QMul(sumX, sumY)), denom)
                    inter == QDiv(QSub(sumY, QMul(slope, sumX)), Int2Q(p))
                IN QAdd(inter, QMul(slope, Int2Q(p - 1)))
  IN FromWindow(p, LAMBDA i : IF denom = Zero THEN None ELSE Fit(i), Len(c))

-----------------------------------------------------------------------------
(* Volume.                                                                 *)

\* Where the close sits in the bar's range, from -1 to 1.
Multiplier(b) ==
  LET range == QSub(b.high, b.low)
  IN IF range = Zero THEN Zero
     ELSE QDiv(QSub(QSub(b.close, b.low), QSub(b.high, b.close)), range)

Obv(c) ==
  Running(LAMBDA i :
    IF i = 1 \/ c[i].close = c[i - 1].close THEN Zero
    ELSE IF QLess(c[i - 1].close, c[i].close) THEN c[i].volume
    ELSE QNeg(c[i].volume), Len(c))

Ad(c) == Running(LAMBDA i : QMul(Multiplier(c[i]), c[i].volume), Len(c))

Pvt(c) ==
  Running(LAMBDA i :
    IF i = 1 \/ c[i - 1].close = Zero THEN Zero
    ELSE QMul(QDiv(QSub(c[i].close, c[i - 1].close), c[i - 1].close), c[i].volume),
    Len(c))

VolOsc(c, fast, slow) ==
  Both(SmaArr(Volumes(c), fast), SmaArr(Volumes(c), slow),
       LAMBDA a, b : IF b = Zero THEN None ELSE Pct(QSub(a, b), b))

\* From the first bar of the chart, whatever day it is of.
Vwap(c) ==
  LET tp == SrcArr(c, "hlc3")
      pv == Running(LAMBDA i : QMul(tp[i], c[i].volume), Len(c))
      v  == Running(LAMBDA i : c[i].volume, Len(c))
  IN Series(LAMBDA i : IF v[i] = Zero THEN tp[i] ELSE QDiv(pv[i], v[i]), Len(c))

Cmf(c, p) ==
  LET mfv == Series(LAMBDA i : QMul(Multiplier(c[i]), c[i].volume), Len(c))
  IN FromWindow(p, LAMBDA i :
       LET v == SumOf(Volumes(c), i + 1 - p, i)
       IN IF v = Zero THEN Zero ELSE QDiv(SumOf(mfv, i + 1 - p, i), v), Len(c))

ElderForce(c, p) ==
  LET raw == Series(LAMBDA i :
               IF i = 1 THEN Zero
               ELSE QMul(QSub(c[i].close, c[i - 1].close), c[i].volume), Len(c))
      ema == EmaArr(raw, p)
  IN Series(LAMBDA i : IF i = 1 THEN None ELSE ema[i], Len(c))

\* compute_smiio: the twice smoothed change over the twice smoothed movement.
Smiio(c, short, long, sig) ==
  LET n == Len(c)
      change == Series(LAMBDA i : IF i = 1 THEN Zero
                                  ELSE QSub(c[i].close, c[i - 1].close), n)
      Twice(v) == EmaArr(Filled(EmaArr(v, short)), long)
      num == Twice(change)
      den == Twice(Series(LAMBDA i : QAbs(change[i]), n))
      smi == Series(LAMBDA i : IF den[i] = None \/ den[i] = Zero THEN None
                               ELSE Pct(IF num[i] = None THEN Zero ELSE num[i], den[i]), n)
      signal == EmaArr(Filled(smi), sig)
  IN [smi |-> smi, signal |-> signal, hist |-> Both(smi, signal, QSub)]

\* compute_smf: where the bars of the window close within their range, weighted
\* by volume; a burst of volume weighs at most cap times its own average.
Smf(c, look, sig, volLen, cap) ==
  LET n == Len(c)
      vols == RunningSums(Volumes(c), volLen)
      Avg(i) == QDiv(vols[i], Int2Q(IF i < volLen THEN i ELSE volLen))
      Weight(i) == QMul(c[i].volume,
                        IF QLess(Zero, Avg(i))
                        THEN QMin(QDiv(c[i].volume, Avg(i)), cap) ELSE One)
      den == RunningSums(Series(Weight, n), look)
      num == RunningSums(Series(LAMBDA i : QMul(Multiplier(c[i]), Weight(i)), n), look)
      smf == Series(LAMBDA i : IF i >= look /\ QLess(Zero, den[i])
                               THEN Pct(num[i], den[i]) ELSE Zero, n)
      signal == EmaArr(smf, sig)
      From(arr) == Series(LAMBDA i : IF i < look THEN None ELSE arr[i], n)
  IN [smf |-> From(smf), signal |-> From(signal),
      hist |-> Both(From(smf), From(signal), QSub)]
=============================================================================
