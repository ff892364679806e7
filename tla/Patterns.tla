------------------------------ MODULE Patterns ------------------------------
(***************************************************************************)
(* The candlestick patterns of crates/core/src/patterns.rs.  A pattern gives *)
(* bar i of the bars c the signal 1 (bullish), -1 (bearish) or 0; the series *)
(* and the arrows it draws repeat that signal.  Operators are named after    *)
(* their d_ functions.                                                     *)
(***************************************************************************)
EXTENDS Averages

Body(k)  == QAbs(QSub(k.close, k.open))
\* range: at least 1e-9, so that a bar without range has a range.
Range(k) == QMax(QAbs(QSub(k.high, k.low)), Q(1, 1000))
Upper(k) == QSub(k.high, QMax(k.open, k.close))
Lower(k) == QSub(QMin(k.open, k.close), k.low)
IsBull(k) == QLess(k.open, k.close)
IsBear(k) == QLess(k.close, k.open)
Mid(k) == QDiv(QAdd(k.open, k.close), Int2Q(2))
Near(a, b, tol) == QLeq(QAbs(QSub(a, b)), tol)

\* At most / at least num/den of the bar's range.
AtMost(x, num, den, k)  == QLeq(x, QMul(Q(num, den), Range(k)))
AtLeast(x, num, den, k) == QLeq(QMul(Q(num, den), Range(k)), x)

IsDoji(k) == AtMost(Body(k), 1, 10, k)

Hammerish(k) == /\ QLeq(QMul(Int2Q(2), Body(k)), Lower(k))
                /\ QLeq(Upper(k), QMax(Body(k), QMul(Q(1, 10), Range(k))))
Starish(k)   == /\ QLeq(QMul(Int2Q(2), Body(k)), Upper(k))
                /\ QLeq(Lower(k), QMax(Body(k), QMul(Q(1, 10), Range(k))))

\* The two colours of a pattern whose direction is the bar's own: a bar that
\* closes where it opened counts as bearish.
Colour(k) == IF IsBull(k) THEN 1 ELSE -1
When(cond, signal) == IF cond THEN signal ELSE 0

\* The bar is bar i; the first bars of the chart have no earlier ones.
Two(c, i, P(_, _)) == i >= 2 /\ P(c[i - 1], c[i])
Three(c, i, P(_, _, _)) == i >= 3 /\ P(c[i - 2], c[i - 1], c[i])

-----------------------------------------------------------------------------
Doji(c, i)       == When(IsDoji(c[i]), Colour(c[i]))
Dragonfly(c, i)  == LET k == c[i] IN
  When(IsDoji(k) /\ AtLeast(Lower(k), 6, 10, k) /\ AtMost(Upper(k), 15, 100, k), 1)
Gravestone(c, i) == LET k == c[i] IN
  When(IsDoji(k) /\ AtLeast(Upper(k), 6, 10, k) /\ AtMost(Lower(k), 15, 100, k), -1)
Hammer(c, i)         == When(Hammerish(c[i]), 1)
InvertedHammer(c, i) == When(Starish(c[i]), 1)
HangingMan(c, i)   == When(Two(c, i, LAMBDA p, k : Hammerish(k) /\ IsBull(p)), -1)
ShootingStar(c, i) == When(Two(c, i, LAMBDA p, k : Starish(k) /\ IsBull(p)), -1)

BullEngulf(c, i) ==
  When(Two(c, i, LAMBDA p, k : /\ IsBear(p) /\ IsBull(k)
                               /\ QLeq(k.open, p.close) /\ QLeq(p.open, k.close)), 1)
BearEngulf(c, i) ==
  When(Two(c, i, LAMBDA p, k : /\ IsBull(p) /\ IsBear(k)
                               /\ QLeq(p.close, k.open) /\ QLeq(k.close, p.open)), -1)
BullHarami(c, i) ==
  When(Two(c, i, LAMBDA p, k : /\ IsBear(p) /\ IsBull(k) /\ QLess(p.close, k.open)
                               /\ QLess(k.close, p.open) /\ QLess(Body(k), Body(p))), 1)
BearHarami(c, i) ==
  When(Two(c, i, LAMBDA p, k : /\ IsBull(p) /\ IsBear(k) /\ QLess(k.open, p.close)
                               /\ QLess(p.open, k.close) /\ QLess(Body(k), Body(p))), -1)
Piercing(c, i) ==
  When(Two(c, i, LAMBDA p, k : /\ IsBear(p) /\ IsBull(k) /\ QLess(k.open, p.close)
                               /\ QLess(Mid(p), k.close) /\ QLess(k.close, p.open)), 1)
DarkCloud(c, i) ==
  When(Two(c, i, LAMBDA p, k : /\ IsBull(p) /\ IsBear(k) /\ QLess(p.close, k.open)
                               /\ QLess(k.close, Mid(p)) /\ QLess(p.open, k.close)), -1)

MorningStar(c, i) ==
  When(Three(c, i, LAMBDA a, b, k : /\ IsBear(a) /\ QLess(Body(b), Body(a))
                                    /\ IsBull(k) /\ QLess(Mid(a), k.close)), 1)
EveningStar(c, i) ==
  When(Three(c, i, LAMBDA a, b, k : /\ IsBull(a) /\ QLess(Body(b), Body(a))
                                    /\ IsBear(k) /\ QLess(k.close, Mid(a))), -1)
MorningDojiStar(c, i) ==
  When(Three(c, i, LAMBDA a, b, k : /\ IsBear(a) /\ IsDoji(b)
                                    /\ IsBull(k) /\ QLess(Mid(a), k.close)), 1)
ThreeWhiteSoldiers(c, i) ==
  When(Three(c, i, LAMBDA a, b, k : /\ IsBull(a) /\ IsBull(b) /\ IsBull(k)
                                    /\ QLess(a.close, b.close) /\ QLess(b.close, k.close)), 1)
ThreeBlackCrows(c, i) ==
  When(Three(c, i, LAMBDA a, b, k : /\ IsBear(a) /\ IsBear(b) /\ IsBear(k)
                                    /\ QLess(b.close, a.close) /\ QLess(k.close, b.close)), -1)

BullMarubozu(c, i) == When(IsBull(c[i]) /\ AtLeast(Body(c[i]), 9, 10, c[i]), 1)
BearMarubozu(c, i) == When(IsBear(c[i]) /\ AtLeast(Body(c[i]), 9, 10, c[i]), -1)
SpinningTop(c, i) == LET k == c[i] IN
  When(AtMost(Body(k), 3, 10, k) /\ AtLeast(Upper(k), 2, 10, k)
       /\ AtLeast(Lower(k), 2, 10, k), Colour(k))
InsideBar(c, i) ==
  When(Two(c, i, LAMBDA p, k : QLess(k.high, p.high) /\ QLess(p.low, k.low)), Colour(c[i]))
OutsideBar(c, i) ==
  When(Two(c, i, LAMBDA p, k : QLess(p.high, k.high) /\ QLess(k.low, p.low)), Colour(c[i]))

\* Equal lows (highs), to a thousandth of the price or of 1.
TweezerBottom(c, i) ==
  When(Two(c, i, LAMBDA p, k : /\ IsBear(p) /\ IsBull(k)
                               /\ Near(k.low, p.low, QMul(Q(1, 1000), QMax(k.low, One)))), 1)
TweezerTop(c, i) ==
  When(Two(c, i, LAMBDA p, k : /\ IsBull(p) /\ IsBear(k)
                               /\ Near(k.high, p.high, QMul(Q(1, 1000), QMax(k.high, One)))), -1)
BullBeltHold(c, i) == LET k == c[i] IN
  When(IsBull(k) /\ AtLeast(Body(k), 7, 10, k)
       /\ Near(k.open, k.low, QMul(Q(1, 20), Range(k))), 1)
BearBeltHold(c, i) == LET k == c[i] IN
  When(IsBear(k) /\ AtLeast(Body(k), 7, 10, k)
       /\ Near(k.open, k.high, QMul(Q(1, 20), Range(k))), -1)

\* registry_into: every pattern is drawn as one series and one set of arrows.
PatternSignals(c, i) ==
  [doji |-> Doji(c, i), dragonfly |-> Dragonfly(c, i), gravestone |-> Gravestone(c, i),
   hammer |-> Hammer(c, i), inverted_hammer |-> InvertedHammer(c, i),
   hanging_man |-> HangingMan(c, i), shooting_star |-> ShootingStar(c, i),
   bull_engulfing |-> BullEngulf(c, i), bear_engulfing |-> BearEngulf(c, i),
   bull_harami |-> BullHarami(c, i), bear_harami |-> BearHarami(c, i),
   piercing |-> Piercing(c, i), dark_cloud |-> DarkCloud(c, i),
   morning_star |-> MorningStar(c, i), evening_star |-> EveningStar(c, i),
   morning_doji_star |-> MorningDojiStar(c, i),
   three_white_soldiers |-> ThreeWhiteSoldiers(c, i),
   three_black_crows |-> ThreeBlackCrows(c, i),
   bull_marubozu |-> BullMarubozu(c, i), bear_marubozu |-> BearMarubozu(c, i),
   spinning_top |-> SpinningTop(c, i), inside_bar |-> InsideBar(c, i),
   outside_bar |-> OutsideBar(c, i), tweezer_bottom |-> TweezerBottom(c, i),
   tweezer_top |-> TweezerTop(c, i), bull_belt_hold |-> BullBeltHold(c, i),
   bear_belt_hold |-> BearBeltHold(c, i)]
=============================================================================
