------------------------------ MODULE Rational ------------------------------
(***************************************************************************)
(* Exact fractions for the price arithmetic of crates/core.  The program    *)
(* computes in f64; here a value is the pair <<numerator, denominator>> in  *)
(* lowest terms with a denominator >= 0.  A zero denominator stands for what *)
(* IEEE division by zero produces: <<1, 0>> and <<-1, 0>> are the           *)
(* infinities and <<0, 0>> is NaN, and the operators below propagate them    *)
(* the way f64 does, so that a division the code fails to guard shows up.   *)
(* Rounding is not modelled.                                               *)
(***************************************************************************)
EXTENDS Integers

Abs(n) == IF n < 0 THEN -n ELSE n

Gcd(a, b) ==
  LET gcd[x \in Nat, y \in Nat] == IF y = 0 THEN x ELSE gcd[y, x % y]
  IN gcd[a, b]

\* The fraction n/d.
Q(n, d) ==
  IF d = 1 THEN <<n, 1>>
  ELSE IF d = 0 THEN <<IF n > 0 THEN 1 ELSE IF n < 0 THEN -1 ELSE 0, 0>>
  ELSE LET g == Gcd(Abs(n), Abs(d))
           s == IF d < 0 THEN -1 ELSE 1
       IN <<s * (n \div g), s * (d \div g)>>

Zero == <<0, 1>>
One  == <<1, 1>>
Int2Q(n) == <<n, 1>>

IsFinite(x) == x[2] # 0

QNeg(x)    == <<-x[1], x[2]>>
QAdd(x, y) == IF x[2] = y[2]
              THEN (IF x[2] = 1 THEN <<x[1] + y[1], 1>>
                    ELSE IF x[2] # 0 THEN Q(x[1] + y[1], x[2])
                    ELSE IF x = y THEN x ELSE <<0, 0>>)
              ELSE LET g == Gcd(x[2], y[2])
                   IN Q(x[1] * (y[2] \div g) + y[1] * (x[2] \div g),
                        x[2] * (y[2] \div g))
QSub(x, y) == QAdd(x, QNeg(y))
QMul(x, y) == IF x[2] = 0 \/ y[2] = 0 THEN Q(x[1] * y[1], 0)
              ELSE IF x[2] = 1 /\ y[2] = 1 THEN <<x[1] * y[1], 1>>
              ELSE LET a == Q(x[1], y[2])
                       b == Q(y[1], x[2])
                   IN <<a[1] * b[1], a[2] * b[2]>>
\* The sign of the zero a value is divided by is not kept: x / 0 has x's sign.
QDiv(x, y) == IF y[1] = 0 /\ y[2] # 0 THEN Q(x[1], 0)
              ELSE QMul(x, IF y[1] < 0 THEN <<-y[2], -y[1]>> ELSE <<y[2], y[1]>>)
QAbs(x)    == <<Abs(x[1]), x[2]>>

\* a/b < c/d for b, d > 0, by comparing the whole parts, then the reciprocals of
\* what remains: no product leaves TLC's integers.
Quads == Int \X (Nat \ {0}) \X Int \X (Nat \ {0})
Below(a, b, c, d) ==
  LET below[x \in Quads] ==
        LET n == x[1]  m == x[2]  p == x[3]  q == x[4]
        IN IF n \div m # p \div q THEN n \div m < p \div q
           ELSE p % q # 0 /\ (n % m = 0 \/ below[<<q, p % q, m, n % m>>])
  IN below[<<a, b, c, d>>]

QLess(x, y) == IF x[2] = 0 \/ y[2] = 0
               THEN x # y /\ <<0, 0>> \notin {x, y}
                    /\ (x = <<-1, 0>> \/ y = <<1, 0>>)
               ELSE IF x[2] = y[2] THEN x[1] < y[1]
               ELSE Below(x[1], x[2], y[1], y[2])
QLeq(x, y)  == x = y \/ QLess(x, y)
QMax(x, y)  == IF QLess(x, y) THEN y ELSE x
QMin(x, y)  == IF QLess(y, x) THEN y ELSE x
QClamp(x, lo, hi) == QMin(QMax(x, lo), hi)

\* To hundredths, halves away from zero: keeps a long chain of averages within
\* TLC's integers where only comparisons with coarse thresholds follow.
QRound(x) ==
  IF x[2] = 0 THEN x
  ELSE LET n == Abs(x[1])
           d == x[2]
           tenths == 10 * (n % d)
           rest   == 10 * (tenths % d)
           h == 100 * (n \div d) + 10 * (tenths \div d) + (2 * rest + d) \div (2 * d)
       IN Q(IF x[1] < 0 THEN -h ELSE h, 100)

\* f64::sqrt to one decimal, rounded down: monotone, and 0 only near 0.
QRoot(x) == Q(CHOOSE k \in 0 .. 400 :
                /\ k * k * x[2] <= 100 * x[1]
                /\ (k + 1) * (k + 1) * x[2] > 100 * x[1], 10)
=============================================================================
