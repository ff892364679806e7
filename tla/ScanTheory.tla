----------------------------- MODULE ScanTheory -----------------------------
(***************************************************************************)
(* Induction over data.  Least is the principle of the least number, and     *)
(* what follows from it for sets of numbers.  The rest is about a running     *)
(* loop: what a loop with the body Step leaves at each bar.  A module        *)
(* INSTANCEs this one with its own loop body.  p holds what the body reads    *)
(* beside the state and the bar.                                           *)
(***************************************************************************)
EXTENDS Integers, Sequences, WellFoundedInduction, TLAPS

CONSTANT Step(_, _, _)

\* Every set of natural numbers that is not empty has a least member.
LEMMA Least ==
  ASSUME NEW T \in SUBSET Nat, T # {}
  PROVE  \E m \in T : \A k \in T : m <= k
<1> DEFINE R == {ss \in Nat \X Nat : ss[1] < ss[2]}
<1>1. OpToRel(<, Nat) = R
  BY Zenon DEF OpToRel
<1>2. IsWellFoundedOn(R, Nat)
  BY <1>1, NatLessThanWellFounded, Zenon
<1> HIDE DEF R
<1>3. PICK m \in T : \A k \in T : ~(<<k, m>> \in R)
  BY <1>2, WFMin, Zenon
<1>4. \A i, j \in Nat : i < j => <<i, j>> \in R
  BY DEF R
<1>5. \A k \in T : ~(k < m)
  BY <1>3, <1>4, Zenon
<1> QED BY <1>5

\* Induction from 0 to n, for a set of numbers.
LEMMA Upwards ==
  ASSUME NEW n \in Nat, NEW S, 0 \in S, \A k \in 0 .. n - 1 : k \in S => k + 1 \in S
  PROVE  0 .. n \subseteq S
<1> SUFFICES ASSUME (0 .. n) \ S # {} PROVE FALSE
  OBVIOUS
<1>0. (0 .. n) \ S \in SUBSET Nat
  OBVIOUS
<1>1. PICK m \in (0 .. n) \ S : \A k \in (0 .. n) \ S : m <= k
  BY <1>0, Least
<1>2. m # 0 /\ m - 1 \in 0 .. n - 1 /\ m - 1 \notin (0 .. n) \ S
  BY <1>1
<1> QED BY <1>1, <1>2

\* The states a loop leads through from init.
Run(init, n, p) ==
  LET run[i \in 0 .. n] ==
        IF i = 0 THEN <<>>
        ELSE LET done == run[i - 1]
             IN Append(done, Step(IF i = 1 THEN init ELSE done[i - 1], i, p))
  IN run[n]

\* A sequence is known by its entries.
LEMMA Entries ==
  ASSUME NEW m \in Nat, NEW s, s = [j \in 1 .. m |-> s[j]], NEW x
  PROVE  /\ Len(s) = m
         /\ Append(s, x) = [j \in 1 .. m + 1 |-> IF j = m + 1 THEN x ELSE s[j]]
<1> DEFINE S == {s[j] : j \in 1 .. m} \cup {x}
<1>1. s \in Seq(S) /\ Len(s) = m
  OBVIOUS
<1> QED BY <1>1

\* g holds the state at each bar up to n.
States(g, init, n, p) == \A j \in 1 .. n : g[j] = Step(IF j = 1 THEN init ELSE g[j - 1], j, p)

\* There are such states.
LEMMA StatesExist ==
  ASSUME NEW n \in Nat, NEW init, NEW p
  PROVE  \E g : States(g, init, n, p)
<1> DEFINE S == {k \in 0 .. n : \E g : States(g, init, k, p)}
<1>1. 0 \in S
  BY DEF States
<1>2. ASSUME NEW k \in 0 .. n - 1, k \in S PROVE k + 1 \in S
  <2>1. PICK g : States(g, init, k, p)
    BY <1>2
  <2> DEFINE h == [j \in 1 .. k + 1 |-> IF j = k + 1 THEN Step(IF j = 1 THEN init ELSE g[j - 1], j, p)
                                        ELSE g[j]]
  <2>2. ASSUME NEW j \in 1 .. k + 1 PROVE h[j] = Step(IF j = 1 THEN init ELSE h[j - 1], j, p)
    <3>1. j > 1 => h[j - 1] = g[j - 1]
      OBVIOUS
    <3> QED BY <2>1, <3>1 DEF States
  <2>3. k + 1 \in 0 .. n
    OBVIOUS
  <2> HIDE DEF h
  <2>4. States(h, init, k + 1, p)
    BY <2>2, Zenon DEF States
  <2> QED BY <2>3, <2>4
<1> HIDE DEF S
<1>3. 0 .. n \subseteq S
  BY <1>1, <1>2, Upwards
<1>4. n \in S
  BY <1>3
<1> QED BY <1>4 DEF S

\* What the loop is defined by.
LEMMA Unfold ==
  ASSUME NEW n \in Nat, NEW init, NEW p
  PROVE  \E r : /\ r = [i \in 0 .. n |->
                         IF i = 0 THEN <<>>
                         ELSE Append(r[i - 1], Step(IF i = 1 THEN init ELSE r[i - 1][i - 1], i, p))]
                /\ Run(init, n, p) = r[n]
<1>1. PICK g : States(g, init, n, p)
  BY StatesExist
<1> DEFINE r == [i \in 0 .. n |-> [j \in 1 .. i |-> g[j]]]
<1>2. r = [i \in 0 .. n |->
             IF i = 0 THEN <<>>
             ELSE Append(r[i - 1], Step(IF i = 1 THEN init ELSE r[i - 1][i - 1], i, p))]
  <2> SUFFICES ASSUME NEW i \in 0 .. n
               PROVE  r[i] = IF i = 0 THEN <<>>
                             ELSE Append(r[i - 1], Step(IF i = 1 THEN init ELSE r[i - 1][i - 1], i, p))
    BY Zenon
  <2>1. CASE i = 0
    BY <2>1
  <2>2. CASE i # 0
    <3>1. i - 1 \in 0 .. n /\ i \in 1 .. n /\ i - 1 \in Nat
      BY <2>2
    <3>2. r[i] = [j \in 1 .. i |-> g[j]] /\ r[i - 1] = [j \in 1 .. i - 1 |-> g[j]]
      BY <3>1
    <3>3. g[i] = Step(IF i = 1 THEN init ELSE r[i - 1][i - 1], i, p)
      BY <1>1, <3>1, <3>2 DEF States
    <3>4. Append(r[i - 1], g[i]) = [j \in 1 .. i |-> IF j = i THEN g[i] ELSE r[i - 1][j]]
      BY <3>1, <3>2, Entries
    <3>5. \A j \in 1 .. i : (IF j = i THEN g[i] ELSE r[i - 1][j]) = g[j]
      BY <3>1, <3>2
    <3> QED BY <2>2, <3>2, <3>3, <3>4, <3>5
  <2> QED BY <2>1, <2>2
<1> HIDE DEF r
<1> QED BY <1>2 DEF Run

\* The state at a bar is what the body makes of the one before.
LEMMA RunIs ==
  ASSUME NEW n \in Nat, NEW init, NEW p
  PROVE  /\ Run(init, n, p) = [i \in 1 .. n |-> Run(init, n, p)[i]]
         /\ Len(Run(init, n, p)) = n
         /\ \A i \in 1 .. n :
              Run(init, n, p)[i] = Step(IF i = 1 THEN init ELSE Run(init, n, p)[i - 1], i, p)
<1>1. PICK r : /\ r = [i \in 0 .. n |->
                         IF i = 0 THEN <<>>
                         ELSE Append(r[i - 1], Step(IF i = 1 THEN init ELSE r[i - 1][i - 1], i, p))]
               /\ Run(init, n, p) = r[n]
  BY Unfold
<1> DEFINE S == {i \in 0 .. n : r[i] = [j \in 1 .. i |-> r[j][j]]}
<1>2. 0 \in S
  BY <1>1
<1>3. ASSUME NEW k \in 0 .. n - 1, k \in S PROVE k + 1 \in S
  <2>1. r[k + 1] = Append(r[k], Step(IF k + 1 = 1 THEN init ELSE r[k][k], k + 1, p))
    <3>1. k + 1 \in 0 .. n /\ k + 1 # 0 /\ (k + 1) - 1 = k
      OBVIOUS
    <3>2. r[k + 1] = IF k + 1 = 0 THEN <<>>
                     ELSE Append(r[(k + 1) - 1], Step(IF k + 1 = 1 THEN init ELSE r[(k + 1) - 1][(k + 1) - 1], k + 1, p))
      BY <1>1, <3>1, Zenon
    <3> QED BY <3>1, <3>2
  <2>2. r[k] = [j \in 1 .. k |-> r[k][j]] /\ \A j \in 1 .. k : r[k][j] = r[j][j]
    BY <1>3
  <2>3. r[k + 1] = [j \in 1 .. k + 1 |->
                      IF j = k + 1 THEN Step(IF k + 1 = 1 THEN init ELSE r[k][k], k + 1, p) ELSE r[k][j]]
    BY <2>1, <2>2, Entries
  <2>4. \A j \in 1 .. k + 1 : r[k + 1][j] = r[j][j]
    BY <2>2, <2>3
  <2>5. r[k + 1] = [j \in 1 .. k + 1 |-> r[j][j]]
    BY <2>3, <2>4
  <2> QED BY <2>5
<1> HIDE DEF S
<1>4. \A i \in 0 .. n : r[i] = [j \in 1 .. i |-> r[j][j]]
  BY <1>2, <1>3, Upwards DEF S
<1>5. \A i \in 1 .. n : r[i][i] = Step(IF i = 1 THEN init ELSE r[i - 1][i - 1], i, p)
  <2> TAKE i \in 1 .. n
  <2>1. r[i] = Append(r[i - 1], Step(IF i = 1 THEN init ELSE r[i - 1][i - 1], i, p))
    <3>1. i \in 0 .. n /\ i # 0
      OBVIOUS
    <3> QED BY <1>1, <3>1, Zenon
  <2>2. r[i - 1] = [j \in 1 .. i - 1 |-> r[i - 1][j]]
    <3>1. i - 1 \in 0 .. n
      OBVIOUS
    <3>2. r[i - 1] = [j \in 1 .. i - 1 |-> r[j][j]]
      BY <1>4, <3>1, Zenon
    <3> QED BY <3>2
  <2> QED BY <2>1, <2>2, Entries
<1>6. r[n] = [j \in 1 .. n |-> r[j][j]]
  BY <1>4
<1>7. \A i \in 1 .. n : r[n][i] = r[i][i] /\ (i > 1 => r[n][i - 1] = r[i - 1][i - 1])
  BY <1>6
<1>8. r[n] = [i \in 1 .. n |-> r[n][i]] /\ Len(r[n]) = n
  BY <1>6
<1>9. \A i \in 1 .. n : r[n][i] = Step(IF i = 1 THEN init ELSE r[n][i - 1], i, p)
  <2> TAKE i \in 1 .. n
  <2>1. CASE i = 1
    BY <1>5, <1>7, <2>1
  <2>2. CASE i > 1
    BY <1>5, <1>7, <2>2
  <2> QED BY <2>1, <2>2
<1> QED BY <1>1, <1>8, <1>9
=============================================================================
