---------------------------- MODULE ChartsProofs ----------------------------
(***************************************************************************)
(* Three verdicts of Charts proved for every chart and for all inputs: the      *)
(* trend core rests between its turns, a consensus turns exactly when its votes *)
(* and a break of the last swing say so, and zigzags go from one extreme to the  *)
(* next.  Each is an invariant of a loop of crates/core over the bars.  A loop   *)
(* is an instance of ScanTheory: its body reads the record in, what it leaves on *)
(* a bar is an entry of a sequence, and the invariant goes up bar by bar.       *)
(***************************************************************************)
EXTENDS Charts, TLAPS

-----------------------------------------------------------------------------
(* Series.                                                                  *)

\* A sequence is all of itself.
LEMMA WholeSeq ==
  ASSUME NEW n \in Nat, NEW f
  PROVE  SubSeq([i \in 1 .. n |-> f[i]], 1, n) = [i \in 1 .. n |-> f[i]]
<1> DEFINE g == [i \in 1 .. n |-> f[i]]
<1>1. g \in Seq({f[i] : i \in 1 .. n}) /\ Len(g) = n
  OBVIOUS
<1> QED BY <1>1

-----------------------------------------------------------------------------
(* The trend core.                                                          *)

Fields == {"dir", "stop", "pending", "grab", "threat"}
Pause(in) == IF in.wick > 2 THEN in.wick ELSE 2

\* A new trend.
Turned(s, i, in) ==
  s = [x \in Fields |-> s[x]] /\ s.dir \in {-1, 1} /\ s.grab = i + Pause(in)

\* What turn_to leaves is a new trend.
LEMMA TurnToIs ==
  ASSUME NEW up, NEW t, NEW c, NEW i, NEW in
  PROVE  Turned(TurnTo(up, t, c, i, in), i, in)
BY DEF TurnTo, Turned, Fields, Pause

\* One bar of the trend, in numbers: a turn puts the end of the rest behind it, no bar of the
\* rest turns, and the end never moves back.
Advances(s, s2, i, in) ==
  /\ s2 = [x \in Fields |-> s2[x]]
  /\ s2.dir \in {-1, 0, 1} /\ s2.grab \in Int
  /\ s.grab <= s2.grab /\ s2.grab <= i + Pause(in)
  /\ s.dir # 0 => s2.dir # 0
  /\ s2.dir # s.dir => s2.grab = i + Pause(in) /\ (s.dir = 0 \/ s.grab < i)

\* A bar before the first trend keeps to that.
LEMMA BeginAdvances ==
  ASSUME NEW s, NEW t, NEW c, NEW i \in Nat, NEW in, in.wick \in Nat,
         s = [x \in Fields |-> s[x]],
         s.dir = 0, s.grab \in Int, s.grab <= i - 1 + Pause(in)
  PROVE  Advances(s, TrendBegin([s EXCEPT !.threat = FALSE], t, c, i, in), i, in)
<1> DEFINE s1 == [s EXCEPT !.threat = FALSE]
<1>1. Pause(in) \in Nat
  BY DEF Pause
<1>2. s1 = [x \in Fields |-> s1[x]] /\ s1.dir = s.dir /\ s1.grab = s.grab
  BY DEF Fields
<1> HIDE DEF s1
<1>3. \/ TrendBegin(s1, t, c, i, in) = TurnTo(TRUE, t, c, i, in)
      \/ TrendBegin(s1, t, c, i, in) = TurnTo(FALSE, t, c, i, in)
      \/ TrendBegin(s1, t, c, i, in) = s1
  BY DEF TrendBegin
<1>4. ASSUME NEW s2, Turned(s2, i, in) PROVE Advances(s, s2, i, in)
  BY <1>1, <1>4 DEF Advances, Turned
<1>5. Advances(s, s1, i, in)
  BY <1>1, <1>2 DEF Advances
<1>6. Advances(s, TurnTo(TRUE, t, c, i, in), i, in) /\ Advances(s, TurnTo(FALSE, t, c, i, in), i, in)
  BY <1>4, TurnToIs
<1>7. Advances(s, TrendBegin(s1, t, c, i, in), i, in)
  BY <1>3, <1>5, <1>6
<1> QED BY <1>7 DEF s1

\* So does a bar of a trend.
LEMMA GoOnAdvances ==
  ASSUME NEW s, NEW t, NEW c, NEW i \in Nat, NEW in, in.wick \in Nat,
         s = [x \in Fields |-> s[x]],
         s.dir \in {-1, 1}, s.grab \in Int, s.grab <= i - 1 + Pause(in)
  PROVE  Advances(s, TrendGoOn(s, t, c, i, in), i, in)
<1> DEFINE up == s.dir = 1
           new == SelectSeq(t.piv, LAMBDA p : p.at = i /\ p.isHigh # up)
           stop == IF new # <<>> /\ ~Ahead(up, s.stop, new[1].price) THEN new[1].price ELSE s.stop
           local == Further(up, stop, IF up THEN t.lo[i - 1] ELSE t.hi[i - 1])
           swept == /\ Ahead(up, local, IF up THEN c[i].low ELSE c[i].high)
                    /\ Ahead(up, c[i].close, local)
           under == ~Ahead(up, c[i].close, local)
           grab == IF swept THEN i + Pause(in) ELSE s.grab
           judged == i > grab /\ ~swept
           pending == IF ~judged THEN s.pending ELSE IF under THEN s.pending + 1 ELSE 0
           fall == QSub(c[i - 1].close, c[i].close)
           crash == /\ i > in.railW + 1
                    /\ Ahead(up, c[i].open, c[i].close)
                    /\ QLeq(in.strong, IF up THEN QNeg(t.acc[i]) ELSE t.acc[i])
                    /\ QLeq(Frac(t.atr[i], 6, 10), IF up THEN fall ELSE QNeg(fall))
           turns == judged /\ under /\ (pending >= in.confirm \/ crash)
           next == IF turns THEN TurnTo(~up, t, c, i, in)
                   ELSE [s EXCEPT !.stop = stop, !.pending = pending, !.grab = grab]
           threat == swept \/ under
<1>1. TrendGoOn(s, t, c, i, in) = [next EXCEPT !.threat = threat]
  BY DEF TrendGoOn, Pause
<1> HIDE DEF pending, under, crash, stop, swept, up
<1>2. Pause(in) \in Nat
  BY DEF Pause
<1> HIDE DEF Pause
<1>3. s.grab <= grab /\ grab <= i + Pause(in) /\ grab \in Int
  BY <1>2
<1> HIDE DEF threat
<1>4. CASE turns
  <2> HIDE DEF next
  <2> DEFINE s2 == TurnTo(~up, t, c, i, in)
  <2>1. s2 = [x \in Fields |-> s2[x]] /\ s2.dir \in {-1, 1} /\ s2.grab = i + Pause(in)
    BY TurnToIs DEF Turned
  <2>2. [next EXCEPT !.threat = threat] = [s2 EXCEPT !.threat = threat]
    BY <1>4 DEF next
  <2>3. s.grab < i
    BY <1>3, <1>4
  <2> HIDE DEF s2, turns
  <2> QED BY <1>1, <1>2, <1>3, <2>1, <2>2, <2>3 DEF Advances, Fields
<1>5. CASE ~turns
  <2>1. next = [s EXCEPT !.stop = stop, !.pending = pending, !.grab = grab]
    BY <1>5
  <2> HIDE DEF next, grab, turns
  <2> QED BY <1>1, <1>2, <1>3, <2>1 DEF Advances, Fields
<1> QED BY <1>4, <1>5

\* And so does every bar.
LEMMA TrendAdvances ==
  ASSUME NEW s, NEW t, NEW c, NEW i \in Nat, NEW in, in.wick \in Nat,
         s = [x \in Fields |-> s[x]],
         s.dir \in {-1, 0, 1}, s.grab \in Int, s.grab <= i - 1 + Pause(in)
  PROVE  Advances(s, TrendStep(s, t, c, i, in), i, in)
BY BeginAdvances, GoOnAdvances DEF TrendStep

CoreStep(s, i, p) == VlStep(s, p.t, p.c, i, p.in)
Core == INSTANCE ScanTheory WITH Step <- CoreStep

\* The states of the loop of vlcore_engine.
CoreRun(c, in) == Core!Run(VlStart, Len(c), [t |-> Tables(c, in), c |-> c, in |-> in])

\* Each state of the loop is made from the one before.
LEMMA CoreRunIs ==
  ASSUME NEW c, NEW in, Len(c) \in Nat
  PROVE  LET run == CoreRun(c, in) IN
         /\ Len(c) > 0 => run[1] = VlStep(VlStart, Tables(c, in), c, 1, in)
         /\ \A i \in 2 .. Len(c) : run[i] = VlStep(run[i - 1], Tables(c, in), c, i, in)
<1> DEFINE p == [t |-> Tables(c, in), c |-> c, in |-> in]
           run == CoreRun(c, in)
<1>1. \A s, i : CoreStep(s, i, p) = VlStep(s, Tables(c, in), c, i, in)
  BY DEF CoreStep
<1> HIDE DEF p
<1>2. \A i \in 1 .. Len(c) : run[i] = CoreStep(IF i = 1 THEN VlStart ELSE run[i - 1], i, p)
  BY Core!RunIs DEF CoreRun, p
<1> HIDE DEF run
<1>3. Len(c) > 0 => run[1] = VlStep(VlStart, Tables(c, in), c, 1, in)
  BY <1>1, <1>2
<1>4. \A i \in 2 .. Len(c) : run[i] = VlStep(run[i - 1], Tables(c, in), c, i, in)
  <2> TAKE i \in 2 .. Len(c)
  <2>1. run[i] = CoreStep(IF i = 1 THEN VlStart ELSE run[i - 1], i, p)
    BY <1>2
  <2> QED BY <1>1, <2>1
<1> QED BY <1>3, <1>4 DEF run

\* The direction the engine returns is that of the loop.
LEMMA CoreDir ==
  ASSUME NEW c, NEW in, Len(c) \in Nat, Len(c) >= 10
  PROVE  \A i \in 1 .. Len(c) :
           VlCoreEngine(c, in)[i].dir = IF i <= in.railW THEN 0 ELSE CoreRun(c, in)[i].trend.dir
<1> DEFINE t == Tables(c, in)
           run == Scan(LAMBDA s, i : VlStep(s, t, c, i, in), VlStart, Len(c))
           f == [i \in 1 .. Len(c) |->
                  IF i <= in.railW THEN [dir |-> 0, conf |-> Zero, val |-> None]
                  ELSE [dir |-> run[i].trend.dir,
                        conf |-> Confidence(run[i].trend.dir, t, c, i),
                        val |-> run[i].line.drawn]]
<1>1. VlCoreEngine(c, in) = SubSeq(f, 1, Len(c))
  <2>1. ~(Len(c) < 10)
    OBVIOUS
  <2> QED BY <2>1, Zenon DEF VlCoreEngine, Series
<1>2. run = CoreRun(c, in)
  BY Zenon DEF Scan, CoreRun, Core!Run, CoreStep
<1> HIDE DEF run
<1>3. f = [i \in 1 .. Len(c) |-> f[i]]
  OBVIOUS
<1>4. SubSeq(f, 1, Len(c)) = f
  <2> HIDE DEF f
  <2> QED BY <1>3, WholeSeq
<1> QED BY <1>1, <1>2, <1>4

\* What the loop has behind it on bar k: every turn so far is a pause before grab.
Behind(run, k, in) ==
  LET s == run[k].trend IN
  /\ s = [x \in Fields |-> s[x]]
  /\ s.dir \in {-1, 0, 1} /\ s.grab \in Int /\ s.grab <= k + Pause(in)
  /\ k <= in.railW => s.dir = 0
  /\ \A j \in 2 .. k : run[j].trend.dir # run[j - 1].trend.dir =>
                         s.dir # 0 /\ j + Pause(in) <= s.grab

\* A bar on which the trend stands still is one that keeps to it, too.
LEMMA StepAdvances ==
  ASSUME NEW s, NEW t, NEW c, NEW i \in Nat, NEW in, in.wick \in Nat,
         s.trend = [x \in Fields |-> s.trend[x]],
         s.trend.dir \in {-1, 0, 1}, s.trend.grab \in Int, s.trend.grab <= i - 1 + Pause(in)
  PROVE  Advances(s.trend, VlStep(s, t, c, i, in).trend, i, in)
<1>1. Pause(in) \in Nat
  BY DEF Pause
<1>2. VlStep(s, t, c, i, in).trend \in {s.trend, TrendStep(s.trend, t, c, i, in)}
  BY DEF VlStep
<1>3. Advances(s.trend, TrendStep(s.trend, t, c, i, in), i, in)
  BY TrendAdvances
<1>4. Advances(s.trend, s.trend, i, in)
  BY <1>1 DEF Advances
<1> QED BY <1>2, <1>3, <1>4

\* Every bar of the loop has its turns behind it.
LEMMA LoopBehind ==
  ASSUME NEW c, NEW in, Len(c) \in Nat, in.wick \in Nat, in.railW \in Nat
  PROVE  LET run == CoreRun(c, in) IN
         /\ \A k \in 1 .. Len(c) : Behind(run, k, in)
         /\ \A k \in 2 .. Len(c) : Advances(run[k - 1].trend, run[k].trend, k, in)
<1> DEFINE n == Len(c)
           run == CoreRun(c, in)
           S == {k \in 0 .. n : k = 0 \/ Behind(run, k, in)}
<1>1. Pause(in) \in Nat
  BY DEF Pause
<1>2. /\ n > 0 => run[1] = VlStep(VlStart, Tables(c, in), c, 1, in)
      /\ \A i \in 2 .. n : run[i] = VlStep(run[i - 1], Tables(c, in), c, i, in)
  BY CoreRunIs
<1>10. \A s, i : i <= in.railW => VlStep(s, Tables(c, in), c, i, in) = s
  BY DEF VlStep
<1> HIDE DEF run
<1>3. ASSUME n > 0 PROVE Behind(run, 1, in)
  <2>1. /\ VlStart.trend = [x \in Fields |-> VlStart.trend[x]]
        /\ VlStart.trend.dir = 0 /\ VlStart.trend.grab = 0
    BY DEF VlStart, TrendStart, Fields
  <2>2. Advances(VlStart.trend, run[1].trend, 1, in)
    <3> HIDE DEF VlStart
    <3> QED BY <1>1, <1>2, <1>3, <2>1, StepAdvances
  <2>3. 1 <= in.railW => run[1].trend.dir = 0
    BY <1>2, <1>3, <1>10, <2>1
  <2> HIDE DEF VlStart
  <2> QED BY <1>1, <2>1, <2>2, <2>3 DEF Behind, Advances
<1>4. ASSUME NEW k \in 2 .. n, Behind(run, k - 1, in)
      PROVE  Advances(run[k - 1].trend, run[k].trend, k, in)
  <2>1. /\ run[k - 1].trend = [x \in Fields |-> run[k - 1].trend[x]]
        /\ run[k - 1].trend.dir \in {-1, 0, 1} /\ run[k - 1].trend.grab \in Int
        /\ run[k - 1].trend.grab <= k - 1 + Pause(in)
    BY <1>4 DEF Behind
  <2>2. run[k] = VlStep(run[k - 1], Tables(c, in), c, k, in)
    BY <1>2
  <2> QED BY <2>1, <2>2, StepAdvances
<1>5. ASSUME NEW k \in 2 .. n, Behind(run, k - 1, in) PROVE Behind(run, k, in)
  <2>1. Advances(run[k - 1].trend, run[k].trend, k, in)
    BY <1>4, <1>5
  <2>2. \A j \in 2 .. k : j = k \/ j \in 2 .. k - 1
    OBVIOUS
  <2>3. k <= in.railW => run[k].trend.dir = 0
    <3>1. run[k] = VlStep(run[k - 1], Tables(c, in), c, k, in)
      BY <1>2
    <3>2. k <= in.railW => k - 1 <= in.railW
      OBVIOUS
    <3> QED BY <1>5, <1>10, <3>1, <3>2 DEF Behind
  <2>4. ASSUME NEW j \in 2 .. k, run[j].trend.dir # run[j - 1].trend.dir
        PROVE  run[k].trend.dir # 0 /\ j + Pause(in) <= run[k].trend.grab
    <3>1. CASE j = k
      BY <1>1, <1>5, <2>1, <2>4, <3>1 DEF Behind, Advances
    <3>2. CASE j \in 2 .. k - 1
      <4>1. run[k - 1].trend.dir # 0 /\ j + Pause(in) <= run[k - 1].trend.grab
        BY <1>5, <2>4, <3>2 DEF Behind
      <4> QED BY <1>1, <1>5, <2>1, <4>1 DEF Behind, Advances
    <3> QED BY <2>2, <3>1, <3>2
  <2>5. /\ run[k].trend = [x \in Fields |-> run[k].trend[x]]
        /\ run[k].trend.dir \in {-1, 0, 1} /\ run[k].trend.grab \in Int
        /\ run[k].trend.grab <= k + Pause(in)
    BY <2>1 DEF Advances
  <2> QED BY <2>3, <2>4, <2>5 DEF Behind
<1>6. 0 \in S /\ \A k \in 0 .. n - 1 : k \in S => k + 1 \in S
  <2> SUFFICES ASSUME NEW k \in 0 .. n - 1, k = 0 \/ Behind(run, k, in) PROVE Behind(run, k + 1, in)
    OBVIOUS
  <2>1. CASE k = 0
    BY <1>3, <2>1
  <2>2. CASE k # 0
    <3>1. k + 1 \in 2 .. n /\ (k + 1) - 1 = k /\ Behind(run, k, in)
      BY <2>2
    <3> QED BY <1>5, <3>1, Zenon
  <2> QED BY <2>1, <2>2
<1>7. 0 .. n \subseteq S
  <2> HIDE DEF S
  <2> QED BY <1>6, Core!Upwards
<1>8. \A k \in 1 .. n : Behind(run, k, in)
  BY <1>7
<1>9. \A k \in 2 .. n : Advances(run[k - 1].trend, run[k].trend, k, in)
  <2> TAKE k \in 2 .. n
  <2>1. k - 1 \in 1 .. n
    OBVIOUS
  <2> QED BY <1>4, <1>8, <2>1
<1> QED BY <1>8, <1>9 DEF run

\* Two turns of the engine are more than a pause apart.
LEMMA TurnsApart ==
  ASSUME NEW c, NEW in, Len(c) \in Nat, in.wick \in Nat, in.railW \in Nat,
         NEW i \in 2 .. Len(c), NEW j \in 2 .. Len(c), i < j,
         VlCoreEngine(c, in)[i].dir # VlCoreEngine(c, in)[i - 1].dir,
         VlCoreEngine(c, in)[j].dir # VlCoreEngine(c, in)[j - 1].dir
  PROVE  j - i > Pause(in)
<1> DEFINE run == CoreRun(c, in)
           dir(k) == VlCoreEngine(c, in)[k].dir
<1>0. Pause(in) \in Nat
  BY DEF Pause
<1>1. Len(c) >= 10
  <2> SUFFICES ASSUME Len(c) < 10 PROVE FALSE
    OBVIOUS
  <2>1. VlCoreEngine(c, in) = [k \in 1 .. Len(c) |-> [dir |-> 0, conf |-> Zero, val |-> None]]
    BY Zenon DEF VlCoreEngine
  <2> QED BY <2>1
<1>2. /\ \A k \in 1 .. Len(c) : Behind(run, k, in)
      /\ \A k \in 2 .. Len(c) : Advances(run[k - 1].trend, run[k].trend, k, in)
  BY LoopBehind
<1>3. \A k \in 1 .. Len(c) : dir(k) = IF k <= in.railW THEN 0 ELSE run[k].trend.dir
  BY <1>1, CoreDir
<1>4. \A k \in 1 .. Len(c) : dir(k) = run[k].trend.dir
  BY <1>2, <1>3 DEF Behind
<1> HIDE DEF run
<1>5. /\ run[i].trend.dir # run[i - 1].trend.dir
      /\ run[j].trend.dir # run[j - 1].trend.dir
  <2>1. /\ i \in 1 .. Len(c) /\ i - 1 \in 1 .. Len(c)
        /\ j \in 1 .. Len(c) /\ j - 1 \in 1 .. Len(c)
    OBVIOUS
  <2>2. dir(i) # dir(i - 1) /\ dir(j) # dir(j - 1)
    OBVIOUS
  <2> HIDE DEF dir
  <2> QED BY <1>4, <2>1, <2>2
<1>6. run[j - 1].trend.dir # 0 /\ i + Pause(in) <= run[j - 1].trend.grab
  <2>1. j - 1 \in 1 .. Len(c) /\ i \in 2 .. j - 1
    OBVIOUS
  <2> QED BY <1>2, <1>5, <2>1 DEF Behind
<1>7. run[j - 1].trend.grab < j /\ run[j - 1].trend.grab \in Int
  <2>1. j - 1 \in 1 .. Len(c)
    OBVIOUS
  <2> QED BY <1>2, <1>5, <1>6, <2>1 DEF Advances, Behind
<1> HIDE DEF Pause
<1> QED BY <1>0, <1>6, <1>7

-----------------------------------------------------------------------------
(* The gate of the consensus.                                               *)

Gate == INSTANCE ScanTheory WITH Step <- GateStep

\* All that asked for d on w bars up to i.
AllAsk(p, i, w, d) == \A j \in i + 1 - w .. i : Asks(p, j) = d

\* What the count says of the bars up to i: it is the length of the longest run of bars that ask
\* for a side other than the one in force.
Streaks(g, i, p) ==
  /\ g = [cur |-> g.cur, pending |-> g.pending, streak |-> g.streak]
  /\ g.cur \in {-1, 0, 1} /\ g.pending \in {-1, 0, 1} /\ g.streak \in Nat
  /\ g.pending # 0 => /\ g.pending # g.cur /\ g.streak \in 1 .. i
                      /\ AllAsk(p, i, g.streak, g.pending)
  /\ \A d \in {1, -1}, w \in 1 .. i :
       d # g.cur /\ AllAsk(p, i, w, d) => g.pending = d /\ g.streak >= w

\* Counting bar i keeps the count true.
LEMMA CountedStreaks ==
  ASSUME NEW p, NEW i \in Nat \ {0}, NEW g, Streaks(g, i - 1, p)
  PROVE  Streaks(Counted(g, Asks(p, i)), i, p) /\ Counted(g, Asks(p, i)).cur = g.cur
<1> DEFINE a == Asks(p, i)
           h == Counted(g, a)
<1>1. a \in {-1, 0, 1}
  BY DEF Asks
<1>2. \A w \in 1 .. i : \A d : AllAsk(p, i, w, d) => a = d
  BY DEF AllAsk
<1>3. \A w \in 2 .. i : \A d : AllAsk(p, i, w, d) => w - 1 \in 1 .. i - 1 /\ AllAsk(p, i - 1, w - 1, d)
  BY DEF AllAsk
<1>4. \A w \in 1 .. i - 1 : AllAsk(p, i - 1, w, a) => AllAsk(p, i, w + 1, a)
  <2> SUFFICES ASSUME NEW w \in 1 .. i - 1, AllAsk(p, i - 1, w, a), NEW j \in i + 1 - (w + 1) .. i
               PROVE  Asks(p, j) = a
    BY DEF AllAsk
  <2>1. j = i \/ j \in (i - 1) + 1 - w .. i - 1
    OBVIOUS
  <2> QED BY <2>1 DEF AllAsk
<1>5. AllAsk(p, i, 1, a)
  BY DEF AllAsk
<1> HIDE DEF a
<1>6. /\ g = [cur |-> g.cur, pending |-> g.pending, streak |-> g.streak]
      /\ g.cur \in {-1, 0, 1} /\ g.pending \in {-1, 0, 1} /\ g.streak \in Nat
      /\ g.pending # 0 => /\ g.pending # g.cur /\ g.streak \in 1 .. i - 1
                          /\ AllAsk(p, i - 1, g.streak, g.pending)
      /\ \A d \in {1, -1}, w \in 1 .. i - 1 :
           d # g.cur /\ AllAsk(p, i - 1, w, d) => g.pending = d /\ g.streak >= w
  BY DEF Streaks
<1>7. ASSUME a = 0 \/ a = g.cur
      PROVE  Streaks(h, i, p) /\ h.cur = g.cur
  <2>1. h = [cur |-> g.cur, pending |-> 0, streak |-> 0]
    BY <1>6, <1>7 DEF Counted
  <2> HIDE DEF h
  <2> QED BY <1>2, <1>6, <1>7, <2>1 DEF Streaks
<1>8. ASSUME a # 0 /\ a # g.cur /\ a = g.pending
      PROVE  Streaks(h, i, p) /\ h.cur = g.cur
  <2>1. h = [cur |-> g.cur, pending |-> a, streak |-> g.streak + 1]
    BY <1>6, <1>8 DEF Counted
  <2> HIDE DEF h
  <2>2. AllAsk(p, i, h.streak, a) /\ h.streak \in 1 .. i
    BY <1>4, <1>6, <1>8, <2>1
  <2>3. ASSUME NEW d \in {1, -1}, NEW w \in 1 .. i, d # g.cur, AllAsk(p, i, w, d)
        PROVE  a = d /\ g.streak + 1 >= w
    <3>1. a = d
      BY <1>2, <2>3
    <3>2. CASE w = 1
      BY <1>6, <3>1, <3>2
    <3>3. CASE w \in 2 .. i
      BY <1>3, <1>6, <2>3, <3>1, <3>3
    <3> QED BY <3>2, <3>3
  <2> QED BY <1>1, <1>6, <1>8, <2>1, <2>2, <2>3 DEF Streaks
<1>9. ASSUME a # 0 /\ a # g.cur /\ a # g.pending
      PROVE  Streaks(h, i, p) /\ h.cur = g.cur
  <2>1. h = [cur |-> g.cur, pending |-> a, streak |-> 1]
    BY <1>6, <1>9 DEF Counted
  <2> HIDE DEF h
  <2>2. ASSUME NEW d \in {1, -1}, NEW w \in 1 .. i, d # g.cur, AllAsk(p, i, w, d)
        PROVE  a = d /\ w = 1
    <3>1. a = d
      BY <1>2, <2>2
    <3>2. w \notin 2 .. i
      BY <1>3, <1>6, <1>9, <2>2, <3>1
    <3> QED BY <3>1, <3>2
  <2> QED BY <1>1, <1>5, <1>6, <1>9, <2>1, <2>2 DEF Streaks
<1> QED BY <1>7, <1>8, <1>9 DEF a, h

\* The gate turns to d on bar i.
Flips(g, i, p, d) ==
  /\ d # g.cur /\ i >= p.wait /\ AllAsk(p, i, p.wait, d)
  /\ ~p.structured \/ g.cur = 0 \/ Breaks(p, i, d)

\* One bar of the gate: the count stays true, and the gate turns to the side it should.
LEMMA GateFlips ==
  ASSUME NEW p, p.wait \in Nat \ {0}, NEW i \in Nat \ {0}, NEW g, Streaks(g, i - 1, p)
  PROVE  /\ Streaks(GateStep(g, i, p), i, p)
         /\ GateStep(g, i, p).cur = IF Flips(g, i, p, 1) THEN 1
                                    ELSE IF Flips(g, i, p, -1) THEN -1 ELSE g.cur
<1> DEFINE h == Counted(g, Asks(p, i))
           flip == /\ h.pending # 0 /\ h.streak >= p.wait
                   /\ ~p.structured \/ g.cur = 0 \/ Breaks(p, i, h.pending)
           turned == [cur |-> h.pending, pending |-> 0, streak |-> 0]
<1>1. GateStep(g, i, p) = IF flip THEN turned ELSE h
  BY DEF GateStep
<1>2. Streaks(h, i, p) /\ h.cur = g.cur
  BY CountedStreaks
<1> HIDE DEF h
<1>3. /\ h.pending \in {-1, 0, 1} /\ h.streak \in Nat
      /\ h.pending # 0 => /\ h.pending # g.cur /\ h.streak \in 1 .. i
                          /\ AllAsk(p, i, h.streak, h.pending)
      /\ \A d \in {1, -1}, w \in 1 .. i :
           d # g.cur /\ AllAsk(p, i, w, d) => h.pending = d /\ h.streak >= w
  BY <1>2 DEF Streaks
<1>4. \A d \in {1, -1} : flip /\ h.pending = d <=> Flips(g, i, p, d)
  <2> TAKE d \in {1, -1}
  <2>1. ASSUME flip, h.pending = d PROVE Flips(g, i, p, d)
    <3>1. AllAsk(p, i, p.wait, d)
      BY <1>3, <2>1 DEF AllAsk
    <3> QED BY <1>3, <2>1, <3>1 DEF Flips
  <2>2. ASSUME Flips(g, i, p, d) PROVE flip /\ h.pending = d
    <3>1. p.wait \in 1 .. i /\ d # g.cur /\ AllAsk(p, i, p.wait, d)
      BY <2>2 DEF Flips
    <3>2. h.pending = d /\ h.streak >= p.wait
      BY <1>3, <3>1
    <3> QED BY <2>2, <3>2 DEF Flips
  <2> QED BY <2>1, <2>2
<1>5. ASSUME flip
      PROVE  /\ Streaks(GateStep(g, i, p), i, p)
             /\ GateStep(g, i, p).cur = IF Flips(g, i, p, 1) THEN 1
                                        ELSE IF Flips(g, i, p, -1) THEN -1 ELSE g.cur
  <2>1. \A w \in 1 .. i : \A d : AllAsk(p, i, w, d) => Asks(p, i) = d
    BY DEF AllAsk
  <2>2. Asks(p, i) = h.pending
    BY <1>3, <1>5, <2>1
  <2>3. Streaks(turned, i, p)
    BY <1>3, <2>1, <2>2 DEF Streaks
  <2>4. GateStep(g, i, p) = turned
    BY <1>1, <1>5
  <2>5. h.pending \in {1, -1} /\ turned.cur = h.pending
    BY <1>3, <1>5
  <2> HIDE DEF flip, turned
  <2> QED BY <1>4, <1>5, <2>3, <2>4, <2>5
<1>6. ASSUME ~flip
      PROVE  /\ Streaks(GateStep(g, i, p), i, p)
             /\ GateStep(g, i, p).cur = IF Flips(g, i, p, 1) THEN 1
                                        ELSE IF Flips(g, i, p, -1) THEN -1 ELSE g.cur
  <2> HIDE DEF flip
  <2> QED BY <1>1, <1>2, <1>4, <1>6
<1> QED BY <1>5, <1>6

\* The states of the loop of consensus_gate.
GateRun(p) == Gate!Run(GateStart, Len(p.c), p)

\* On every bar the loop knows the longest run of bars that ask for the other side, and it turns
\* when the gate says so.
LEMMA GateLoop ==
  ASSUME NEW p, p.wait \in Nat \ {0}, Len(p.c) \in Nat
  PROVE  /\ \A k \in 1 .. Len(p.c) : Streaks(GateRun(p)[k], k, p)
         /\ \A k \in 1 .. Len(p.c) :
              LET g == IF k = 1 THEN GateStart ELSE GateRun(p)[k - 1]
              IN GateRun(p)[k].cur = IF Flips(g, k, p, 1) THEN 1
                                     ELSE IF Flips(g, k, p, -1) THEN -1 ELSE g.cur
<1> DEFINE n == Len(p.c)
           run == GateRun(p)
           G(k) == IF k = 1 THEN GateStart ELSE run[k - 1]
           S == {k \in 0 .. n : k = 0 \/ Streaks(run[k], k, p)}
<1>1. \A k \in 1 .. n : run[k] = GateStep(G(k), k, p)
  BY Gate!RunIs DEF GateRun
<1>2. Streaks(GateStart, 0, p)
  BY DEF Streaks, GateStart
<1> HIDE DEF run
<1>3. ASSUME NEW k \in 1 .. n, k = 1 \/ Streaks(run[k - 1], k - 1, p)
      PROVE  /\ Streaks(run[k], k, p)
             /\ run[k].cur = IF Flips(G(k), k, p, 1) THEN 1
                             ELSE IF Flips(G(k), k, p, -1) THEN -1 ELSE G(k).cur
  <2>1. Streaks(G(k), k - 1, p)
    BY <1>2, <1>3
  <2>2. run[k] = GateStep(G(k), k, p) /\ k \in Nat \ {0}
    BY <1>1
  <2> HIDE DEF G
  <2> QED BY <2>1, <2>2, GateFlips
<1>4. 0 \in S /\ \A k \in 0 .. n - 1 : k \in S => k + 1 \in S
  <2> SUFFICES ASSUME NEW k \in 0 .. n - 1, k = 0 \/ Streaks(run[k], k, p)
               PROVE  Streaks(run[k + 1], k + 1, p)
    OBVIOUS
  <2>1. k + 1 \in 1 .. n /\ (k + 1) - 1 = k /\ (k + 1 = 1 <=> k = 0)
    OBVIOUS
  <2> QED BY <1>3, <2>1
<1>5. 0 .. n \subseteq S
  <2> HIDE DEF S
  <2> QED BY <1>4, Gate!Upwards
<1>6. \A k \in 1 .. n : Streaks(run[k], k, p)
  BY <1>5
<1>7. \A k \in 1 .. n : run[k].cur = IF Flips(G(k), k, p, 1) THEN 1
                                     ELSE IF Flips(G(k), k, p, -1) THEN -1 ELSE G(k).cur
  <2> TAKE k \in 1 .. n
  <2>1. k = 1 \/ Streaks(run[k - 1], k - 1, p)
    BY <1>6
  <2> HIDE DEF G
  <2> QED BY <1>3, <2>1
<1> QED BY <1>6, <1>7 DEF run

\* The direction the gate returns is that of the loop.
LEMMA GateDir ==
  ASSUME NEW c, NEW votes, NEW minAgree, NEW confirm, NEW strength, Len(c) \in Nat
  PROVE  ConsensusGate(c, votes, minAgree, confirm, strength)
           = [i \in 1 .. Len(c) |-> GateRun(GateInputs(c, votes, minAgree, confirm, strength))[i].cur]
<1> DEFINE in == GateInputs(c, votes, minAgree, confirm, strength)
           run == Scan(LAMBDA g, i : GateStep(g, i, in), GateStart, Len(c))
           f == [i \in 1 .. Len(c) |-> run[i].cur]
<1>1. ConsensusGate(c, votes, minAgree, confirm, strength) = SubSeq(f, 1, Len(c))
  BY Zenon DEF ConsensusGate, Series
<1>2. run = Gate!Run(GateStart, Len(c), in)
  BY Zenon DEF Scan, Gate!Run
<1>3. in.c = c
  BY DEF GateInputs
<1> HIDE DEF in
<1>4. run = GateRun(in)
  BY <1>2, <1>3 DEF GateRun
<1> HIDE DEF run
<1>5. SubSeq(f, 1, Len(c)) = f
  <2>1. f = [i \in 1 .. Len(c) |-> f[i]]
    OBVIOUS
  <2> HIDE DEF f
  <2> QED BY <2>1, WholeSeq
<1>6. f = [i \in 1 .. Len(c) |-> GateRun(in)[i].cur]
  BY <1>4
<1> QED BY <1>1, <1>5, <1>6 DEF in

-----------------------------------------------------------------------------
(* The pivots.                                                              *)

PivotStep(w, i, in) == Push(w, PivotAt(in.c, in.s, i))
Piv == INSTANCE ScanTheory WITH Step <- PivotStep

PivotRun(c, s) == Piv!Run(<<>>, Len(c), [c |-> c, s |-> s])

\* fractal_pivots is a loop that picks up the pivots.
LEMMA PivotsAre ==
  ASSUME NEW c, NEW s, Len(c) \in Nat
  PROVE  FractalPivots(c, s) = IF Len(c) = 0 THEN <<>> ELSE PivotRun(c, s)[Len(c)]
<1>1. FractalPivots(c, s) = IF Len(c) = 0 THEN <<>>
                            ELSE Scan(LAMBDA w, i : Push(w, PivotAt(c, s, i)), <<>>, Len(c))[Len(c)]
  BY Zenon DEF FractalPivots, Collect
<1>2. Scan(LAMBDA w, i : Push(w, PivotAt(c, s, i)), <<>>, Len(c)) = PivotRun(c, s)
  BY Zenon DEF Scan, PivotRun, Piv!Run, PivotStep
<1> QED BY <1>1, <1>2, Zenon

Pivot(h, price, i, s) == [isHigh |-> h, price |-> price, idx |-> i, at |-> i + s]

\* The pivot of a bar in the words of the property.
LEMMA PivotForm ==
  ASSUME NEW c, NEW s \in Nat, Len(c) \in Nat, NEW i \in 1 .. Len(c)
  PROVE  PivotAt(c, s, i) = IF i \notin s + 1 .. Len(c) - s THEN None
                            ELSE IF HighAt(c, i, s) THEN Pivot(TRUE, c[i].high, i, s)
                            ELSE IF LowAt(c, i, s) THEN Pivot(FALSE, c[i].low, i, s)
                            ELSE None
<1> DEFINE High == \A k \in 1 .. s : QLeq(c[i - k].high, c[i].high) /\ QLeq(c[i + k].high, c[i].high)
           Low  == \A k \in 1 .. s : QLeq(c[i].low, c[i - k].low) /\ QLeq(c[i].low, c[i + k].low)
<1>1. PivotAt(c, s, i) = IF i <= s \/ i > Len(c) - s THEN None
                         ELSE IF High THEN Pivot(TRUE, c[i].high, i, s)
                         ELSE IF Low THEN Pivot(FALSE, c[i].low, i, s)
                         ELSE None
  BY DEF PivotAt, Pivot
<1>2. /\ \A k \in i - s .. i + s : k = i \/ (i - k \in 1 .. s /\ k = i - (i - k))
                                         \/ (k - i \in 1 .. s /\ k = i + (k - i))
      /\ \A k \in 1 .. s : i - k \in i - s .. i + s /\ i + k \in i - s .. i + s
  OBVIOUS
<1>3. \A x : QLeq(x, x)
  BY DEF QLeq
<1>4. High <=> HighAt(c, i, s)
  <2>1. ASSUME High, NEW k \in i - s .. i + s PROVE QLeq(c[k].high, c[i].high)
    BY <1>2, <1>3, <2>1
  <2>2. ASSUME HighAt(c, i, s), NEW k \in 1 .. s
        PROVE  QLeq(c[i - k].high, c[i].high) /\ QLeq(c[i + k].high, c[i].high)
    BY <1>2, <2>2 DEF HighAt
  <2> QED BY <2>1, <2>2 DEF HighAt
<1>5. ASSUME ~HighAt(c, i, s) PROVE Low <=> LowAt(c, i, s)
  <2>1. ASSUME Low, NEW k \in i - s .. i + s PROVE QLeq(c[i].low, c[k].low)
    BY <1>2, <1>3, <2>1
  <2>2. ASSUME LowAt(c, i, s), NEW k \in 1 .. s
        PROVE  QLeq(c[i].low, c[i - k].low) /\ QLeq(c[i].low, c[i + k].low)
    BY <1>2, <2>2 DEF LowAt
  <2> QED BY <1>5, <2>1, <2>2 DEF LowAt
<1> HIDE DEF High, Low
<1>6. i <= s \/ i > Len(c) - s <=> i \notin s + 1 .. Len(c) - s
  OBVIOUS
<1> QED BY <1>1, <1>4, <1>5, <1>6

\* w lists the pivots of the bars up to k, each once, in order.
Listed(w, k, c, s) ==
  /\ Len(w) \in Nat /\ w = [j \in 1 .. Len(w) |-> w[j]]
  /\ \A j \in 1 .. Len(w) : /\ w[j].idx \in 1 .. k
                            /\ w[j] # None /\ w[j] = PivotAt(c, s, w[j].idx)
  /\ \A a, b \in 1 .. Len(w) : a < b => w[a].idx < w[b].idx
  /\ \A i \in 1 .. k : PivotAt(c, s, i) # None => \E j \in 1 .. Len(w) : w[j].idx = i

\* One bar more is listed.
LEMMA PivotListed ==
  ASSUME NEW c, NEW s \in Nat, Len(c) \in Nat, NEW k \in 1 .. Len(c),
         NEW w, Listed(w, k - 1, c, s)
  PROVE  Listed(PivotStep(w, k, [c |-> c, s |-> s]), k, c, s)
<1> DEFINE x == PivotAt(c, s, k)
           n == Len(w)
           w2 == PivotStep(w, k, [c |-> c, s |-> s])
<1>1. w2 = IF x = None THEN w ELSE Append(w, x)
  BY DEF PivotStep, Push
<1>2. /\ n \in Nat /\ w = [j \in 1 .. n |-> w[j]]
      /\ \A j \in 1 .. n : /\ w[j].idx \in 1 .. k - 1
                           /\ w[j] # None /\ w[j] = PivotAt(c, s, w[j].idx)
      /\ \A a, b \in 1 .. n : a < b => w[a].idx < w[b].idx
      /\ \A i \in 1 .. k - 1 : PivotAt(c, s, i) # None => \E j \in 1 .. n : w[j].idx = i
  BY DEF Listed
<1>3. x # None => x.idx = k
  BY PivotForm DEF Pivot
<1>4. \A i \in 1 .. k : i = k \/ i \in 1 .. k - 1
  OBVIOUS
<1> HIDE DEF x, n, w2
<1>5. ASSUME x = None PROVE Listed(w2, k, c, s)
  BY <1>1, <1>2, <1>4, <1>5 DEF Listed, n, x
<1>6. ASSUME x # None PROVE Listed(w2, k, c, s)
  <2>1. w2 = [j \in 1 .. n + 1 |-> IF j = n + 1 THEN x ELSE w[j]]
    <3>1. Append(w, x) = [j \in 1 .. n + 1 |-> IF j = n + 1 THEN x ELSE w[j]]
      <4>1. n \in Nat /\ w = [j \in 1 .. n |-> w[j]]
        BY <1>2
      <4> QED BY <4>1, Piv!Entries
    <3> QED BY <1>1, <1>6, <3>1
  <2>2. Len(w2) = n + 1 /\ w2[n + 1] = x /\ \A j \in 1 .. n : w2[j] = w[j]
    BY <1>2, <2>1
  <2>3. w2 = [j \in 1 .. n + 1 |-> w2[j]]
    BY <2>1
  <2>4. \A j \in 1 .. n + 1 : j = n + 1 \/ j \in 1 .. n
    BY <1>2
  <2>5. \A j \in 1 .. n + 1 : /\ w2[j].idx \in 1 .. k
                              /\ w2[j] # None /\ w2[j] = PivotAt(c, s, w2[j].idx)
    BY <1>2, <1>3, <1>6, <2>2, <2>4 DEF x
  <2>6. ASSUME NEW a \in 1 .. n + 1, NEW b \in 1 .. n + 1, a < b PROVE w2[a].idx < w2[b].idx
    <3>1. a \in 1 .. n
      BY <1>2, <2>6
    <3> QED BY <1>2, <1>3, <1>6, <2>2, <2>4, <2>6, <3>1
  <2>7. ASSUME NEW i \in 1 .. k, PivotAt(c, s, i) # None PROVE \E j \in 1 .. n + 1 : w2[j].idx = i
    <3>1. CASE i = k
      BY <1>2, <1>3, <1>6, <2>2, <3>1
    <3>2. CASE i \in 1 .. k - 1
      <4>1. PICK j \in 1 .. n : w[j].idx = i
        BY <1>2, <2>7, <3>2
      <4>2. j \in 1 .. n + 1
        BY <1>2
      <4> QED BY <2>2, <4>1, <4>2
    <3> QED BY <1>4, <3>1, <3>2
  <2>8. n + 1 \in Nat
    BY <1>2
  <2> QED BY <2>2, <2>3, <2>5, <2>6, <2>7, <2>8 DEF Listed
<1> QED BY <1>5, <1>6 DEF w2

\* fractal_pivots lists every pivot of the chart once, in order.
LEMMA PivotsListed ==
  ASSUME NEW c, NEW s \in Nat, Len(c) \in Nat
  PROVE  Listed(FractalPivots(c, s), Len(c), c, s)
<1> DEFINE n == Len(c)
           in == [c |-> c, s |-> s]
           run == PivotRun(c, s)
           S == {k \in 0 .. n : k = 0 \/ Listed(run[k], k, c, s)}
<1>1. \A k \in 1 .. n : run[k] = PivotStep(IF k = 1 THEN <<>> ELSE run[k - 1], k, in)
  BY Piv!RunIs DEF PivotRun
<1>2. Listed(<<>>, 0, c, s)
  BY DEF Listed
<1> HIDE DEF run
<1>3. 0 \in S /\ \A k \in 0 .. n - 1 : k \in S => k + 1 \in S
  <2> SUFFICES ASSUME NEW k \in 0 .. n - 1, k = 0 \/ Listed(run[k], k, c, s)
               PROVE  Listed(run[k + 1], k + 1, c, s)
    OBVIOUS
  <2> DEFINE w == IF k = 0 THEN <<>> ELSE run[k]
  <2>1. k + 1 \in 1 .. n /\ (k + 1) - 1 = k /\ (k + 1 = 1 <=> k = 0)
    OBVIOUS
  <2>2. Listed(w, k, c, s)
    BY <1>2
  <2>3. run[k + 1] = PivotStep(w, k + 1, in)
    BY <1>1, <2>1
  <2> HIDE DEF w
  <2> QED BY <2>1, <2>2, <2>3, PivotListed
<1>4. 0 .. n \subseteq S
  <2> HIDE DEF S
  <2> QED BY <1>3, Piv!Upwards
<1>5. n # 0 => Listed(run[n], n, c, s)
  BY <1>4
<1> QED BY <1>2, <1>5, PivotsAre DEF run

\* A set of positions has a last one.
LEMMA Latest ==
  ASSUME NEW n \in Nat, NEW T \in SUBSET (1 .. n), T # {}
  PROVE  \E m \in T : \A k \in T : k <= m
<1> DEFINE R == {n - k : k \in T}
<1>1. R \in SUBSET Nat /\ R # {}
  <2>1. \A k \in T : n - k \in Nat
    OBVIOUS
  <2> QED BY <2>1
<1>2. PICK r \in R : \A q \in R : r <= q
  <2> HIDE DEF R
  <2> QED BY <1>1, Piv!Least
<1>3. PICK m \in T : r = n - m
  OBVIOUS
<1>4. \A k \in T : k <= m
  <2> TAKE k \in T
  <2>1. n - k \in R
    OBVIOUS
  <2>2. r <= n - k
    BY <1>2, <2>1
  <2> QED BY <1>3, <2>2
<1> QED BY <1>4

\* A value in exact arithmetic is not None.
LEMMA HasValue == \A x \in Int \X Nat : x # None
BY DEF None

\* What the gate knows of the side d on bar i.
Side(w, d) == IF d = 1 THEN w.high ELSE w.low

\* The pivots against d known on bar i.
KnownBefore(piv, i, d) ==
  {k \in {j \in DOMAIN piv : piv[j].at <= i} : IF d = 1 THEN piv[k].isHigh ELSE ~piv[k].isHigh}

\* What the gate knows of a side is the price of its last known pivot.
LEMMA KnownIs ==
  ASSUME NEW piv, NEW n \in Nat, NEW i \in 1 .. n, NEW d \in {1, -1}
  PROVE  Side(KnownSwings(piv, n)[i], d) = LastPrice(piv, KnownBefore(piv, i, d))
<1> DEFINE Known(j) == {k \in DOMAIN piv : piv[k].at <= j}
           High(j) == {k \in Known(j) : piv[k].isHigh}
           Low(j) == {k \in Known(j) : ~piv[k].isHigh}
           f == [j \in 1 .. n |-> [high |-> LastPrice(piv, High(j)), low |-> LastPrice(piv, Low(j))]]
<1>1. KnownSwings(piv, n) = SubSeq(f, 1, n)
  BY Zenon DEF KnownSwings, Series
<1>2. SubSeq(f, 1, n) = f
  <2>1. f = [j \in 1 .. n |-> f[j]]
    OBVIOUS
  <2> HIDE DEF f
  <2> QED BY <2>1, WholeSeq
<1>3. /\ d = 1 => KnownBefore(piv, i, d) = High(i)
      /\ d = -1 => KnownBefore(piv, i, d) = Low(i)
  BY DEF KnownBefore
<1> HIDE DEF High, Low
<1>4. f[i] = [high |-> LastPrice(piv, High(i)), low |-> LastPrice(piv, Low(i))]
  OBVIOUS
<1> HIDE DEF f
<1> QED BY <1>1, <1>2, <1>3, <1>4 DEF Side

\* The gate sees the close beyond the last known swing exactly when it is beyond the last swing
\* that the bars up to this one confirm.
LEMMA BreaksIsBroken ==
  ASSUME NEW c \in Seq(Candle), NEW s \in Nat \ {0}, NEW i \in 1 .. Len(c), NEW d \in {1, -1},
         NEW in, in.c = c, in.swings = KnownSwings(FractalPivots(c, s), Len(c))
  PROVE  Breaks(in, i, d) <=> BrokenBy(c, i, d, s)
<1> DEFINE n == Len(c)
           piv == FractalPivots(c, s)
           known == KnownBefore(piv, i, d)
           by == SwingsBy(c, i, d, s)
           Past(p) == IF d = 1 THEN QLess(c[p].high, c[i].close) ELSE QLess(c[i].close, c[p].low)
           last == CHOOSE k \in known : \A j \in known : j <= k
<1>1. n \in Nat
  OBVIOUS
<1>2. Listed(piv, n, c, s)
  BY <1>1, PivotsListed
<1>3. Side(KnownSwings(piv, n)[i], d) = IF known = {} THEN None ELSE piv[last].price
  <2>1. Side(KnownSwings(piv, n)[i], d) = LastPrice(piv, known)
    <3> HIDE DEF piv
    <3> QED BY <1>1, KnownIs
  <2>2. LastPrice(piv, known) = IF known = {} THEN None ELSE piv[last].price
    BY Zenon DEF LastPrice
  <2> QED BY <2>1, <2>2, Zenon
<1>4. Breaks(in, i, d) <=> /\ Side(in.swings[i], d) # None
                           /\ IF d = 1 THEN QLess(Side(in.swings[i], d), c[i].close)
                              ELSE QLess(c[i].close, Side(in.swings[i], d))
  <2>1. CASE d = 1
    BY <2>1 DEF Breaks, Side
  <2>2. CASE d = -1
    BY <2>2 DEF Breaks, Side
  <2> QED BY <2>1, <2>2
<1> HIDE DEF piv
<1>5. /\ Len(piv) \in Nat /\ DOMAIN piv = 1 .. Len(piv)
      /\ \A j \in DOMAIN piv : /\ piv[j].idx \in 1 .. n /\ piv[j] # None
                               /\ piv[j] = PivotAt(c, s, piv[j].idx)
      /\ \A a, b \in DOMAIN piv : a < b => piv[a].idx < piv[b].idx
      /\ \A q \in 1 .. n : PivotAt(c, s, q) # None => \E j \in DOMAIN piv : piv[j].idx = q
  <2>1. Len(piv) \in Nat /\ DOMAIN piv = 1 .. Len(piv)
    BY <1>2 DEF Listed
  <2> QED BY <1>2, <2>1 DEF Listed
<1>6. \A q \in 1 .. n :
         PivotAt(c, s, q) = IF q \notin s + 1 .. n - s THEN None
                            ELSE IF HighAt(c, q, s) THEN Pivot(TRUE, c[q].high, q, s)
                            ELSE IF LowAt(c, q, s) THEN Pivot(FALSE, c[q].low, q, s)
                            ELSE None
  BY <1>1, PivotForm
<1>7. /\ \A h, x, q : Pivot(h, x, q, s) # None
      /\ \A h, x, q : Pivot(h, x, q, s).at = q + s
      /\ \A x, q : Pivot(TRUE, x, q, s).isHigh /\ ~Pivot(FALSE, x, q, s).isHigh
  <2>1. \A h, x, q : Pivot(h, x, q, s) # None
    BY DEF Pivot, None
  <2>2. \A h, x, q : Pivot(h, x, q, s).at = q + s
    BY DEF Pivot
  <2>3. \A x, q : Pivot(TRUE, x, q, s).isHigh /\ ~Pivot(FALSE, x, q, s).isHigh
    BY DEF Pivot
  <2> QED BY <2>1, <2>2, <2>3
<1>8. ASSUME NEW k \in known
      PROVE  piv[k].idx \in by /\ piv[k].price = IF d = 1 THEN c[piv[k].idx].high ELSE c[piv[k].idx].low
  <2> DEFINE q == piv[k].idx
  <2>1. k \in DOMAIN piv /\ piv[k].at <= i /\ IF d = 1 THEN piv[k].isHigh ELSE ~piv[k].isHigh
    BY DEF KnownBefore
  <2>2. q \in 1 .. n /\ piv[k] # None /\ piv[k] = PivotAt(c, s, q)
    BY <1>5, <2>1
  <2> HIDE DEF known, by, q
  <2>3. q \in s + 1 .. n - s
    BY <1>6, <2>2
  <2>4. \/ HighAt(c, q, s) /\ piv[k] = Pivot(TRUE, c[q].high, q, s)
        \/ ~HighAt(c, q, s) /\ LowAt(c, q, s) /\ piv[k] = Pivot(FALSE, c[q].low, q, s)
    BY <1>6, <2>2, <2>3
  <2>5. q \in s + 1 .. i - s
    BY <1>1, <2>1, <2>3, <2>4 DEF Pivot
  <2>6. d = 1 => HighAt(c, q, s) /\ piv[k] = Pivot(TRUE, c[q].high, q, s)
    BY <1>7, <2>1, <2>4, Zenon
  <2>7. d # 1 => LowAt(c, q, s) /\ piv[k] = Pivot(FALSE, c[q].low, q, s)
    BY <1>7, <2>1, <2>4, Zenon
  <2>8. q \in by
    BY <2>5, <2>6, <2>7 DEF by, SwingsBy
  <2>9. piv[k].price = IF d = 1 THEN c[q].high ELSE c[q].low
    BY <2>6, <2>7 DEF Pivot
  <2> QED BY <2>8, <2>9 DEF q
<1>9. ASSUME NEW q \in by PROVE \E k \in known : piv[k].idx = q
  <2>1. q \in s + 1 .. i - s /\ IF d = 1 THEN HighAt(c, q, s) ELSE LowAt(c, q, s)
    BY DEF SwingsBy
  <2>2. q \in 1 .. n /\ q \in s + 1 .. n - s /\ q + s <= i
    BY <1>1, <2>1
  <2>3. d # 1 => ~HighAt(c, q, s)
    BY <2>1 DEF LowAt
  <2>4. PivotAt(c, s, q) = IF d = 1 THEN Pivot(TRUE, c[q].high, q, s)
                           ELSE Pivot(FALSE, c[q].low, q, s)
    BY <1>6, <2>1, <2>2, <2>3
  <2>5. PICK k \in DOMAIN piv : piv[k].idx = q
    <3>1. PivotAt(c, s, q) # None
      BY <1>7, <2>4, Zenon
    <3> QED BY <1>5, <2>2, <3>1, Zenon
  <2>6. piv[k] = PivotAt(c, s, q)
    BY <1>5, <2>5
  <2>7. piv[k].at = q + s /\ IF d = 1 THEN piv[k].isHigh ELSE ~piv[k].isHigh
    BY <1>7, <2>4, <2>6, Zenon
  <2>8. piv[k].at <= i
    BY <2>2, <2>7
  <2> QED BY <2>5, <2>7, <2>8, Zenon DEF KnownBefore
<1> HIDE DEF known, by
<1>10. CASE known = {}
  <2>1. by = {}
    BY <1>9, <1>10
  <2>2. ~BrokenBy(c, i, d, s)
    BY <2>1 DEF BrokenBy, by
  <2>3. Side(in.swings[i], d) = None
    BY <1>3, <1>10 DEF piv
  <2> QED BY <1>4, <2>2, <2>3
<1>11. CASE known # {}
  <2>1. last \in known /\ \A j \in known : j <= last
    <3>1. known \in SUBSET (1 .. Len(piv))
      BY <1>5 DEF known, KnownBefore
    <3>2. \E k \in known : \A j \in known : j <= k
      BY <1>5, <1>11, <3>1, Latest
    <3> QED BY <3>2, Zenon
  <2> HIDE DEF last
  <2> DEFINE p == piv[last].idx
  <2>2. p \in by /\ piv[last].price = IF d = 1 THEN c[p].high ELSE c[p].low
    BY <1>8, <2>1
  <2>3. ASSUME NEW q \in by PROVE q <= p
    <3>1. PICK k \in known : piv[k].idx = q
      BY <1>9
    <3>2. k \in 1 .. Len(piv) /\ last \in 1 .. Len(piv) /\ k <= last
      BY <1>5, <2>1 DEF known, KnownBefore
    <3>3. k = last \/ k < last
      BY <1>5, <3>2
    <3>4. piv[k].idx \in Int /\ piv[last].idx \in Int
      BY <1>5, <3>2
    <3> QED BY <1>5, <3>1, <3>2, <3>3, <3>4
  <2>4. p \in Int /\ by \subseteq Int
    <3>1. \A q \in by : q \in Int
      BY DEF by, SwingsBy
    <3> QED BY <2>2, <3>1
  <2>5. BrokenBy(c, i, d, s) <=> Past(p)
    <3> HIDE DEF p, Past
    <3>1. BrokenBy(c, i, d, s) <=> \E q \in by : (\A r \in by : r <= q) /\ Past(q)
      BY DEF BrokenBy, by, Past
    <3>2. \A q \in by : (\A r \in by : r <= q) => q = p
      BY <2>2, <2>3, <2>4
    <3> QED BY <2>2, <2>3, <3>1, <3>2
  <2>6. c[p].high # None /\ c[p].low # None
    <3>1. p \in 1 .. n
      BY <1>5, <2>1 DEF known, KnownBefore
    <3>2. c[p] \in Candle
      BY <3>1
    <3> QED BY <3>2, HasValue DEF Candle
  <2>7. Side(in.swings[i], d) = IF d = 1 THEN c[p].high ELSE c[p].low
    BY <1>3, <1>11, <2>2 DEF piv
  <2> HIDE DEF p
  <2> QED BY <1>4, <2>5, <2>6, <2>7
<1> QED BY <1>10, <1>11

-----------------------------------------------------------------------------
(* The votes.                                                               *)

Turn == {-1, 0, 1}

\* One voter, with the means it reads.
VoterStep(s, i, in) == VoteStep(s, in[i])
Voter == INSTANCE ScanTheory WITH Step <- VoterStep

\* A voter votes -1, 0 or 1.
LEMMA VoterTurns ==
  ASSUME NEW mean, NEW n \in Nat
  PROVE  \A i \in 1 .. n : Voter!Run([prev |-> None, dir |-> 0], n, mean)[i].dir \in Turn
<1> DEFINE start == [prev |-> None, dir |-> 0]
           run == Voter!Run(start, n, mean)
           S == {k \in 0 .. n : k = 0 \/ run[k].dir \in Turn}
<1>1. \A k \in 1 .. n : run[k] = VoterStep(IF k = 1 THEN start ELSE run[k - 1], k, mean)
  BY Voter!RunIs
<1>2. \A s, x : s.dir \in Turn => VoteStep(s, x).dir \in Turn
  BY DEF VoteStep, Turn
<1> HIDE DEF run
<1>3. 0 \in S /\ \A k \in 0 .. n - 1 : k \in S => k + 1 \in S
  <2> SUFFICES ASSUME NEW k \in 0 .. n - 1, k = 0 \/ run[k].dir \in Turn
               PROVE  run[k + 1].dir \in Turn
    OBVIOUS
  <2> DEFINE s == IF k = 0 THEN start ELSE run[k]
  <2>1. k + 1 \in 1 .. n /\ (k + 1) - 1 = k /\ (k + 1 = 1 <=> k = 0)
    OBVIOUS
  <2>2. s.dir \in Turn
    BY DEF Turn
  <2>3. run[k + 1] = VoteStep(s, mean[k + 1])
    BY <1>1, <2>1 DEF VoterStep
  <2> HIDE DEF s
  <2> QED BY <1>2, <2>2, <2>3
<1>4. 0 .. n \subseteq S
  <2> HIDE DEF S
  <2> QED BY <1>3, Voter!Upwards
<1> QED BY <1>4 DEF run

\* What ovl_line_dir returns.
LEMMA OvlLineTurns ==
  ASSUME NEW cols, NEW n \in Nat
  PROVE  \A i \in 1 .. n : OvlLineDir(cols, n)[i] \in Turn
<1> DEFINE Known(i) == SelectSeq(Series(LAMBDA k : cols[k][i], Len(cols)), LAMBDA x : x # None)
           mean == Series(LAMBDA i : IF Known(i) = <<>> THEN None
                                     ELSE QDiv(SumOf(Known(i), 1, Len(Known(i))),
                                               Int2Q(Len(Known(i)))), n)
           run == Scan(LAMBDA s, i : VoteStep(s, mean[i]), [prev |-> None, dir |-> 0], n)
           f == [i \in 1 .. n |-> run[i].dir]
<1>1. OvlLineDir(cols, n) = Series(LAMBDA i : run[i].dir, n)
  BY Zenon DEF OvlLineDir
<1> HIDE DEF mean
<1>2. run = Voter!Run([prev |-> None, dir |-> 0], n, mean)
  BY Zenon DEF Scan, Voter!Run, VoterStep
<1> HIDE DEF run
<1>3. Series(LAMBDA i : run[i].dir, n) = SubSeq(f, 1, n)
  BY Zenon DEF Series
<1>4. SubSeq(f, 1, n) = f
  <2>1. f = [i \in 1 .. n |-> f[i]]
    OBVIOUS
  <2> HIDE DEF f
  <2> QED BY <2>1, WholeSeq
<1>5. \A i \in 1 .. n : run[i].dir \in Turn
  BY <1>2, VoterTurns
<1> QED BY <1>1, <1>3, <1>4, <1>5

\* One bar's tally, with the votes it adds up.
TallyStep(x, k, in) == x + in.dirs[k][in.bar]
Tally == INSTANCE ScanTheory WITH Step <- TallyStep

\* Whole numbers add up to whole numbers.
LEMMA TallyInt ==
  ASSUME NEW n \in Nat, NEW in, \A k \in 1 .. n : in.dirs[k][in.bar] \in Int
  PROVE  \A i \in 1 .. n : Tally!Run(0, n, in)[i] \in Int
<1> DEFINE run == Tally!Run(0, n, in)
           S == {k \in 0 .. n : k = 0 \/ run[k] \in Int}
<1>1. \A k \in 1 .. n : run[k] = TallyStep(IF k = 1 THEN 0 ELSE run[k - 1], k, in)
  BY Tally!RunIs
<1> HIDE DEF run
<1>2. 0 \in S /\ \A k \in 0 .. n - 1 : k \in S => k + 1 \in S
  <2> SUFFICES ASSUME NEW k \in 0 .. n - 1, k = 0 \/ run[k] \in Int
               PROVE  run[k + 1] \in Int
    OBVIOUS
  <2> DEFINE s == IF k = 0 THEN 0 ELSE run[k]
  <2>1. k + 1 \in 1 .. n /\ (k + 1) - 1 = k /\ (k + 1 = 1 <=> k = 0)
    OBVIOUS
  <2>2. s \in Int /\ in.dirs[k + 1][in.bar] \in Int
    BY <2>1
  <2>3. run[k + 1] = s + in.dirs[k + 1][in.bar]
    BY <1>1, <2>1 DEF TallyStep
  <2> HIDE DEF s
  <2> QED BY <2>2, <2>3
<1>3. 0 .. n \subseteq S
  <2> HIDE DEF S
  <2> QED BY <1>2, Tally!Upwards
<1> QED BY <1>3 DEF run

\* Votes that are whole numbers add up to one.
LEMMA VotesInt ==
  ASSUME NEW dirs, NEW n \in Nat, Len(dirs) \in Nat \ {0},
         \A k \in 1 .. Len(dirs), i \in 1 .. n : dirs[k][i] \in Int
  PROVE  \A i \in 1 .. n : Votes(dirs, n)[i] \in Int
<1> DEFINE In(i) == [dirs |-> dirs, bar |-> i]
           m == Len(dirs)
           f == [i \in 1 .. n |-> Scan(LAMBDA x, k : x + dirs[k][i], 0, m)[m]]
<1>1. Votes(dirs, n) = SubSeq(f, 1, n)
  BY Zenon DEF Votes, Series
<1>2. ASSUME NEW i \in 1 .. n PROVE f[i] \in Int
  <2>1. f[i] = Scan(LAMBDA x, k : x + dirs[k][i], 0, m)[m]
    BY Zenon
  <2>2. Scan(LAMBDA x, k : x + dirs[k][i], 0, m) = Tally!Run(0, m, In(i))
    BY Zenon DEF Scan, Tally!Run, TallyStep
  <2>3. \A k \in 1 .. m : In(i).dirs[k][In(i).bar] \in Int
    OBVIOUS
  <2> HIDE DEF In, f
  <2>4. Tally!Run(0, m, In(i))[m] \in Int
    BY <2>3, TallyInt
  <2> QED BY <2>1, <2>2, <2>4
<1>3. f = [i \in 1 .. n |-> f[i]]
  BY Zenon
<1> HIDE DEF f
<1> QED BY <1>1, <1>2, <1>3, WholeSeq

\* The gate that both consensus indicators share (consensus_gate of indicators.rs) turns when
\* need votes on the last wait bars and a break of the last confirmed swing say so, and only then,
\* whatever the votes are: those of the overlays or those of the straight lines.
THEOREM GateFlipsOnBreak ==
  ASSUME NEW c \in Seq(Candle), NEW votes, \A i \in 1 .. Len(c) : votes[i] \in Int,
         NEW in, in.minAgree \in Int, in.confirm \in Nat, in.strength \in Nat
  PROVE  FlipsOnBreak(c, votes, ConsensusGate(c, votes, in.minAgree, in.confirm, in.strength), in)
<1> DEFINE n == Len(c)
           p == GateInputs(c, votes, in.minAgree, in.confirm, in.strength)
           dir == ConsensusGate(c, votes, in.minAgree, in.confirm, in.strength)
           run == GateRun(p)
           need == IF in.minAgree < 1 THEN 1 ELSE in.minAgree
           wait == IF in.confirm < 1 THEN 1 ELSE in.confirm
           Before(i) == IF i = 1 THEN 0 ELSE dir[i - 1]
           Asked(i, d) == votes[i] * d >= need
           Turns(i, d) == /\ d # Before(i)
                          /\ i >= wait
                          /\ \A j \in i + 1 - wait .. i : Asked(j, d)
                          /\ in.strength < 2 \/ Before(i) = 0 \/ BrokenBy(c, i, d, in.strength)
           G(i) == IF i = 1 THEN GateStart ELSE run[i - 1]
<1>1. n \in Nat
  OBVIOUS
<1>2. /\ p.c = c /\ p.votes = votes /\ p.need = need /\ p.wait = wait
      /\ p.structured <=> in.strength >= 2
      /\ in.strength >= 2 => p.swings = KnownSwings(FractalPivots(c, in.strength), n)
  BY DEF GateInputs
<1>3. need \in Nat \ {0} /\ wait \in Nat \ {0}
  OBVIOUS
<1>4. dir = [i \in 1 .. n |-> run[i].cur]
  BY <1>1, GateDir
<1> HIDE DEF p, dir, need, wait
<1>5. \A k \in 1 .. n : run[k].cur = IF Flips(G(k), k, p, 1) THEN 1
                                     ELSE IF Flips(G(k), k, p, -1) THEN -1 ELSE G(k).cur
  BY <1>1, <1>2, <1>3, GateLoop
<1> HIDE DEF run
<1>6. ASSUME NEW i \in 1 .. n PROVE G(i).cur = Before(i)
  <2>1. i = 1 \/ i - 1 \in 1 .. n
    BY <1>1
  <2> QED BY <1>4, <2>1 DEF GateStart
<1>7. ASSUME NEW j \in 1 .. n PROVE /\ Asks(p, j) = 1 <=> Asked(j, 1)
                                    /\ Asks(p, j) = -1 <=> Asked(j, -1)
  <2>1. Asks(p, j) = IF votes[j] >= need THEN 1 ELSE IF votes[j] <= -need THEN -1 ELSE 0
    BY <1>2 DEF Asks
  <2>2. votes[j] \in Int /\ votes[j] * 1 = votes[j] /\ votes[j] * (-1) = -votes[j]
    OBVIOUS
  <2> QED BY <1>3, <2>1, <2>2
<1>8. ASSUME NEW i \in 1 .. n, NEW d \in {1, -1} PROVE Flips(G(i), i, p, d) <=> Turns(i, d)
  <2>1. in.strength >= 2 => (Breaks(p, i, d) <=> BrokenBy(c, i, d, in.strength))
    BY <1>2, BreaksIsBroken
  <2>2. ASSUME i >= wait
        PROVE  AllAsk(p, i, wait, d) <=> \A j \in i + 1 - wait .. i : Asked(j, d)
    <3>1. \A j \in i + 1 - wait .. i : j \in 1 .. n
      BY <1>1, <1>3, <2>2
    <3>2. \A j \in i + 1 - wait .. i : Asks(p, j) = d <=> Asked(j, d)
      BY <1>7, <3>1
    <3> HIDE DEF Asked
    <3> QED BY <3>2 DEF AllAsk
  <2>3. G(i).cur = Before(i)
    BY <1>6
  <2> HIDE DEF G, Before, Asked
  <2>4. Flips(G(i), i, p, d) <=> /\ d # Before(i) /\ i >= wait /\ AllAsk(p, i, wait, d)
                                 /\ ~(in.strength >= 2) \/ Before(i) = 0 \/ Breaks(p, i, d)
    BY <1>2, <2>3 DEF Flips
  <2>5. ~(in.strength >= 2) <=> in.strength < 2
    OBVIOUS
  <2> QED BY <2>1, <2>2, <2>4, <2>5
<1>9. \A i \in 1 .. n : dir[i] = IF Turns(i, 1) THEN 1 ELSE IF Turns(i, -1) THEN -1 ELSE Before(i)
  <2> TAKE i \in 1 .. n
  <2>1. G(i).cur = Before(i)
    BY <1>6
  <2>2. dir[i] = run[i].cur
    BY <1>4
  <2>3. Flips(G(i), i, p, 1) <=> Turns(i, 1)
    BY <1>8
  <2>4. Flips(G(i), i, p, -1) <=> Turns(i, -1)
    BY <1>8
  <2>5. run[i].cur = IF Flips(G(i), i, p, 1) THEN 1
                     ELSE IF Flips(G(i), i, p, -1) THEN -1 ELSE G(i).cur
    BY <1>5
  <2> HIDE DEF G, Before, Turns
  <2> QED BY <2>1, <2>2, <2>3, <2>4, <2>5
<1> QED BY <1>9, Zenon DEF FlipsOnBreak, dir, need, wait

\* What the overlays vote adds up to a whole number.
LEMMA OvlVotesInt ==
  ASSUME NEW c \in Seq(Candle), NEW in
  PROVE  LET v == OvlVoters(c, in)
         IN \A i \in 1 .. Len(c) :
              Votes(Series(LAMBDA k : OvlLineDir(v[k], Len(c)), Len(v)), Len(c))[i] \in Int
<1> DEFINE v == OvlVoters(c, in)
           n == Len(c)
           f == [k \in 1 .. 12 |-> OvlLineDir(v[k], n)]
           dirs == Series(LAMBDA k : OvlLineDir(v[k], n), Len(v))
<1>1. Len(v) = 12 /\ n \in Nat
  BY DEF OvlVoters
<1> HIDE DEF v
<1>2. Series(LAMBDA k : OvlLineDir(v[k], n), 12) = SubSeq(f, 1, 12)
  BY Zenon DEF Series
<1>3. dirs = SubSeq(f, 1, 12)
  BY <1>1, <1>2
<1>4. f = [k \in 1 .. 12 |-> f[k]]
  BY Zenon
<1>5. \A k \in 1 .. 12, i \in 1 .. n : f[k][i] \in Int
  BY <1>1, OvlLineTurns DEF Turn
<1> HIDE DEF f, dirs
<1>6. dirs = f
  BY <1>3, <1>4, WholeSeq
<1>7. Len(dirs) = 12
  BY <1>4, <1>6
<1>8. \A k \in 1 .. Len(dirs), i \in 1 .. n : dirs[k][i] \in Int
  BY <1>5, <1>6, <1>7
<1>9. \A i \in 1 .. n : Votes(dirs, n)[i] \in Int
  <2>1. Len(dirs) \in Nat \ {0}
    BY <1>7
  <2> QED BY <1>1, <1>8, <2>1, VotesInt, Zenon
<1> QED BY <1>9 DEF dirs, v

-----------------------------------------------------------------------------
(* The order of prices.                                                     *)

Pos == Nat \ {0}

\* Whole part and remainder.
LEMMA Parts ==
  ASSUME NEW n \in Int, NEW m \in Pos
  PROVE  n = m * (n \div m) + (n % m) /\ n % m \in 0 .. m - 1 /\ n \div m \in Int
BY DEF Pos

\* Of two fractions with one whole part the remainders decide.
LEMMA SameWhole ==
  ASSUME NEW k \in Int, NEW m \in Pos, NEW r \in 0 .. m - 1, NEW q \in Pos, NEW t \in 0 .. q - 1
  PROVE  (m * k + r) * q < (q * k + t) * m <=> q * r < m * t
BY DEF Pos

\* Otherwise the whole parts do.
LEMMA LessWhole ==
  ASSUME NEW k \in Int, NEW l \in Int, k < l, NEW m \in Pos, NEW r \in 0 .. m - 1,
         NEW q \in Pos, NEW t \in 0 .. q - 1
  PROVE  (m * k + r) * q < (q * l + t) * m /\ ~((q * l + t) * m < (m * k + r) * q)
BY DEF Pos

Less(x) == x[1] * x[4] < x[3] * x[2]

\* One call of Below's function, its own calls left to f.
BelowStep(f, x) ==
  LET n == x[1]  m == x[2]  p == x[3]  q == x[4]
  IN IF n \div m # p \div q THEN n \div m < p \div q
     ELSE p % q # 0 /\ (n % m = 0 \/ f[<<q, p % q, m, n % m>>])

\* One call decides if its own calls do.
LEMMA BelowCall ==
  ASSUME NEW f, NEW x \in Quads,
         \A y \in Quads : y[2] + y[4] < x[2] + x[4] => (f[y] <=> Less(y))
  PROVE  BelowStep(f, x) <=> Less(x)
<1> DEFINE n == x[1]  m == x[2]  p == x[3]  q == x[4]
           k == n \div m  l == p \div q  r == n % m  t == p % q
<1>1. n \in Int /\ m \in Pos /\ p \in Int /\ q \in Pos
  BY DEF Quads, Pos
<1> HIDE DEF n, m, p, q
<1>2. /\ k \in Int /\ r \in 0 .. m - 1 /\ n = m * k + r
      /\ l \in Int /\ t \in 0 .. q - 1 /\ p = q * l + t
  BY <1>1, Parts
<1>3. BelowStep(f, x) <=> IF k # l THEN k < l ELSE t # 0 /\ (r = 0 \/ f[<<q, t, m, r>>])
  BY DEF BelowStep, n, m, p, q
<1> HIDE DEF k, l, r, t
<1>4. CASE k < l
  BY <1>1, <1>2, <1>3, <1>4, LessWhole DEF Less, n, m, p, q
<1>5. CASE l < k
  BY <1>1, <1>2, <1>3, <1>5, LessWhole DEF Less, n, m, p, q
<1>6. CASE k = l
  <2>1. Less(x) <=> q * r < m * t
    <3>1. n * q < p * m <=> q * r < m * t
      BY <1>1, <1>2, <1>6, SameWhole
    <3> QED BY <3>1 DEF Less, n, m, p, q
  <2>2. CASE t = 0
    <3>1. ~(q * r < m * t)
      BY <1>1, <1>2, <2>2 DEF Pos
    <3> QED BY <1>3, <1>6, <2>1, <2>2, <3>1
  <2>3. CASE t # 0 /\ r = 0
    <3>1. q * r < m * t
      BY <1>1, <1>2, <2>3 DEF Pos
    <3> QED BY <1>3, <1>6, <2>1, <2>3, <3>1
  <2>4. CASE t # 0 /\ r # 0
    <3> DEFINE y == <<q, t, m, r>>
    <3>1. y \in Quads /\ y[1] = q /\ y[2] = t /\ y[3] = m /\ y[4] = r
      BY <1>1, <1>2, <2>4 DEF Quads, Pos
    <3>2. y[2] + y[4] < x[2] + x[4]
      BY <1>1, <1>2, <3>1 DEF Pos, m, q
    <3> HIDE DEF y
    <3>3. f[y] <=> q * r < m * t
      BY <3>1, <3>2 DEF Less
    <3> QED BY <1>3, <1>6, <2>1, <2>4, <3>3 DEF y
  <2> QED BY <2>2, <2>3, <2>4
<1> QED BY <1>1, <1>2, <1>4, <1>5, <1>6

\* A call has a truth value.
LEMMA BelowBool == ASSUME NEW f, NEW x PROVE BelowStep(f, x) \in BOOLEAN
<1>1. CASE x[1] \div x[2] # x[3] \div x[4]
  BY <1>1, SMT DEF BelowStep
<1>2. CASE x[1] \div x[2] = x[3] \div x[4]
  <2>1. BelowStep(f, x) = (x[3] % x[4] # 0 /\ (x[1] % x[2] = 0 \/ f[<<x[4], x[3] % x[4], x[2], x[1] % x[2]>>]))
    BY <1>2, Zenon DEF BelowStep
  <2>2. BelowStep(f, x) \in BOOLEAN
    BY <2>1, SMT
  <2> QED BY <2>2
<1> QED BY <1>1, <1>2

\* The function Below calls exists.
LEMMA BelowExists == \E f : f = [x \in Quads |-> BelowStep(f, x)]
<1> DEFINE f == [x \in Quads |-> Less(x)]
<1>1. ASSUME NEW x \in Quads PROVE Less(x) = BelowStep(f, x)
  <2>1. Less(x) <=> BelowStep(f, x)
    <3>1. \A y \in Quads : f[y] <=> Less(y)
      BY Zenon
    <3> HIDE DEF f
    <3> QED BY <3>1, BelowCall
  <2>2. BelowStep(f, x) \in BOOLEAN
    BY BelowBool
  <2>3. Less(x) \in BOOLEAN
    BY DEF Less
  <2> QED BY Zenon, <2>1, <2>2, <2>3
<1>2. f = [x \in Quads |-> BelowStep(f, x)]
  BY <1>1, Zenon
<1> QED BY <1>2, Zenon

\* Below compares by cross-multiplication.
LEMMA BelowIs ==
  ASSUME NEW a \in Int, NEW b \in Pos, NEW c \in Int, NEW d \in Pos
  PROVE  Below(a, b, c, d) <=> a * d < c * b
<1> DEFINE f == CHOOSE f : f = [x \in Quads |-> BelowStep(f, x)]
           z == <<a, b, c, d>>
           n == b + d
           S == {k \in 0 .. n : \A x \in Quads : x[2] + x[4] <= k => (f[x] <=> Less(x))}
<1>1. Below(a, b, c, d) = f[z]
  BY Zenon DEF Below, BelowStep
<1>2. f = [x \in Quads |-> BelowStep(f, x)]
  BY BelowExists, Zenon
<1> HIDE DEF f
<1>3. \A x \in Quads : f[x] <=> BelowStep(f, x)
  BY <1>2, Zenon
<1>4. \A x \in Quads : x[2] \in Nat /\ x[4] \in Nat /\ x[2] + x[4] >= 2
  BY DEF Quads
<1>5. n \in Nat
  BY DEF Pos
<1> HIDE DEF n
<1>6. 0 \in S
  BY <1>4, <1>5
<1>7. ASSUME NEW k \in 0 .. n - 1, k \in S PROVE k + 1 \in S
  <2>1. ASSUME NEW x \in Quads, x[2] + x[4] <= k + 1 PROVE f[x] <=> Less(x)
    <3>1. ASSUME NEW y \in Quads, y[2] + y[4] < x[2] + x[4] PROVE f[y] <=> Less(y)
      <4>1. y[2] + y[4] <= k
        BY <1>4, <2>1, <3>1
      <4> QED BY <1>7, <4>1
    <3> QED BY <1>3, <3>1, BelowCall
  <2>2. k + 1 \in 0 .. n
    BY <1>5
  <2> QED BY <2>1, <2>2
<1>8. n \in S
  <2> HIDE DEF S
  <2>1. 0 .. n \subseteq S
    BY <1>5, <1>6, <1>7, Piv!Upwards
  <2> QED BY <1>5, <2>1
<1>9. z \in Quads /\ z[1] = a /\ z[2] = b /\ z[3] = c /\ z[4] = d /\ z[2] + z[4] <= n
  BY DEF Quads, Pos, n
<1> HIDE DEF z
<1>10. f[z] <=> Less(z)
  BY <1>8, <1>9
<1> QED BY <1>1, <1>9, <1>10 DEF Less

\* Cross-multiplication is transitive.
LEMMA CrossTransitive ==
  ASSUME NEW a \in Int, NEW b \in Pos, NEW c \in Int, NEW d \in Pos, NEW e \in Int, NEW f \in Pos,
         a * d < c * b, c * f < e * d
  PROVE  a * f < e * b
BY DEF Pos

Value == Int \X Nat

\* Of two finite values.
LEMMA FiniteLess ==
  ASSUME NEW x \in Value, NEW y \in Value, x[2] # 0, y[2] # 0
  PROVE  QLess(x, y) <=> x[1] * y[2] < y[1] * x[2]
<1>1. x[1] \in Int /\ x[2] \in Pos /\ y[1] \in Int /\ y[2] \in Pos
  BY DEF Value, Pos
<1>2. CASE x[2] = y[2]
  <2>1. x[1] < y[1] <=> x[1] * y[2] < y[1] * x[2]
    BY <1>1, <1>2 DEF Pos
  <2> QED BY <1>1, <1>2, <2>1 DEF QLess, Pos
<1>3. CASE x[2] # y[2]
  <2>1. QLess(x, y) <=> Below(x[1], x[2], y[1], y[2])
    BY <1>3 DEF QLess
  <2> QED BY <1>1, <2>1, BelowIs
<1> QED BY <1>2, <1>3

\* The order of values, the infinities among them, is a strict one.
LEMMA LessIrreflexive == \A x \in Value : ~QLess(x, x)
BY DEF QLess, Value

\* And a value below one that is below another is below that one.
LEMMA LessTransitive ==
  ASSUME NEW x \in Value, NEW y \in Value, NEW z \in Value, QLess(x, y), QLess(y, z)
  PROVE  QLess(x, z)
<1> DEFINE Top == <<1, 0>>
           Bottom == <<-1, 0>>
           NaN == <<0, 0>>
<1>1. Top # Bottom /\ Top # NaN /\ Bottom # NaN /\ Top[2] = 0 /\ Bottom[2] = 0 /\ NaN[2] = 0
  OBVIOUS
<1>2. ASSUME NEW u, NEW v, u[2] = 0 \/ v[2] = 0
      PROVE  QLess(u, v) <=> u # v /\ u # NaN /\ v # NaN /\ (u = Bottom \/ v = Top)
  BY <1>2 DEF QLess
<1>3. CASE x[2] # 0 /\ y[2] # 0 /\ z[2] # 0
  <2>1. x[1] \in Int /\ x[2] \in Pos /\ y[1] \in Int /\ y[2] \in Pos /\ z[1] \in Int /\ z[2] \in Pos
    BY <1>3 DEF Value, Pos
  <2>2. x[1] * y[2] < y[1] * x[2] /\ y[1] * z[2] < z[1] * y[2]
    BY <1>3, FiniteLess
  <2>3. x[1] * z[2] < z[1] * x[2]
    BY <2>1, <2>2, CrossTransitive
  <2> QED BY <1>3, <2>3, FiniteLess
<1> HIDE DEF Top, Bottom, NaN
<1>4. CASE y[2] = 0
  BY <1>1, <1>2, <1>4
<1>5. CASE y[2] # 0 /\ (x[2] = 0 \/ z[2] = 0)
  <2>1. x[2] = 0 => x = Bottom
    BY <1>1, <1>2, <1>5
  <2>2. z[2] = 0 => z = Top
    BY <1>1, <1>2, <1>5
  <2> QED BY <1>1, <1>2, <1>5, <2>1, <2>2
<1> QED BY <1>3, <1>4, <1>5

-----------------------------------------------------------------------------
(* The zigzag.                                                              *)

Zig == INSTANCE ScanTheory WITH Step <- ZigStep

ZigIn(c, period, mult, pct) ==
  [c |-> c, atr |-> WilderArr(TrArr(c), period), mult |-> mult, pct |-> pct]

ZigRun(c, z) == Zig!Run(ZigStart(c), Len(c), z)

\* The zigzag is what the loop has collected on the last bar.
LEMMA ZigIs ==
  ASSUME NEW c, c # <<>>, NEW period, NEW mult, NEW pct, Len(c) \in Nat
  PROVE  ZigZag(c, period, mult, pct) = ZigRun(c, ZigIn(c, period, mult, pct))[Len(c)].piv
<1> DEFINE z == ZigIn(c, period, mult, pct)
<1>1. ZigZag(c, period, mult, pct) = Scan(LAMBDA s, i : ZigStep(s, i, z), ZigStart(c), Len(c))[Len(c)].piv
  BY Zenon DEF ZigZag, ZigIn
<1> HIDE DEF z
<1>2. Scan(LAMBDA s, i : ZigStep(s, i, z), ZigStart(c), Len(c)) = ZigRun(c, z)
  BY Zenon DEF Scan, ZigRun, Zig!Run
<1> QED BY <1>1, <1>2 DEF z

ZigFields == {"dir", "ext", "extIdx", "piv"}

\* The bar of the last turn.
LastTurn(piv) == IF Len(piv) = 0 THEN 1 ELSE piv[Len(piv)].at

\* The bars from since to i have an extreme on one side, at bar idx.
Extreme(c, h, price, idx, since, i) ==
  /\ price \in Value /\ since \in 1 .. i /\ idx \in since .. i
  /\ \A j \in since .. i : ~Beaten(c, h, price, j)

\* Confirmed legs: each is the extreme of the bars from the turn before to its own, and they
\* alternate.
Confirmed(piv, c) ==
  /\ Len(piv) \in Nat /\ piv = [k \in 1 .. Len(piv) |-> piv[k]]
  /\ \A k \in 1 .. Len(piv) : /\ piv[k].isHigh \in BOOLEAN /\ piv[k].at \in Nat
                              /\ Extreme(c, piv[k].isHigh, piv[k].price, piv[k].idx,
                                         IF k = 1 THEN 1 ELSE piv[k - 1].at, piv[k].at)
  /\ \A k \in 2 .. Len(piv) : /\ ~(piv[k].isHigh <=> piv[k - 1].isHigh)
                              /\ piv[k - 1].at < piv[k].at

\* The legs up to bar i: those confirmed, and the one under way, which is an extreme so far and
\* of the other side than the last.
Legs(s, i, c) ==
  /\ s = [x \in ZigFields |-> s[x]] /\ s.dir \in {-1, 1}
  /\ Confirmed(s.piv, c)
  /\ Len(s.piv) > 0 => (s.piv[Len(s.piv)].isHigh <=> s.dir = -1)
  /\ Extreme(c, s.dir = 1, s.ext, s.extIdx, LastTurn(s.piv), i)

\* What is beyond a beaten price was beyond it before.
LEMMA BeatenLess ==
  ASSUME NEW c, NEW j, c[j].high \in Value, c[j].low \in Value, NEW h \in BOOLEAN,
         NEW x \in Value, NEW y \in Value,
         IF h THEN QLess(x, y) ELSE QLess(y, x), ~Beaten(c, h, x, j)
  PROVE  ~Beaten(c, h, y, j)
BY LessTransitive DEF Beaten

\* A bar that goes further carries the leg on.
Carry(s, i, c) ==
  IF s.dir = 1
  THEN IF QLess(s.ext, c[i].high) THEN [s EXCEPT !.ext = c[i].high, !.extIdx = i] ELSE s
  ELSE IF QLess(c[i].low, s.ext) THEN [s EXCEPT !.ext = c[i].low, !.extIdx = i] ELSE s

\* What one bar does to the zigzag: it starts, it goes on or it turns.
LEMMA ZigStepForm ==
  ASSUME NEW s, NEW i, NEW z, i # 1
  PROVE  \/ ZigStep(s, i, z) = Carry(s, i, z.c)
         \/ ZigStep(s, i, z) = ZigTurn(Carry(s, i, z.c), i, z.c)
<1> DEFINE up == s.dir = 1
           further == IF up THEN QLess(s.ext, z.c[i].high) ELSE QLess(z.c[i].low, s.ext)
           e == IF further
                THEN [s EXCEPT !.ext = IF up THEN z.c[i].high ELSE z.c[i].low, !.extIdx = i]
                ELSE s
<1>1. ZigStep(s, i, z) = e \/ ZigStep(s, i, z) = ZigTurn(e, i, z.c)
  <2> DEFINE t == Threshold(z.atr, i, z.mult, z.pct, z.c[i].close)
             turns == IF up THEN QLeq(z.c[i].low, QSub(e.ext, t))
                      ELSE QLeq(QAdd(e.ext, t), z.c[i].high)
  <2>1. ZigStep(s, i, z) = IF i = 1 THEN s ELSE IF turns THEN ZigTurn(e, i, z.c) ELSE e
    BY Zenon DEF ZigStep
  <2> HIDE DEF turns, e
  <2> QED BY <2>1
<1>2. e = Carry(s, i, z.c)
  BY DEF Carry
<1> HIDE DEF e
<1> QED BY <1>1, <1>2

\* How far bar i goes on a side.
Reach(c, h, i) == IF h THEN c[i].high ELSE c[i].low

\* The leg under way takes a better bar for its extreme.
LEMMA CarryIs ==
  ASSUME NEW s, NEW i, NEW c
  PROVE  Carry(s, i, c) = IF Beaten(c, s.dir = 1, s.ext, i)
                          THEN [s EXCEPT !.ext = Reach(c, s.dir = 1, i), !.extIdx = i] ELSE s
BY DEF Carry, Beaten, Reach

\* No bar beats itself.
LEMMA ReachUnbeaten ==
  ASSUME NEW c, NEW h \in BOOLEAN, NEW i, Reach(c, h, i) \in Value
  PROVE  ~Beaten(c, h, Reach(c, h, i), i)
BY LessIrreflexive DEF Beaten, Reach

\* The bars of a chart have values.
LEMMA BarValues ==
  ASSUME NEW c \in Seq(Candle), NEW i \in 1 .. Len(c)
  PROVE  c[i].high \in Value /\ c[i].low \in Value
<1>1. c[i] \in Candle
  OBVIOUS
<1> QED BY <1>1 DEF Candle, Value

\* The leg under way stays one.
LEMMA CarryLegs ==
  ASSUME NEW c \in Seq(Candle), NEW i \in 2 .. Len(c), NEW s, Legs(s, i - 1, c)
  PROVE  Legs(Carry(s, i, c), i, c)
<1> DEFINE up == s.dir = 1
           from == LastTurn(s.piv)
           e == Carry(s, i, c)
<1>1. /\ s = [x \in ZigFields |-> s[x]]
      /\ s.ext \in Value /\ from \in 1 .. i - 1 /\ s.extIdx \in from .. i - 1
      /\ \A j \in from .. i - 1 : ~Beaten(c, up, s.ext, j)
  BY DEF Legs, Extreme
<1>2. i \in Nat /\ from \in 1 .. i /\ \A j \in from .. i : j = i \/ j \in from .. i - 1
  BY <1>1
<1>3. \A j \in 1 .. i : c[j].high \in Value /\ c[j].low \in Value
  <2>1. \A j \in 1 .. i : j \in 1 .. Len(c)
    OBVIOUS
  <2> QED BY <2>1, BarValues
<1>4. Reach(c, up, i) \in Value
  BY <1>2, <1>3 DEF Reach
<1>5. e.dir = s.dir /\ e.piv = s.piv /\ e = [x \in ZigFields |-> e[x]]
  BY <1>1, CarryIs DEF ZigFields
<1>6. Extreme(c, up, e.ext, e.extIdx, from, i)
  <2>1. CASE Beaten(c, up, s.ext, i)
    <3>1. e.ext = Reach(c, up, i) /\ e.extIdx = i
      BY <1>1, <2>1, CarryIs DEF ZigFields
    <3>2. ASSUME NEW j \in from .. i PROVE ~Beaten(c, up, Reach(c, up, i), j)
      <4>1. CASE j = i
        BY <1>4, <4>1, ReachUnbeaten
      <4>2. CASE j \in from .. i - 1
        <5>1. ~Beaten(c, up, s.ext, j)
          BY <1>1, <4>2
        <5>2. IF up THEN QLess(s.ext, Reach(c, up, i)) ELSE QLess(Reach(c, up, i), s.ext)
          BY <2>1 DEF Beaten, Reach
        <5>3. c[j].high \in Value /\ c[j].low \in Value
          BY <1>1, <1>3, <4>2
        <5> HIDE DEF up
        <5>4. up \in BOOLEAN
          BY DEF up
        <5> QED BY <1>1, <1>4, <5>1, <5>2, <5>3, <5>4, BeatenLess
      <4> QED BY <1>2, <4>1, <4>2
    <3> HIDE DEF e, up
    <3> QED BY <1>2, <1>4, <3>1, <3>2 DEF Extreme
  <2>2. CASE ~Beaten(c, up, s.ext, i)
    <3>1. e = s
      BY <2>2, CarryIs
    <3>2. \A j \in from .. i : ~Beaten(c, up, s.ext, j)
      BY <1>1, <1>2, <2>2
    <3> HIDE DEF e, up
    <3> QED BY <1>1, <1>2, <3>1, <3>2 DEF Extreme
  <2> QED BY <2>1, <2>2
<1> HIDE DEF e
<1>7. Legs(e, i, c)
  BY <1>5, <1>6 DEF Legs
<1> QED BY <1>7 DEF e

\* A turn confirms the leg under way and starts one of the other side.
LEMMA TurnLegs ==
  ASSUME NEW c \in Seq(Candle), NEW i \in 2 .. Len(c), NEW e, Legs(e, i, c),
         LastTurn(e.piv) < i
  PROVE  Legs(ZigTurn(e, i, c), i, c)
<1> DEFINE up == e.dir = 1
           n == Len(e.piv)
           p == [isHigh |-> up, price |-> e.ext, idx |-> e.extIdx, at |-> i]
           piv == Append(e.piv, p)
           t == ZigTurn(e, i, c)
<1>1. /\ e.dir \in {-1, 1} /\ Confirmed(e.piv, c)
      /\ n > 0 => (e.piv[n].isHigh <=> e.dir = -1)
      /\ Extreme(c, up, e.ext, e.extIdx, LastTurn(e.piv), i)
  BY DEF Legs
<1>2. n \in Nat /\ e.piv = [k \in 1 .. n |-> e.piv[k]]
  BY <1>1 DEF Confirmed
<1>3. piv = [k \in 1 .. n + 1 |-> IF k = n + 1 THEN p ELSE e.piv[k]]
  BY <1>2, Zig!Entries
<1> HIDE DEF piv
<1>4. /\ Len(piv) = n + 1 /\ piv = [k \in 1 .. n + 1 |-> piv[k]]
      /\ piv[n + 1] = p /\ \A k \in 1 .. n : piv[k] = e.piv[k]
  BY <1>2, <1>3
<1>5. p.isHigh = up /\ p.price = e.ext /\ p.idx = e.extIdx /\ p.at = i /\ up \in BOOLEAN
  OBVIOUS
<1> HIDE DEF p
<1>6. Confirmed(piv, c)
  <2> DEFINE Since(q, k) == IF k = 1 THEN 1 ELSE q[k - 1].at
  <2>1. \A k \in 1 .. n : /\ e.piv[k].isHigh \in BOOLEAN /\ e.piv[k].at \in Nat
                         /\ Extreme(c, e.piv[k].isHigh, e.piv[k].price, e.piv[k].idx, Since(e.piv, k), e.piv[k].at)
    BY <1>1 DEF Confirmed
  <2>2. \A k \in 2 .. n : ~(e.piv[k].isHigh <=> e.piv[k - 1].isHigh) /\ e.piv[k - 1].at < e.piv[k].at
    BY <1>1 DEF Confirmed
  <2>3. Since(piv, n + 1) = LastTurn(e.piv) /\ \A k \in 1 .. n : Since(piv, k) = Since(e.piv, k)
    <3>1. Since(piv, n + 1) = LastTurn(e.piv)
      <4>1. CASE n = 0
        BY <4>1 DEF LastTurn
      <4>2. CASE n # 0
        <5>1. n + 1 # 1 /\ (n + 1) - 1 = n /\ n \in 1 .. n
          BY <1>2, <4>2
        <5> QED BY <1>4, <4>2, <5>1 DEF LastTurn
      <4> QED BY <4>1, <4>2
    <3>2. ASSUME NEW k \in 1 .. n PROVE Since(piv, k) = Since(e.piv, k)
      <4>1. CASE k = 1
        BY <4>1
      <4>2. CASE k # 1
        <5>1. k - 1 \in 1 .. n
          BY <1>2, <4>2
        <5> QED BY <1>4, <4>2, <5>1
      <4> QED BY <4>1, <4>2
    <3> QED BY <3>1, <3>2
  <2> HIDE DEF Since, up
  <2>4. ASSUME NEW k \in 1 .. n + 1
        PROVE  /\ piv[k].isHigh \in BOOLEAN /\ piv[k].at \in Nat
               /\ Extreme(c, piv[k].isHigh, piv[k].price, piv[k].idx, Since(piv, k), piv[k].at)
    <3>1. CASE k = n + 1
      BY <1>1, <1>4, <1>5, <2>3, <3>1
    <3>2. CASE k \in 1 .. n
      BY <1>4, <2>1, <2>3, <3>2
    <3> QED BY <1>2, <3>1, <3>2
  <2>5. ASSUME NEW k \in 2 .. n + 1
        PROVE  ~(piv[k].isHigh <=> piv[k - 1].isHigh) /\ piv[k - 1].at < piv[k].at
    <3>1. CASE k = n + 1
      <4>1. n > 0 /\ n \in 1 .. n /\ k - 1 = n
        BY <1>2, <3>1
      <4>2. e.piv[n].at < i
        BY <4>1 DEF LastTurn
      <4>3. ~(up <=> e.piv[n].isHigh)
        BY <1>1, <4>1 DEF up
      <4> QED BY <1>4, <1>5, <3>1, <4>1, <4>2, <4>3
    <3>2. CASE k \in 2 .. n
      <4>1. k \in 1 .. n /\ k - 1 \in 1 .. n
        BY <1>2, <3>2
      <4> QED BY <1>4, <2>2, <3>2, <4>1
    <3> QED BY <1>2, <3>1, <3>2
  <2>6. Len(piv) \in Nat /\ piv = [k \in 1 .. Len(piv) |-> piv[k]]
    BY <1>2, <1>4
  <2> QED BY <1>4, <2>4, <2>5, <2>6, Zenon DEF Confirmed, Since
<1>7. t = [dir |-> -e.dir, ext |-> Reach(c, ~up, i), extIdx |-> i, piv |-> piv]
  BY DEF ZigTurn, Reach, piv, p
<1>8. t.dir = -e.dir /\ t.ext = Reach(c, ~up, i) /\ t.extIdx = i /\ t.piv = piv
      /\ t = [x \in ZigFields |-> t[x]]
  BY <1>7 DEF ZigFields
<1> HIDE DEF t
<1>9. t.dir \in {-1, 1} /\ (t.dir = -1 <=> up) /\ (t.dir = 1 <=> ~up)
  BY <1>1, <1>8
<1>10. LastTurn(piv) = i /\ piv[Len(piv)].isHigh = up
  BY <1>2, <1>4, <1>5 DEF LastTurn
<1>11. Extreme(c, t.dir = 1, t.ext, i, i, i)
  <2>1. Reach(c, ~up, i) \in Value
    <3>1. i \in 1 .. Len(c)
      OBVIOUS
    <3> QED BY <3>1, BarValues DEF Reach
  <2>2. ~Beaten(c, ~up, Reach(c, ~up, i), i)
    BY <2>1, ReachUnbeaten
  <2>3. ~Beaten(c, t.dir = 1, t.ext, i)
    BY <1>8, <1>9, <2>2 DEF Beaten
  <2>4. i \in 1 .. i /\ i \in i .. i /\ \A j \in i .. i : j = i
    OBVIOUS
  <2> QED BY <1>8, <2>1, <2>3, <2>4 DEF Extreme
<1> HIDE DEF up
<1>12. Legs(t, i, c)
  BY <1>6, <1>8, <1>9, <1>10, <1>11 DEF Legs
<1> QED BY <1>12 DEF t

\* So every bar of the loop leaves legs.
LEMMA LoopLegs ==
  ASSUME NEW c \in Seq(Candle), c # <<>>, NEW z, z.c = c, NEW k \in 1 .. Len(c)
  PROVE  Legs(ZigRun(c, z)[k], k, c)
<1> DEFINE n == Len(c)
           run == ZigRun(c, z)
           S == {j \in 0 .. n : j = 0 \/ Legs(run[j], j, c)}
<1>1. n \in Nat /\ 1 \in 1 .. n
  OBVIOUS
<1>2. \A j \in 1 .. n : run[j] = ZigStep(IF j = 1 THEN ZigStart(c) ELSE run[j - 1], j, z)
  BY <1>1, Zig!RunIs DEF ZigRun
<1> HIDE DEF run
<1>3. Legs(run[1], 1, c)
  <2> DEFINE s == ZigStart(c)
  <2>1. run[1] = s
    BY <1>1, <1>2 DEF ZigStep
  <2>2. s.dir = 1 /\ s.ext = c[1].high /\ s.extIdx = 1 /\ s.piv = <<>> /\ s = [x \in ZigFields |-> s[x]]
    BY DEF ZigStart, ZigFields
  <2> HIDE DEF s
  <2>3. c[1].high \in Value /\ ~Beaten(c, TRUE, c[1].high, 1)
    BY <1>1, BarValues, LessIrreflexive DEF Beaten
  <2>4. Extreme(c, s.dir = 1, s.ext, s.extIdx, LastTurn(s.piv), 1)
    <3>1. LastTurn(s.piv) = 1 /\ ~Beaten(c, s.dir = 1, s.ext, 1)
      BY <2>2, <2>3 DEF LastTurn, Beaten
    <3>2. \A j \in 1 .. 1 : j = 1
      OBVIOUS
    <3> QED BY <2>2, <2>3, <3>1, <3>2 DEF Extreme
  <2>5. Confirmed(s.piv, c)
    BY <2>2 DEF Confirmed
  <2> QED BY <2>1, <2>2, <2>4, <2>5 DEF Legs
<1>4. ASSUME NEW j \in 2 .. n, Legs(run[j - 1], j - 1, c) PROVE Legs(run[j], j, c)
  <2> DEFINE s == run[j - 1]
             e == Carry(s, j, c)
  <2>1. run[j] = ZigStep(s, j, z)
    <3>1. j \in 1 .. n /\ j # 1
      OBVIOUS
    <3> QED BY <1>2, <3>1
  <2> HIDE DEF s
  <2>2. run[j] = e \/ run[j] = ZigTurn(e, j, c)
    <3>1. j # 1
      OBVIOUS
    <3> QED BY <2>1, <3>1, ZigStepForm
  <2>3. Legs(e, j, c)
    BY <1>4, CarryLegs DEF s
  <2>4. LastTurn(e.piv) < j
    <3>1. e.piv = s.piv
      <4>1. s = [x \in ZigFields |-> s[x]]
        BY <1>4 DEF Legs, s
      <4> QED BY <4>1 DEF Carry, ZigFields
    <3>2. LastTurn(s.piv) \in 1 .. j - 1
      BY <1>4 DEF Legs, Extreme, s
    <3> QED BY <3>1, <3>2
  <2> HIDE DEF e
  <2>5. Legs(ZigTurn(e, j, c), j, c)
    BY <2>3, <2>4, TurnLegs
  <2> QED BY <2>2, <2>3, <2>5
<1>5. 0 \in S /\ \A j \in 0 .. n - 1 : j \in S => j + 1 \in S
  <2> SUFFICES ASSUME NEW j \in 0 .. n - 1, j = 0 \/ Legs(run[j], j, c)
               PROVE  Legs(run[j + 1], j + 1, c)
    OBVIOUS
  <2>1. CASE j = 0
    BY <1>3, <2>1
  <2>2. CASE j # 0
    <3>1. j + 1 \in 2 .. n /\ (j + 1) - 1 = j
      BY <2>2
    <3> QED BY <1>4, <2>2, <3>1
  <2> QED BY <2>1, <2>2
<1>6. 0 .. n \subseteq S
  <2> HIDE DEF S
  <2> QED BY <1>1, <1>5, Zig!Upwards
<1>7. k \in S /\ k # 0
  BY <1>1, <1>6
<1> QED BY <1>7 DEF run

\* The zigzag of a chart is made of legs.
LEMMA ZigLegs ==
  ASSUME NEW c \in Seq(Candle), NEW period, NEW mult, NEW pct
  PROVE  LegsOf(c, ZigZag(c, period, mult, pct))
<1> DEFINE zig == ZigZag(c, period, mult, pct)
<1>1. Confirmed(zig, c)
  <2>1. CASE c = <<>>
    <3>1. zig = <<>>
      BY <2>1 DEF ZigZag
    <3> HIDE DEF zig
    <3> QED BY <3>1 DEF Confirmed
  <2>2. CASE c # <<>>
    <3> DEFINE z == ZigIn(c, period, mult, pct)
    <3>1. Len(c) \in Nat /\ Len(c) \in 1 .. Len(c)
      BY <2>2
    <3>2. zig = ZigRun(c, z)[Len(c)].piv
      BY <2>2, <3>1, ZigIs
    <3>3. z.c = c
      BY DEF ZigIn
    <3> HIDE DEF zig, z
    <3>4. Legs(ZigRun(c, z)[Len(c)], Len(c), c)
      BY <2>2, <3>1, <3>3, LoopLegs
    <3> QED BY <3>2, <3>4 DEF Legs
  <2> QED BY <2>1, <2>2
<1> HIDE DEF zig
<1> DEFINE Since(k) == IF k = 1 THEN 1 ELSE zig[k - 1].at
<1>2. Len(zig) \in Nat /\ DOMAIN zig = 1 .. Len(zig)
  BY <1>1 DEF Confirmed
<1>3. ASSUME NEW k \in DOMAIN zig
      PROVE  /\ \A i \in Since(k) .. zig[k].at : ~Beaten(c, zig[k].isHigh, zig[k].price, i)
             /\ k > 1 => /\ zig[k].isHigh # zig[k - 1].isHigh
                         /\ zig[k - 1].idx <= zig[k].idx /\ zig[k - 1].at < zig[k].at
  <2>1. k \in 1 .. Len(zig) /\ Extreme(c, zig[k].isHigh, zig[k].price, zig[k].idx, Since(k), zig[k].at)
    BY <1>1, <1>2 DEF Confirmed
  <2>2. ASSUME k > 1
        PROVE  /\ zig[k].isHigh # zig[k - 1].isHigh
               /\ zig[k - 1].idx <= zig[k].idx /\ zig[k - 1].at < zig[k].at
    <3>1. k \in 2 .. Len(zig) /\ k - 1 \in 1 .. Len(zig)
      BY <1>2, <2>1, <2>2
    <3>2. ~(zig[k].isHigh <=> zig[k - 1].isHigh) /\ zig[k - 1].at < zig[k].at
      BY <1>1, <3>1 DEF Confirmed
    <3>3. /\ zig[k - 1].at \in Nat
          /\ Extreme(c, zig[k - 1].isHigh, zig[k - 1].price, zig[k - 1].idx,
                     IF k - 1 = 1 THEN 1 ELSE zig[(k - 1) - 1].at, zig[k - 1].at)
      BY <1>1, <3>1 DEF Confirmed
    <3>4. zig[k - 1].idx <= zig[k - 1].at /\ zig[k - 1].idx \in Int
      <4> DEFINE since == IF k - 1 = 1 THEN 1 ELSE zig[(k - 1) - 1].at
      <4>1. Extreme(c, zig[k - 1].isHigh, zig[k - 1].price, zig[k - 1].idx, since, zig[k - 1].at)
        BY <3>3
      <4> HIDE DEF since
      <4> QED BY <4>1 DEF Extreme
    <3>5. zig[k - 1].at <= zig[k].idx
      <4>1. Since(k) = zig[k - 1].at
        BY <2>2
      <4> QED BY <2>1, <4>1, <3>3 DEF Extreme
    <3>6. zig[k].isHigh # zig[k - 1].isHigh
      BY <3>2
    <3>7. zig[k].idx \in Int
      BY <2>1 DEF Extreme
    <3> QED BY <3>2, <3>3, <3>4, <3>5, <3>6, <3>7
  <2> QED BY <2>1, <2>2 DEF Extreme
<1>4. LegsOf(c, zig)
  BY <1>3, Zenon DEF LegsOf
<1> QED BY <1>4 DEF zig

-----------------------------------------------------------------------------
(* The choice among neighbouring pivots.                                    *)

Alt == INSTANCE ScanTheory WITH Step <- Join

AltRun(piv) == Alt!Run(<<>>, Len(piv), piv)

\* alternating_pivots is a loop over the pivots.
LEMMA AlternatingIs ==
  ASSUME NEW piv, piv # <<>>, Len(piv) \in Nat
  PROVE  AlternatingPivots(piv) = AltRun(piv)[Len(piv)]
<1>1. AlternatingPivots(piv) = Scan(LAMBDA out, k : Join(out, k, piv), <<>>, Len(piv))[Len(piv)]
  BY Zenon DEF AlternatingPivots
<1>2. Scan(LAMBDA out, k : Join(out, k, piv), <<>>, Len(piv)) = AltRun(piv)
  BY Zenon DEF Scan, AltRun, Alt!Run
<1> QED BY <1>1, <1>2

\* Pivots of a chart, each at the extreme of its bar, in order.
PivotsOf(piv, c) ==
  /\ Len(piv) \in Nat /\ piv = [j \in 1 .. Len(piv) |-> piv[j]]
  /\ \A j \in 1 .. Len(piv) : /\ piv[j].isHigh \in BOOLEAN /\ piv[j].idx \in 1 .. Len(c)
                              /\ piv[j].price = Reach(c, piv[j].isHigh, piv[j].idx)
                              /\ piv[j].price \in Value
  /\ \A a, b \in 1 .. Len(piv) : a < b => piv[a].idx < piv[b].idx

\* p competes with entry k of out: it is on its side, between its neighbours.
Rival(out, k, p) ==
  /\ p.isHigh <=> out[k].isHigh
  /\ k = 1 \/ p.idx > out[k - 1].idx
  /\ k = Len(out) \/ p.idx < out[k + 1].idx

\* Among the first m pivots out has chosen: entries alternate and move forward, after the last
\* come pivots of its own side only, and no rival of an entry beats it.
Chosen(out, m, piv, c) ==
  /\ Len(out) \in Nat /\ Len(out) > 0 /\ out = [k \in 1 .. Len(out) |-> out[k]]
  /\ \A k \in 1 .. Len(out) : \E j \in 1 .. m : out[k] = piv[j]
  /\ \A k \in 2 .. Len(out) : ~(out[k].isHigh <=> out[k - 1].isHigh) /\ out[k - 1].idx < out[k].idx
  /\ \A q \in 1 .. m : piv[q].idx > out[Len(out)].idx => (piv[q].isHigh <=> out[Len(out)].isHigh)
  /\ \A k \in 1 .. Len(out), q \in 1 .. m :
       Rival(out, k, piv[q]) => ~Beaten(c, out[k].isHigh, out[k].price, piv[q].idx)

\* A pivot does not beat itself.
LEMMA OwnUnbeaten ==
  ASSUME NEW piv, NEW c, PivotsOf(piv, c), NEW j \in 1 .. Len(piv)
  PROVE  ~Beaten(c, piv[j].isHigh, piv[j].price, piv[j].idx)
BY ReachUnbeaten DEF PivotsOf

\* What an entry is.
LEMMA EntryIs ==
  ASSUME NEW c, NEW piv, PivotsOf(piv, c), NEW m \in 0 .. Len(piv) - 1, NEW out,
         Chosen(out, m, piv, c), NEW k \in 1 .. Len(out)
  PROVE  /\ out[k].isHigh \in BOOLEAN /\ out[k].price \in Value /\ out[k].idx \in Nat
         /\ out[k].idx < piv[m + 1].idx
<1>1. PICK j \in 1 .. m : out[k] = piv[j]
  BY DEF Chosen
<1>2. j \in 1 .. Len(piv) /\ m + 1 \in 1 .. Len(piv) /\ j < m + 1
  BY DEF PivotsOf
<1> QED BY <1>1, <1>2 DEF PivotsOf

\* A pivot of the last entry's side that does not beat it changes nothing.
LEMMA PassedOver ==
  ASSUME NEW c, NEW piv, PivotsOf(piv, c), NEW m \in 0 .. Len(piv) - 1, NEW out,
         Chosen(out, m, piv, c),
         piv[m + 1].isHigh <=> out[Len(out)].isHigh,
         ~Beaten(c, out[Len(out)].isHigh, out[Len(out)].price, piv[m + 1].idx)
  PROVE  Chosen(out, m + 1, piv, c)
<1> DEFINE n == Len(out)
           p == piv[m + 1]
<1>1. \A q \in 1 .. m + 1 : q = m + 1 \/ q \in 1 .. m
  BY DEF PivotsOf
<1>2. \A j \in 1 .. m : j \in 1 .. m + 1
  BY DEF PivotsOf
<1>3. \A k \in 1 .. n : \E j \in 1 .. m + 1 : out[k] = piv[j]
  BY <1>2 DEF Chosen
<1>4. \A q \in 1 .. m + 1 : piv[q].idx > out[n].idx => (piv[q].isHigh <=> out[n].isHigh)
  BY <1>1 DEF Chosen
<1>5. ASSUME NEW k \in 1 .. n, NEW q \in 1 .. m + 1, Rival(out, k, piv[q])
      PROVE  ~Beaten(c, out[k].isHigh, out[k].price, piv[q].idx)
  <2>1. CASE q \in 1 .. m
    BY <1>5, <2>1 DEF Chosen
  <2>2. CASE q = m + 1 /\ k = n
    BY <2>2
  <2>3. CASE q = m + 1 /\ k # n
    <3>1. n \in Nat
      BY DEF Chosen
    <3>2. k + 1 \in 1 .. n
      BY <2>3, <3>1
    <3>3. out[k + 1].idx < p.idx /\ out[k + 1].idx \in Nat
      BY <3>2, EntryIs
    <3>4. p.idx \in Nat
      BY DEF PivotsOf
    <3> QED BY <1>5, <2>3, <3>3, <3>4 DEF Rival
  <2> QED BY <1>1, <2>1, <2>2, <2>3
<1> QED BY <1>3, <1>4, <1>5 DEF Chosen

\* A pivot that beats the last entry on its side takes its place.
LEMMA Replaced ==
  ASSUME NEW c, \A i \in 1 .. Len(c) : c[i].high \in Value /\ c[i].low \in Value,
         NEW piv, PivotsOf(piv, c), NEW m \in 0 .. Len(piv) - 1, NEW out,
         Chosen(out, m, piv, c),
         piv[m + 1].isHigh <=> out[Len(out)].isHigh,
         IF piv[m + 1].isHigh THEN QLess(out[Len(out)].price, piv[m + 1].price)
                              ELSE QLess(piv[m + 1].price, out[Len(out)].price)
  PROVE  Chosen([out EXCEPT ![Len(out)] = piv[m + 1]], m + 1, piv, c)
<1> DEFINE n == Len(out)
           p == piv[m + 1]
           out2 == [out EXCEPT ![n] = p]
<1>1. m + 1 \in 1 .. Len(piv) /\ \A q \in 1 .. m + 1 : q = m + 1 \/ (q \in 1 .. m /\ q \in 1 .. Len(piv) /\ q < m + 1)
  BY DEF PivotsOf
<1>2. n \in Nat /\ n \in 1 .. n /\ out = [k \in 1 .. n |-> out[k]]
  BY DEF Chosen
<1>3. /\ Len(out2) = n /\ out2 = [k \in 1 .. n |-> out2[k]]
      /\ out2[n] = p /\ \A k \in 1 .. n : k # n => out2[k] = out[k]
  <2>1. out2 = [k \in 1 .. n |-> IF k = n THEN p ELSE out[k]]
    BY <1>2
  <2> HIDE DEF out2, p, n
  <2>2. Len(out2) = n
    BY <1>2, <2>1
  <2> QED BY <1>2, <2>1, <2>2
<1> HIDE DEF out2
<1>4. \A k \in 1 .. n : /\ out[k].isHigh \in BOOLEAN /\ out[k].price \in Value
                        /\ out[k].idx \in Nat /\ out[k].idx < p.idx
  BY EntryIs
<1>5. /\ p.isHigh \in BOOLEAN /\ p.price \in Value /\ p.idx \in Nat
      /\ \A q \in 1 .. m : piv[q].idx < p.idx /\ piv[q].idx \in 1 .. Len(c) /\ piv[q].isHigh \in BOOLEAN
  BY <1>1 DEF PivotsOf
<1>6. p.isHigh = out[n].isHigh
  BY <1>2, <1>4, <1>5
<1>7. \A k \in 1 .. n : \E j \in 1 .. m + 1 : out2[k] = piv[j]
  <2> TAKE k \in 1 .. n
  <2>1. CASE k = n
    <3>1. m + 1 \in 1 .. m + 1
      BY <1>1
    <3> QED BY <1>3, <2>1, <3>1
  <2>2. CASE k # n
    <3>1. PICK j \in 1 .. m : out[k] = piv[j]
      BY DEF Chosen
    <3>2. j \in 1 .. m + 1
      OBVIOUS
    <3> QED BY <1>3, <2>2, <3>1, <3>2
  <2> QED BY <2>1, <2>2
<1>8. ASSUME NEW k \in 2 .. n PROVE ~(out2[k].isHigh <=> out2[k - 1].isHigh) /\ out2[k - 1].idx < out2[k].idx
  <2>1. k \in 1 .. n /\ k - 1 \in 1 .. n /\ k - 1 # n
    BY <1>2
  <2>2. ~(out[k].isHigh <=> out[k - 1].isHigh) /\ out[k - 1].idx < out[k].idx
    BY DEF Chosen
  <2>3. CASE k = n
    BY <1>3, <1>4, <1>6, <2>1, <2>2, <2>3
  <2>4. CASE k # n
    BY <1>3, <2>1, <2>2, <2>4
  <2> QED BY <2>3, <2>4
<1>9. \A q \in 1 .. m + 1 : piv[q].idx > out2[n].idx => (piv[q].isHigh <=> out2[n].isHigh)
  BY <1>1, <1>3, <1>5
<1>10. ASSUME NEW k \in 1 .. n, NEW q \in 1 .. m + 1, Rival(out2, k, piv[q])
       PROVE  ~Beaten(c, out2[k].isHigh, out2[k].price, piv[q].idx)
  <2>1. CASE q = m + 1
    <3>1. CASE k = n
      BY <1>1, <1>3, <2>1, <3>1, OwnUnbeaten
    <3>2. CASE k # n
      <4>1. k + 1 \in 1 .. n
        BY <1>2, <3>2
      <4>2. out2[k + 1].idx <= p.idx /\ out2[k + 1].idx \in Nat
        BY <1>3, <1>4, <1>5, <4>1
      <4> QED BY <1>3, <1>5, <1>10, <2>1, <3>2, <4>2 DEF Rival
    <3> QED BY <3>1, <3>2
  <2>2. CASE q \in 1 .. m /\ k = n
    <3>1. Rival(out, n, piv[q])
      <4>1. n = 1 \/ piv[q].idx > out[n - 1].idx
        <5>1. CASE n = 1
          BY <5>1
        <5>2. CASE n # 1
          <6>1. n - 1 \in 1 .. n /\ n - 1 # n
            <7> HIDE DEF n
            <7> QED BY <1>2, <5>2
          <6> QED BY <1>3, <1>10, <2>2, <5>2, <6>1 DEF Rival
        <5> QED BY <5>1, <5>2
      <4>2. piv[q].isHigh <=> out[n].isHigh
        BY <1>3, <1>6, <1>10, <2>2 DEF Rival
      <4> QED BY <4>1, <4>2 DEF Rival
    <3>2. ~Beaten(c, p.isHigh, out[n].price, piv[q].idx)
      <4>1. ~Beaten(c, out[n].isHigh, out[n].price, piv[q].idx)
        BY <1>2, <2>2, <3>1 DEF Chosen
      <4> QED BY <1>6, <4>1
    <3>3. c[piv[q].idx].high \in Value /\ c[piv[q].idx].low \in Value
      BY <1>5, <2>2
    <3>4. out[n].price \in Value
      BY <1>2, <1>4
    <3> HIDE DEF p
    <3>5. ~Beaten(c, p.isHigh, p.price, piv[q].idx)
      <4>1. IF p.isHigh THEN QLess(out[n].price, p.price) ELSE QLess(p.price, out[n].price)
        BY DEF p
      <4> HIDE DEF n
      <4> QED BY <1>5, <3>2, <3>3, <3>4, <4>1, BeatenLess
    <3> QED BY <1>3, <2>2, <3>5
  <2>3. CASE q \in 1 .. m /\ k # n
    <3>1. k + 1 \in 1 .. n
      BY <1>2, <2>3
    <3>2. Rival(out, k, piv[q])
      <4>1. piv[q].isHigh <=> out[k].isHigh
        BY <1>3, <1>10, <2>3 DEF Rival
      <4>2. k = 1 \/ piv[q].idx > out[k - 1].idx
        <5>1. CASE k = 1
          BY <5>1
        <5>2. CASE k # 1
          <6>1. k - 1 \in 1 .. n /\ k - 1 # n
            BY <1>2, <2>3, <5>2
          <6> QED BY <1>3, <1>10, <5>2, <6>1 DEF Rival
        <5> QED BY <5>1, <5>2
      <4>3. piv[q].idx < out[k + 1].idx
        <5>1. CASE k + 1 # n
          BY <1>3, <1>10, <2>3, <3>1, <5>1 DEF Rival
        <5>2. CASE k + 1 = n
          <6>1. ~(out[n].isHigh <=> out[k].isHigh)
            <7>1. n \in 2 .. n /\ n - 1 = k
              BY <1>2, <5>2
            <7> QED BY <7>1 DEF Chosen
          <6>2. ~(piv[q].idx > out[n].idx)
            BY <2>3, <4>1, <6>1 DEF Chosen
          <6>3. piv[q].idx # out[n].idx
            <7>1. PICK j \in 1 .. m : out[n] = piv[j]
              BY <1>2 DEF Chosen
            <7>2. piv[q].idx = piv[j].idx => q = j
              <8>1. q \in 1 .. Len(piv) /\ j \in 1 .. Len(piv) /\ (q = j \/ q < j \/ j < q)
                BY <1>1, <2>3
              <8>2. piv[q].idx \in Nat /\ piv[j].idx \in Nat
                BY <8>1 DEF PivotsOf
              <8> QED BY <8>1, <8>2 DEF PivotsOf
            <7> QED BY <4>1, <6>1, <7>1, <7>2
          <6>4. piv[q].idx \in Nat /\ out[n].idx \in Nat
            BY <1>2, <1>4, <1>5, <2>3
          <6> QED BY <5>2, <6>2, <6>3, <6>4
        <5> QED BY <5>1, <5>2
      <4> QED BY <4>1, <4>2, <4>3 DEF Rival
    <3> QED BY <1>3, <2>3, <3>2 DEF Chosen
  <2> QED BY <1>1, <2>1, <2>2, <2>3
<1>11. Chosen(out2, m + 1, piv, c)
  <2>1. n > 0
    BY <1>2
  <2> HIDE DEF n, p
  <2> QED BY <1>2, <1>3, <1>7, <1>8, <1>9, <1>10, <2>1 DEF Chosen
<1> QED BY <1>11 DEF out2

\* A pivot of the other side joins.
LEMMA Joined ==
  ASSUME NEW c, NEW piv, PivotsOf(piv, c), NEW m \in 0 .. Len(piv) - 1, NEW out,
         Chosen(out, m, piv, c),
         ~(piv[m + 1].isHigh <=> out[Len(out)].isHigh)
  PROVE  Chosen(Append(out, piv[m + 1]), m + 1, piv, c)
<1> DEFINE n == Len(out)
           p == piv[m + 1]
           out2 == Append(out, p)
<1>1. m + 1 \in 1 .. Len(piv) /\ \A q \in 1 .. m + 1 : q = m + 1 \/ (q \in 1 .. m /\ q \in 1 .. Len(piv) /\ q < m + 1)
  BY DEF PivotsOf
<1>2. n \in Nat /\ n \in 1 .. n /\ out = [k \in 1 .. n |-> out[k]]
  BY DEF Chosen
<1>3. /\ Len(out2) = n + 1 /\ out2 = [k \in 1 .. n + 1 |-> out2[k]]
      /\ out2[n + 1] = p /\ \A k \in 1 .. n : out2[k] = out[k]
  <2>1. out2 = [k \in 1 .. n + 1 |-> IF k = n + 1 THEN p ELSE out[k]]
    BY <1>2, Alt!Entries
  <2> HIDE DEF out2, p, n
  <2>2. Len(out2) = n + 1
    BY <1>2, <2>1
  <2> QED BY <1>2, <2>1, <2>2
<1> HIDE DEF out2
<1>4. \A k \in 1 .. n : out[k].idx \in Nat /\ out[k].idx < p.idx
  BY EntryIs
<1>5. p.idx \in Nat /\ \A q \in 1 .. m : piv[q].idx < p.idx /\ piv[q].idx \in Nat
  BY <1>1 DEF PivotsOf
<1>6. \A k \in 1 .. n + 1 : k = n + 1 \/ k \in 1 .. n
  BY <1>2
<1>7. \A k \in 1 .. n + 1 : \E j \in 1 .. m + 1 : out2[k] = piv[j]
  <2> TAKE k \in 1 .. n + 1
  <2>1. CASE k = n + 1
    <3>1. m + 1 \in 1 .. m + 1
      BY <1>1
    <3> QED BY <1>3, <2>1, <3>1
  <2>2. CASE k \in 1 .. n
    <3>1. PICK j \in 1 .. m : out[k] = piv[j]
      BY <2>2 DEF Chosen
    <3>2. j \in 1 .. m + 1
      OBVIOUS
    <3> QED BY <1>3, <2>2, <3>1, <3>2
  <2> QED BY <1>6, <2>1, <2>2
<1>8. ASSUME NEW k \in 2 .. n + 1
      PROVE  ~(out2[k].isHigh <=> out2[k - 1].isHigh) /\ out2[k - 1].idx < out2[k].idx
  <2>1. CASE k = n + 1
    <3>1. k - 1 = n
      BY <1>2, <2>1
    <3> QED BY <1>2, <1>3, <1>4, <2>1, <3>1
  <2>2. CASE k \in 2 .. n
    <3>1. k \in 1 .. n /\ k - 1 \in 1 .. n
      BY <1>2, <2>2
    <3>2. ~(out[k].isHigh <=> out[k - 1].isHigh) /\ out[k - 1].idx < out[k].idx
      BY <2>2 DEF Chosen
    <3> QED BY <1>3, <3>1, <3>2
  <2> QED BY <1>2, <2>1, <2>2
<1>9. \A q \in 1 .. m + 1 : piv[q].idx > out2[n + 1].idx => (piv[q].isHigh <=> out2[n + 1].isHigh)
  BY <1>1, <1>3, <1>5
<1>10. ASSUME NEW k \in 1 .. n + 1, NEW q \in 1 .. m + 1, Rival(out2, k, piv[q])
       PROVE  ~Beaten(c, out2[k].isHigh, out2[k].price, piv[q].idx)
  <2>1. CASE k = n + 1
    <3>1. CASE q = m + 1
      BY <1>1, <1>3, <2>1, <3>1, OwnUnbeaten
    <3>2. CASE q \in 1 .. m
      <4>1. piv[q].idx > out[n].idx /\ (piv[q].isHigh <=> p.isHigh)
        <5>1. k - 1 = n /\ k # 1
          BY <1>2, <2>1
        <5> QED BY <1>2, <1>3, <1>10, <2>1, <5>1 DEF Rival
      <4>2. piv[q].isHigh <=> out[n].isHigh
        BY <3>2, <4>1 DEF Chosen
      <4> QED BY <4>1, <4>2
    <3> QED BY <1>1, <3>1, <3>2
  <2>2. CASE k \in 1 .. n
    <3>1. k + 1 \in 1 .. n + 1 /\ k # n + 1
      BY <1>2, <2>2
    <3>2. piv[q].idx < out2[k + 1].idx
      BY <1>3, <1>10, <3>1 DEF Rival
    <3>3. out2[k + 1].idx <= p.idx /\ out2[k + 1].idx \in Nat
      <4>1. CASE k + 1 = n + 1
        BY <1>3, <1>5, <4>1
      <4>2. CASE k + 1 # n + 1
        <5>1. k + 1 \in 1 .. n
          BY <1>6, <3>1, <4>2
        <5>2. out2[k + 1] = out[k + 1]
          BY <1>3, <5>1
        <5> QED BY <1>4, <1>5, <5>1, <5>2
      <4> QED BY <4>1, <4>2
    <3>4. q \in 1 .. m
      BY <1>1, <1>5, <3>2, <3>3
    <3>5. Rival(out, k, piv[q])
      <4>1. piv[q].isHigh <=> out[k].isHigh
        BY <1>3, <1>10, <2>2 DEF Rival
      <4>2. k = 1 \/ piv[q].idx > out[k - 1].idx
        <5>1. CASE k = 1
          BY <5>1
        <5>2. CASE k # 1
          <6>1. k - 1 \in 1 .. n
            BY <1>2, <2>2, <5>2
          <6> QED BY <1>3, <1>10, <5>2, <6>1 DEF Rival
        <5> QED BY <5>1, <5>2
      <4>3. k = n \/ piv[q].idx < out[k + 1].idx
        <5>1. CASE k = n
          BY <5>1
        <5>2. CASE k # n
          <6>1. k + 1 \in 1 .. n
            BY <1>2, <2>2, <5>2
          <6> QED BY <1>3, <3>2, <6>1
        <5> QED BY <5>1, <5>2
      <4> QED BY <4>1, <4>2, <4>3 DEF Rival
    <3> QED BY <1>3, <2>2, <3>4, <3>5 DEF Chosen
  <2> QED BY <1>6, <2>1, <2>2
<1>11. Chosen(out2, m + 1, piv, c)
  <2>1. n + 1 > 0 /\ n + 1 \in Nat
    BY <1>2
  <2> HIDE DEF n, p
  <2> QED BY <1>2, <1>3, <1>7, <1>8, <1>9, <1>10, <2>1 DEF Chosen
<1> QED BY <1>11 DEF out2

\* Each pivot is passed over, replaces the last entry or joins.
LEMMA JoinChosen ==
  ASSUME NEW c, \A i \in 1 .. Len(c) : c[i].high \in Value /\ c[i].low \in Value,
         NEW piv, PivotsOf(piv, c), NEW m \in 0 .. Len(piv) - 1, NEW out,
         Chosen(out, m, piv, c)
  PROVE  Chosen(Join(out, m + 1, piv), m + 1, piv, c)
<1> DEFINE n == Len(out)
           p == piv[m + 1]
           Wins(q) == IF p.isHigh THEN QLess(q.price, p.price) ELSE QLess(p.price, q.price)
<1>1. m + 1 \in 1 .. Len(piv)
  BY DEF PivotsOf
<1>2. n # 0 /\ n \in 1 .. n
  BY DEF Chosen
<1>3. /\ p.isHigh \in BOOLEAN /\ p.price = Reach(c, p.isHigh, p.idx) /\ p.price \in Value
      /\ out[n].isHigh \in BOOLEAN /\ p.idx > out[n].idx
  <2>1. out[n].isHigh \in BOOLEAN /\ out[n].idx \in Nat /\ out[n].idx < p.idx
    BY <1>2, EntryIs
  <2>2. p.isHigh \in BOOLEAN /\ p.price = Reach(c, p.isHigh, p.idx) /\ p.price \in Value /\ p.idx \in Nat
    BY <1>1 DEF PivotsOf
  <2> QED BY <2>1, <2>2
<1>4. Join(out, m + 1, piv) = IF out[n].isHigh = p.isHigh
                              THEN IF Wins(out[n]) THEN [out EXCEPT ![n] = p] ELSE out
                              ELSE Append(out, p)
  BY <1>2, <1>3, Zenon DEF Join
<1> HIDE DEF Wins
<1>5. CASE out[n].isHigh = p.isHigh /\ Wins(out[n])
  <2>1. IF p.isHigh THEN QLess(out[n].price, p.price) ELSE QLess(p.price, out[n].price)
    BY <1>5 DEF Wins
  <2>2. p.isHigh <=> out[n].isHigh
    BY <1>5
  <2> HIDE DEF p, n
  <2>3. Chosen([out EXCEPT ![n] = p], m + 1, piv, c)
    BY <2>1, <2>2, Replaced DEF p, n
  <2> QED BY <1>4, <1>5, <2>3
<1>6. CASE out[n].isHigh = p.isHigh /\ ~Wins(out[n])
  <2>1. ~Beaten(c, out[n].isHigh, out[n].price, p.idx)
    BY <1>3, <1>6 DEF Wins, Beaten, Reach
  <2> QED BY <1>4, <1>6, <2>1, PassedOver
<1>7. CASE out[n].isHigh # p.isHigh
  <2>1. ~(p.isHigh <=> out[n].isHigh)
    BY <1>3, <1>7
  <2> QED BY <1>4, <1>7, <2>1, Joined
<1> QED BY <1>5, <1>6, <1>7

\* So the loop chooses among all pivots.
LEMMA AltChosen ==
  ASSUME NEW c, \A i \in 1 .. Len(c) : c[i].high \in Value /\ c[i].low \in Value,
         NEW piv, PivotsOf(piv, c), piv # <<>>
  PROVE  Chosen(AltRun(piv)[Len(piv)], Len(piv), piv, c)
<1> DEFINE n == Len(piv)
           run == AltRun(piv)
           S == {m \in 0 .. n : m = 0 \/ Chosen(run[m], m, piv, c)}
<1>1. n \in Nat /\ n # 0
  BY DEF PivotsOf
<1>2. \A m \in 1 .. n : run[m] = Join(IF m = 1 THEN <<>> ELSE run[m - 1], m, piv)
  BY <1>1, Alt!RunIs DEF AltRun
<1> HIDE DEF run
<1>3. Chosen(run[1], 1, piv, c)
  <2>1. 1 \in 1 .. n
    BY <1>1
  <2>2. run[1] = <<piv[1]>>
    <3>1. run[1] = Join(<<>>, 1, piv)
      BY <1>2, <2>1
    <3> QED BY <3>1 DEF Join
  <2> DEFINE out == run[1]
  <2>3. Len(out) = 1 /\ out[1] = piv[1] /\ out = [k \in 1 .. 1 |-> out[k]]
    BY <2>2
  <2> HIDE DEF out
  <2>4. \A k \in 1 .. 1 : k = 1
    OBVIOUS
  <2>5. ~Beaten(c, piv[1].isHigh, piv[1].price, piv[1].idx) /\ piv[1].idx \in Nat
    BY <2>1, OwnUnbeaten DEF PivotsOf
  <2>6. Chosen(out, 1, piv, c)
    BY <2>3, <2>4, <2>5 DEF Chosen
  <2> QED BY <2>6 DEF out
<1>4. 0 \in S /\ \A m \in 0 .. n - 1 : m \in S => m + 1 \in S
  <2> SUFFICES ASSUME NEW m \in 0 .. n - 1, m = 0 \/ Chosen(run[m], m, piv, c)
               PROVE  Chosen(run[m + 1], m + 1, piv, c)
    BY <1>1
  <2>1. CASE m = 0
    BY <1>3, <2>1
  <2>2. CASE m # 0
    <3>1. m + 1 \in 1 .. n /\ m + 1 # 1 /\ (m + 1) - 1 = m
      BY <1>1, <2>2
    <3>2. run[m + 1] = Join(run[m], m + 1, piv)
      BY <1>2, <3>1
    <3> QED BY <2>2, <3>2, JoinChosen
  <2> QED BY <2>1, <2>2
<1>5. 0 .. n \subseteq S
  <2> HIDE DEF S
  <2> QED BY <1>1, <1>4, Alt!Upwards
<1>6. n \in S
  BY <1>1, <1>5
<1> QED BY <1>1, <1>6 DEF run

\* Fractal pivots are pivots of the chart.
LEMMA FractalsAre ==
  ASSUME NEW c \in Seq(Candle), NEW s \in Nat
  PROVE  PivotsOf(FractalPivots(c, s), c)
<1> DEFINE piv == FractalPivots(c, s)
<1>1. Len(c) \in Nat
  OBVIOUS
<1>2. Listed(piv, Len(c), c, s)
  BY <1>1, PivotsListed
<1> HIDE DEF piv
<1>3. ASSUME NEW j \in 1 .. Len(piv)
      PROVE  /\ piv[j].isHigh \in BOOLEAN /\ piv[j].idx \in 1 .. Len(c)
             /\ piv[j].price = Reach(c, piv[j].isHigh, piv[j].idx)
             /\ piv[j].price \in Value
  <2> DEFINE i == piv[j].idx
  <2>1. i \in 1 .. Len(c) /\ piv[j] # None /\ piv[j] = PivotAt(c, s, i)
    BY <1>2 DEF Listed
  <2> HIDE DEF i
  <2>2. piv[j] = Pivot(TRUE, c[i].high, i, s) \/ piv[j] = Pivot(FALSE, c[i].low, i, s)
    BY <1>1, <2>1, PivotForm
  <2>3. c[i].high \in Value /\ c[i].low \in Value
    BY <2>1, BarValues
  <2>4. CASE piv[j] = Pivot(TRUE, c[i].high, i, s)
    BY <2>1, <2>3, <2>4 DEF Pivot, Reach
  <2>5. CASE piv[j] = Pivot(FALSE, c[i].low, i, s)
    BY <2>1, <2>3, <2>5 DEF Pivot, Reach
  <2> QED BY <2>2, <2>4, <2>5
<1>4. PivotsOf(piv, c)
  BY <1>2, <1>3 DEF Listed, PivotsOf
<1> QED BY <1>4 DEF piv

\* What is chosen of them alternates, moves forward and is never half a leg.
LEMMA AlternatingChosen ==
  ASSUME NEW c \in Seq(Candle), NEW piv, PivotsOf(piv, c)
  PROVE  ChosenOf(c, piv, AlternatingPivots(piv))
<1> DEFINE alt == AlternatingPivots(piv)
<1>1. CASE piv = <<>>
  <2>1. alt = <<>>
    BY <1>1 DEF AlternatingPivots
  <2> HIDE DEF alt
  <2>2. ChosenOf(c, piv, alt)
    BY <2>1 DEF ChosenOf
  <2> QED BY <2>2 DEF alt
<1>2. CASE piv # <<>>
  <2>1. Chosen(alt, Len(piv), piv, c)
    <3>1. Len(piv) \in Nat
      BY DEF PivotsOf
    <3>2. \A i \in 1 .. Len(c) : c[i].high \in Value /\ c[i].low \in Value
      BY BarValues
    <3> QED BY <1>2, <3>1, <3>2, AlternatingIs, AltChosen
  <2> HIDE DEF alt
  <2>2. DOMAIN alt = 1 .. Len(alt) /\ Len(alt) \in Nat /\ DOMAIN piv = 1 .. Len(piv)
    BY <2>1 DEF Chosen, PivotsOf
  <2> DEFINE Between(k) == {q \in DOMAIN piv : /\ piv[q].isHigh = alt[k].isHigh
                                               /\ k = 1 \/ piv[q].idx > alt[k - 1].idx
                                               /\ k = Len(alt) \/ piv[q].idx < alt[k + 1].idx}
  <2>3. ASSUME NEW k \in DOMAIN alt, NEW q \in Between(k)
        PROVE  ~Beaten(c, alt[k].isHigh, alt[k].price, piv[q].idx)
    <3>1. Rival(alt, k, piv[q])
      BY DEF Rival
    <3>2. k \in 1 .. Len(alt) /\ q \in 1 .. Len(piv)
      BY <2>2
    <3> HIDE DEF Between
    <3> QED BY <2>1, <3>1, <3>2 DEF Chosen
  <2>4. ASSUME NEW k \in DOMAIN alt, k > 1
        PROVE  alt[k].isHigh # alt[k - 1].isHigh /\ alt[k - 1].idx < alt[k].idx
    <3>1. k \in 2 .. Len(alt)
      BY <2>2, <2>4
    <3>2. ~(alt[k].isHigh <=> alt[k - 1].isHigh) /\ alt[k - 1].idx < alt[k].idx
      BY <2>1, <3>1 DEF Chosen
    <3> QED BY <3>2
  <2>5. ChosenOf(c, piv, alt)
    BY <2>3, <2>4, Zenon DEF ChosenOf
  <2> QED BY <2>5 DEF alt
<1> QED BY <1>1, <1>2

-----------------------------------------------------------------------------
(* The chart.                                                               *)

\* A chart is a sequence of bars.
IInv == study \in Studies /\ bars \in Seq(Candle)

\* Bars that open and ticks that move them leave a chart a chart.
LEMMA Invariance == Spec => []IInv
<1>1. Init => IInv
  BY BarsAssumption DEF Init, IInv
<1>2. ASSUME IInv, [Next]_vars PROVE IInv'
  <2>1. CASE NewBar
    BY <1>2, <2>1, BarsAssumption DEF NewBar, IInv
  <2>2. CASE Tick
    <3>1. PICK b \in Candle : bars' = [bars EXCEPT ![Len(bars)] = b]
      BY <1>2, <2>2, BarsAssumption DEF Tick, IInv
    <3> QED BY <1>2, <2>2, <3>1 DEF Tick, IInv
  <2>3. CASE UNCHANGED vars
    BY <1>2, <2>3 DEF vars, IInv
  <2> QED BY <1>2, <2>1, <2>2, <2>3 DEF Next
<1> QED BY <1>1, <1>2, PTL DEF Spec

\* The trend core never turns twice within max(wick, 2) bars (vlcore_engine, engines.rs), on
\* any chart and for any inputs.
THEOREM TrendTurnsApartHolds == Spec => TrendTurnsApart
<1> DEFINE Apart(c) ==
      study = "core" =>
        LET core == VlCoreEngine(c, o)
            turned == {i \in 2 .. Len(c) : core[i].dir # core[i - 1].dir}
        IN \A i, j \in turned : i < j => j - i > o.wick /\ j - i > 2
<1>1. ASSUME IInv, IInv' PROVE Apart(bars')
  <2> SUFFICES ASSUME study = "core" PROVE Apart(bars')
    OBVIOUS
  <2> DEFINE c == bars'
             core == VlCoreEngine(c, o)
             turned == {i \in 2 .. Len(c) : core[i].dir # core[i - 1].dir}
  <2>1. o.wick \in Nat /\ o.railW \in Nat
    BY <1>1, CoreAssumption DEF IInv, o
  <2>2. Len(c) \in Nat
    BY <1>1 DEF IInv
  <2> SUFFICES ASSUME NEW i \in turned, NEW j \in turned, i < j PROVE j - i > o.wick /\ j - i > 2
    OBVIOUS
  <2> HIDE DEF c
  <2>3. j - i > Pause(o)
    BY <2>1, <2>2, TurnsApart
  <2>4. i \in Int /\ j \in Int
    BY <2>2
  <2> HIDE DEF turned
  <2> QED BY <2>1, <2>3, <2>4 DEF Pause
<1>2. IInv /\ IInv' => [\A c \in {bars'} : Apart(c)]_vars
  BY <1>1
<1> QED BY <1>2, Invariance, PTL DEF TrendTurnsApart

\* The consensus of the overlays (ovl_consensus_dir, consensus_gate of indicators.rs) turns when
\* the votes of the last confirm bars ask for it and the close breaks the last confirmed swing,
\* and only then, on any chart and for any inputs.
THEOREM ConsensusFlipsOnBreakHolds == Spec => ConsensusFlipsOnBreak
<1> DEFINE votes(c) == LET v == OvlVoters(c, o)
                       IN Votes(Series(LAMBDA k : OvlLineDir(v[k], Len(c)), Len(v)), Len(c))
           Flips2(c) ==
             study = "votes" =>
               FlipsOnBreak(c, votes(c), OvlConsensusDir(c, o, o.minAgree, o.confirm, o.strength), o)
<1>1. ASSUME IInv, IInv' PROVE Flips2(bars')
  <2> SUFFICES ASSUME study = "votes" PROVE Flips2(bars')
    OBVIOUS
  <2> DEFINE c == bars'
  <2>1. o.minAgree \in Int /\ o.confirm \in Nat /\ o.strength \in Nat
    BY <1>1, VotesAssumption DEF IInv, o
  <2>2. c \in Seq(Candle)
    BY <1>1 DEF IInv
  <2> HIDE DEF c
  <2>3. \A i \in 1 .. Len(c) : votes(c)[i] \in Int
    BY <2>2, OvlVotesInt
  <2>4. OvlConsensusDir(c, o, o.minAgree, o.confirm, o.strength)
          = ConsensusGate(c, votes(c), o.minAgree, o.confirm, o.strength)
    BY Zenon DEF OvlConsensusDir
  <2> HIDE DEF votes, o
  <2>5. FlipsOnBreak(c, votes(c), ConsensusGate(c, votes(c), o.minAgree, o.confirm, o.strength), o)
    BY <2>1, <2>2, <2>3, GateFlipsOnBreak
  <2> QED BY <2>4, <2>5 DEF c
<1>2. IInv /\ IInv' => [\A c \in {bars'} : Flips2(c)]_vars
  BY <1>1
<1> QED BY <1>2, Invariance, PTL DEF ConsensusFlipsOnBreak

\* The zigzags of a chart (atr_zigzag and ew_analyze of engines.rs, alternating_pivots of
\* indicators.rs) go from one extreme to the next, on any chart and for any inputs.
THEOREM LegsAreExtremesHolds == Spec => LegsAreExtremes
<1> DEFINE Whole(c) ==
      study = "turns" =>
        /\ LegsOf(c, ZigZag(c, o.period, o.mult, o.pct))
        /\ \A piv \in {FractalPivots(c, o.strength)} : ChosenOf(c, piv, AlternatingPivots(piv))
<1>1. ASSUME IInv, IInv' PROVE Whole(bars')
  <2> SUFFICES ASSUME study = "turns" PROVE Whole(bars')
    OBVIOUS
  <2> DEFINE c == bars'
  <2>1. o.strength \in Nat
    BY <1>1, TurnsAssumption DEF IInv, o
  <2>2. c \in Seq(Candle)
    BY <1>1 DEF IInv
  <2> HIDE DEF c
  <2>3. LegsOf(c, ZigZag(c, o.period, o.mult, o.pct))
    BY <2>2, ZigLegs
  <2>4. ChosenOf(c, FractalPivots(c, o.strength), AlternatingPivots(FractalPivots(c, o.strength)))
    BY <2>1, <2>2, FractalsAre, AlternatingChosen
  <2> QED BY <2>3, <2>4 DEF c
<1>2. IInv /\ IInv' => [\A c \in {bars'} : Whole(c)]_vars
  BY <1>1
<1> QED BY <1>2, Invariance, PTL DEF LegsAreExtremes
=============================================================================
