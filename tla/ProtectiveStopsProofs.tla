----------------------- MODULE ProtectiveStopsProofs -----------------------
(* Proofs about ProtectiveStops, for every set of prices and of settings.   *)
EXTENDS ProtectiveStops, TLAPS

USE PricesAssumption, SettingsAssumption

-----------------------------------------------------------------------------
(* Rounding.                                                               *)

\* round2 rounds to whole paise.
LEMMA RoundType == \A x \in Int : Round2(x) \in Int
BY DEF Round2

\* What is whole paise already it leaves alone.
LEMMA RoundLevel == \A p \in Int : Round2(Level(p)) = Level(p)
BY DEF Round2, Level

\* Twice is once.
LEMMA RoundTwice == \A x \in Int : Round2(Round2(x)) = Round2(x)
BY DEF Round2

\* It keeps the order.
LEMMA RoundKeepsOrder == \A x, y \in Int : x <= y => Round2(x) <= Round2(y)
BY DEF Round2

\* A level as tight as one in whole paise is so after rounding.
LEMMA RoundKeepsGain ==
  ASSUME NEW buy \in BOOLEAN, NEW x \in Int, NEW y \in Int,
         Round2(x) = x, Gain(buy, x, y) >= 0
  PROVE  Gain(buy, x, Round2(y)) >= 0
<1>1. Round2(x) \in Int /\ Round2(y) \in Int
  BY RoundType
<1>2. CASE buy
  BY <1>1, <1>2, RoundKeepsOrder DEF Gain
<1>3. CASE ~buy
  BY <1>1, <1>3, RoundKeepsOrder DEF Gain
<1> QED BY <1>2, <1>3

\* A price beyond a rounded level is at or beyond the level.
LEMMA RoundedReached ==
  ASSUME NEW buy \in BOOLEAN, NEW p \in Int, NEW y \in Int,
         Gain(buy, Round2(y), Level(p)) < 0
  PROVE  Reached(buy, p, y)
<1>1. Level(p) \in Int /\ Round2(y) \in Int /\ Round2(Level(p)) = Level(p)
  BY RoundType, RoundLevel DEF Level
<1>2. CASE buy
  BY <1>1, <1>2, RoundKeepsOrder DEF Gain, Reached
<1>3. CASE ~buy
  BY <1>1, <1>3, RoundKeepsOrder DEF Gain, Reached
<1> QED BY <1>2, <1>3

-----------------------------------------------------------------------------
(* The stop in force.                                                      *)

\* Profits multiply like other numbers.
LEMMA ScaledProfit ==
  ASSUME NEW p \in Nat, NEW q \in Nat, NEW pct \in 0..100, p <= q
  PROVE  /\ p * (100 - pct) \in Nat /\ q * (100 - pct) \in Nat
         /\ p * (100 - pct) <= q * (100 - pct)
<1>1. PICK c \in Nat : c = 100 - pct
  OBVIOUS
<1>2. PICK d \in Nat : q = p + d
  <2>1. q - p \in Nat /\ q = p + (q - p)
    OBVIOUS
  <2> QED BY <2>1
<1>3. p * c \in Nat /\ d * c \in Nat /\ q * c = p * c + d * c
  BY <1>2, Z3
<1> QED BY <1>1, <1>3

\* The levels are numbers.
LEMMA TrailTypes ==
  ASSUME NEW l \in Position, NEW peak \in Nat
  PROVE  Trails(l, peak) \in SUBSET Int /\ OverallSl(l) \in Int
<1>1. l.entry \in Nat /\ l.pointTrail \in Nat /\ l.trail \in 0..100 /\ l.sl \in Int /\ l.overallSl \in Nat
  BY DEF Position
<1>2. peak * (100 - l.trail) \in Int
  BY <1>1, ScaledProfit
<1>3. ProfitTrailStop(l.buy, l.entry, peak, l.trail) \in Int
  BY <1>1, <1>2 DEF ProfitTrailStop, AtProfit, Level
<1>4. PointTrailStop(l.buy, l.entry, peak, l.pointTrail) \in Int
  BY <1>1 DEF PointTrailStop, AtProfit, Level, Larger
<1> QED BY <1>1, <1>3, <1>4 DEF Trails, OverallSl

\* The stop is the tightest of the overall stop and the armed trails.
LEMMA StopChoice ==
  ASSUME NEW l \in Position, NEW peak \in Nat
  PROVE  /\ Stop(l, peak) \in Int
         /\ Trailed(l, peak) => Stop(l, peak) \in Trails(l, peak)
         /\ ~Trailed(l, peak) => Stop(l, peak) = OverallSl(l)
         /\ OverallSl(l) > 0 =>
              \A t \in Trails(l, peak) \cup {OverallSl(l)} : Gain(l.buy, t, Stop(l, peak)) >= 0
<1> DEFINE better == {s \in Trails(l, peak) : MoreFavourable(l.buy, s, OverallSl(l))}
<1>1. Trails(l, peak) \in SUBSET Int /\ OverallSl(l) \in Int /\ l.buy \in BOOLEAN
  BY TrailTypes DEF Position
<1>2. Trailed(l, peak) <=> better # {}
  BY DEF Trailed
<1>3. CASE better = {}
  <2>1. Stop(l, peak) = OverallSl(l)
    BY <1>3 DEF Stop
  <2> QED BY <1>1, <1>2, <1>3, <2>1 DEF MoreFavourable, Gain
<1>4. CASE better # {}
  <2>1. \E a, b : Trails(l, peak) \subseteq {a, b}
    BY DEF Trails
  <2>2. \E s \in better : \A o \in better : ~(Gain(l.buy, s, o) > 0)
    <3>1. PICK x \in better : TRUE
      BY <1>4
    <3>2. CASE \A o \in better : ~(Gain(l.buy, x, o) > 0)
      BY <3>2
    <3>3. CASE \E o \in better : Gain(l.buy, x, o) > 0
      <4>1. PICK y \in better : Gain(l.buy, x, y) > 0
        BY <3>3
      <4>2. x \in Int /\ y \in Int
        BY <1>1
      <4>3. x # y
        BY <4>1, <4>2 DEF Gain
      <4>4. \A o \in better : o = x \/ o = y
        BY <2>1, <4>3
      <4> QED BY <1>1, <4>1, <4>2, <4>4 DEF Gain
    <3> QED BY <3>2, <3>3
  <2>3. Stop(l, peak) = CHOOSE s \in better : \A o \in better : ~(Gain(l.buy, s, o) > 0)
    BY <1>4, Zenon DEF Stop
  <2>4. Stop(l, peak) \in better /\ \A o \in better : ~(Gain(l.buy, Stop(l, peak), o) > 0)
    BY <2>2, <2>3, Zenon
  <2>5. ASSUME OverallSl(l) > 0, NEW t \in Trails(l, peak) \cup {OverallSl(l)}
        PROVE  Gain(l.buy, t, Stop(l, peak)) >= 0
    <3>1. CASE t \in better
      BY <1>1, <2>4, <3>1 DEF Gain
    <3>2. CASE t \notin better
      BY <1>1, <2>4, <2>5, <3>2 DEF Gain, MoreFavourable
    <3> QED BY <3>1, <3>2
  <2> QED BY <1>1, <1>2, <1>4, <2>4, <2>5
<1> QED BY <1>3, <1>4

\* As the peak grows, the stop passes every level it had to choose from before.
LEMMA StopTightens ==
  ASSUME NEW l \in Position, NEW p \in Nat, NEW q \in Nat, p <= q, OverallSl(l) > 0,
         NEW s \in Trails(l, p) \cup {OverallSl(l)}
  PROVE  Gain(l.buy, s, Stop(l, q)) >= 0
<1>1. /\ l.entry \in Nat /\ l.pointTrail \in Nat /\ l.trail \in 0..100 /\ l.buy \in BOOLEAN
      /\ Trails(l, p) \in SUBSET Int /\ Trails(l, q) \in SUBSET Int /\ OverallSl(l) \in Int
      /\ s \in Int /\ Stop(l, q) \in Int
  BY TrailTypes, StopChoice DEF Position
<1>2. \A t \in Trails(l, q) \cup {OverallSl(l)} : Gain(l.buy, t, Stop(l, q)) >= 0
  BY StopChoice
<1>3. CASE s = OverallSl(l)
  BY <1>2, <1>3
<1>4. CASE l.trail > 0 /\ p > 0 /\ s = ProfitTrailStop(l.buy, l.entry, p, l.trail)
  <2> DEFINE t == ProfitTrailStop(l.buy, l.entry, q, l.trail)
  <2>1. t \in Trails(l, q)
    BY <1>4 DEF Trails
  <2>2. Gain(l.buy, s, t) >= 0
    BY <1>1, <1>4, ScaledProfit, SMTT(40) DEF ProfitTrailStop, AtProfit, Gain, Level
  <2>3. t \in Int /\ Gain(l.buy, t, Stop(l, q)) >= 0
    BY <1>1, <1>2, <2>1
  <2> QED BY <1>1, <2>2, <2>3 DEF Gain
<1>5. CASE /\ paper /\ l.pointTrail > 0 /\ p > 0
           /\ s = PointTrailStop(l.buy, l.entry, p, l.pointTrail)
  <2> DEFINE t == PointTrailStop(l.buy, l.entry, q, l.pointTrail)
  <2>1. t \in Trails(l, q)
    BY <1>5 DEF Trails
  <2>2. Gain(l.buy, s, t) >= 0
    BY <1>1, <1>5 DEF PointTrailStop, AtProfit, Gain, Level, Larger
  <2>3. t \in Int /\ Gain(l.buy, t, Stop(l, q)) >= 0
    BY <1>1, <1>2, <2>1
  <2> QED BY <1>1, <2>2, <2>3 DEF Gain
<1> QED BY <1>3, <1>4, <1>5 DEF Trails

-----------------------------------------------------------------------------
(* The invariant.                                                          *)

\* The stops of a position: stored in whole paise, never looser than the overall
\* stop and, on paper, one of the levels the peak so far allows or, with percent trails
\* alone, one that keeps a profit.
StopOK(p) ==
    /\ Round2(p.sl) = p.sl /\ Round2(p.overallSl) = p.overallSl
    /\ p.overallSl > 0 => Gain(p.buy, p.overallSl, p.sl) >= 0
    /\ paper /\ p.overallSl > 0 => \E t \in Trails(p, p.peak) \cup {p.overallSl} : p.sl = Round2(t)
    /\ paper /\ p.overallSl = 0 /\ p.pointTrail = 0 /\ p.sl > 0 =>
         Gain(p.buy, Level(p.entry), p.sl) >= 0

\* The guardian holds the position itself, or one of the same terms: only a fill
\* comes between.
LookOK ==
    look # None /\ pos # None =>
        /\ look.p.buy = pos.buy /\ look.p.overallSl = pos.overallSl
        /\ paper => look.p = pos

\* A stop exit that is due for a position with percent trails alone keeps a profit.
KeepsProfit(p, due) ==
    due.reason \in {"TRAIL_SL", "STOP_LOSS"} /\ p.overallSl = 0 /\ p.pointTrail = 0 =>
        Gain(p.buy, Level(p.entry), due.level) >= 0

StopsInv ==
    /\ TypeOK
    /\ pos # None => StopOK(pos)
    /\ LookOK
    /\ paper /\ pos # None /\ pending # None => KeepsProfit(pos, pending)

-----------------------------------------------------------------------------
(* One pass of the guardian.                                               *)

\* The peak never falls.
LEMMA PeakGrows ==
  ASSUME NEW l \in Position, NEW price \in Prices
  PROVE  PeakProfit(l, price) \in Nat /\ l.peak <= PeakProfit(l, price)
BY DEF PeakProfit, Larger, Gain, Position

\* A stop exit has the stop it names, and no exit means that no stop is reached.
LEMMA ReasonCases ==
  ASSUME NEW l \in Position, NEW price \in Prices
  PROVE  LET peak == PeakProfit(l, price)
             reason == Reason(l, price) IN
         /\ reason \in {"TARGET", "TRAIL_TP", "TRAIL_SL", "STOP_LOSS", "none"}
         /\ reason = "TRAIL_SL" => Trailed(l, peak)
         /\ reason = "STOP_LOSS" => OverallSl(l) > 0
         /\ reason = "none" =>
              /\ ~(Trailed(l, peak) /\ Reached(l.buy, price, Stop(l, peak)))
              /\ ~(OverallSl(l) > 0 /\ Reached(l.buy, price, OverallSl(l)))
BY DEF Reason

\* What a stop exit on paper is booked at.
LEMMA ExitLevels ==
  ASSUME NEW l \in Position, NEW price \in Prices, NEW reason
  PROVE  /\ ExitLevel(l, price, reason) \in Int
         /\ paper /\ reason = "TRAIL_SL" => ExitLevel(l, price, reason) = Stop(l, PeakProfit(l, price))
         /\ paper /\ reason = "STOP_LOSS" => ExitLevel(l, price, reason) = OverallSl(l)
<1> DEFINE peak == PeakProfit(l, price)
<1>1. peak \in Nat /\ Stop(l, peak) \in Int /\ OverallSl(l) \in Int
  BY PeakGrows, StopChoice, TrailTypes
<1>2. l.trailTp \in 0..100 /\ l.entry \in Nat
  BY DEF Position
<1>3. Kept(l, peak) \in Int
  BY <1>1, <1>2, ScaledProfit DEF Kept
<1>4. AtProfit(l.buy, l.entry, Kept(l, peak)) \in Int
  BY <1>2, <1>3 DEF AtProfit, Level
<1> HIDE DEF peak
<1>5. Level(price) \in Int
  BY DEF Level
<1> QED BY <1>1, <1>4, <1>5 DEF ExitLevel, peak

\* The exit a pass finds due is well typed.
LEMMA DueType ==
  ASSUME NEW l \in Position, NEW price \in Prices, Reason(l, price) # "none"
  PROVE  [reason |-> Reason(l, price), level |-> ExitLevel(l, price, Reason(l, price))] \in Due
<1>1. Reason(l, price) \in {"TARGET", "TRAIL_TP", "TRAIL_SL", "STOP_LOSS"}
  BY ReasonCases
<1> QED BY <1>1, ExitLevels DEF Due, Reasons

\* What is booked for an exit that is due: its reason, and a price that is worse than
\* its level by no more than the slippage.
LEMMA BookedExit ==
  ASSUME NEW buy \in BOOLEAN, NEW due \in Due, NEW out \in Booked(buy, due), paper \in BOOLEAN
  PROVE  /\ out \in Exit /\ out.reason = due.reason
         /\ Gain(buy, due.level, out.price) >= -Level(out.slip)
<1>1. PICK slip \in IF paper THEN Slips ELSE {0} :
        out = [reason |-> due.reason, slip |-> slip,
               price |-> IF paper THEN Slipped(~buy, due.level, Level(slip), Level(5)) ELSE due.level]
  BY Zenon DEF Booked
<1>2. slip \in Nat /\ due.level \in Int /\ due.reason \in Reasons
  BY DEF Due
<1>3. Level(slip) \in Nat /\ Level(5) \in Nat
  BY <1>2 DEF Level
<1>4. out.reason = due.reason /\ out.slip = slip
  BY <1>1
<1>5. CASE ~paper
  <2>1. out.price = due.level
    BY <1>1, <1>5
  <2> QED BY <1>1, <1>2, <1>3, <1>4, <2>1, <1>5 DEF Exit, Gain
<1>6. CASE paper
  <2>1. out.price = Slipped(~buy, due.level, Level(slip), Level(5))
    BY <1>1, <1>6
  <2>2. out.price \in Int
    BY <1>2, <1>3, <2>1 DEF Slipped, Larger
  <2>3. Gain(buy, due.level, out.price) >= -Level(slip)
    BY <1>2, <1>3, <2>1 DEF Slipped, Larger, Gain
  <2>4. out \in Exit
    BY <1>1, <1>2, <1>6, <2>1, <2>2 DEF Exit
  <2> QED BY <1>4, <2>3, <2>4
<1> QED BY <1>5, <1>6

\* A percent trail keeps a profit.
LEMMA TrailGains ==
  ASSUME NEW l \in Position, NEW peak \in Nat, Trailed(l, peak), l.pointTrail = 0
  PROVE  Gain(l.buy, Level(l.entry), Stop(l, peak)) >= 0
<1>1. l.entry \in Nat /\ l.trail \in 0..100
  BY DEF Position
<1>2. Stop(l, peak) = ProfitTrailStop(l.buy, l.entry, peak, l.trail)
  BY StopChoice DEF Trails
<1>3. peak * (100 - l.trail) \in Nat
  BY <1>1, ScaledProfit
<1> QED BY <1>1, <1>2, <1>3 DEF ProfitTrailStop, AtProfit, Gain, Level

\* A stop exit due on paper with percent trails alone keeps a profit.
LEMMA StopExitGains ==
  ASSUME NEW l \in Position, NEW price \in Prices, paper, StopOK(l)
  PROVE  KeepsProfit(l, [reason |-> Reason(l, price),
                         level |-> ExitLevel(l, price, Reason(l, price))])
<1> DEFINE reason == Reason(l, price)
           level == ExitLevel(l, price, reason)
<1>1. SUFFICES ASSUME reason \in {"TRAIL_SL", "STOP_LOSS"}, l.overallSl = 0, l.pointTrail = 0
               PROVE  Gain(l.buy, Level(l.entry), level) >= 0
  BY DEF KeepsProfit
<1>2. CASE reason = "TRAIL_SL"
  BY <1>1, <1>2, ReasonCases, ExitLevels, TrailGains, PeakGrows
<1>3. CASE reason = "STOP_LOSS"
  BY <1>1, <1>3, ReasonCases, ExitLevels DEF StopOK, OverallSl
<1> QED BY <1>1, <1>2, <1>3

\* The stop a pass stores keeps StopOK.  On the real engine the entry, and so the
\* stop computed, may be older than the position's.
LEMMA StoredStop ==
  ASSUME NEW l \in Position, NEW p \in Position, NEW price \in Prices,
         StopOK(p), l.buy = p.buy, l.overallSl = p.overallSl, paper => l = p
  PROVE  LET peak == PeakProfit(l, price) IN
         StopOK([p EXCEPT !.sl = Round2(Stop(l, peak)), !.peak = peak])
<1> DEFINE peak == PeakProfit(l, price)
           stop == Stop(l, peak)
           q == [p EXCEPT !.sl = Round2(stop), !.peak = peak]
<1>1. /\ peak \in Nat /\ stop \in Int /\ Round2(stop) \in Int
      /\ Round2(Round2(stop)) = Round2(stop)
  BY PeakGrows, StopChoice, RoundType, RoundTwice
<1>2. /\ q.sl = Round2(stop) /\ q.peak = peak /\ q.buy = p.buy /\ q.entry = p.entry
      /\ q.overallSl = p.overallSl /\ q.trail = p.trail /\ q.pointTrail = p.pointTrail
      /\ p.buy \in BOOLEAN /\ p.overallSl \in Nat /\ p.sl \in Int /\ p.entry \in Nat
  BY DEF Position
<1> HIDE DEF peak, stop, q
<1>3. p.overallSl > 0 => Gain(p.buy, p.overallSl, Round2(stop)) >= 0
  <2> SUFFICES ASSUME p.overallSl > 0 PROVE Gain(p.buy, p.overallSl, Round2(stop)) >= 0
    OBVIOUS
  <2>1. OverallSl(l) = p.overallSl
    BY DEF OverallSl
  <2>2. Gain(p.buy, p.overallSl, stop) >= 0
    BY <1>1, <2>1, StopChoice DEF stop
  <2> QED BY <1>1, <1>2, <2>2, RoundKeepsGain DEF StopOK
<1>4. paper /\ p.overallSl > 0 =>
        \E t \in Trails(q, q.peak) \cup {q.overallSl} : Round2(stop) = Round2(t)
  <2> SUFFICES ASSUME paper, p.overallSl > 0 PROVE stop \in Trails(q, q.peak) \cup {q.overallSl}
    OBVIOUS
  <2>1. OverallSl(l) = q.overallSl /\ Trails(q, peak) = Trails(l, peak)
    BY <1>2 DEF OverallSl, Trails
  <2>2. stop \in Trails(l, peak) \cup {OverallSl(l)}
    BY <1>1, StopChoice DEF stop
  <2> QED BY <1>2, <2>1, <2>2
<1>5. ASSUME paper, p.overallSl = 0, p.pointTrail = 0, Round2(stop) > 0
      PROVE  Gain(p.buy, Level(p.entry), Round2(stop)) >= 0
  <2>1. l = p
    BY <1>5
  <2>2. Level(p.entry) \in Int /\ Round2(Level(p.entry)) = Level(p.entry)
    BY <1>2, RoundLevel DEF Level
  <2>3. CASE Trailed(p, peak)
    BY <1>1, <1>2, <1>5, <2>1, <2>2, <2>3, TrailGains, RoundKeepsGain DEF stop
  <2>4. CASE ~Trailed(p, peak)
    BY <1>1, <1>2, <1>5, <2>1, <2>4, StopChoice DEF stop, StopOK, OverallSl
  <2> QED BY <2>3, <2>4
<1>6. StopOK(q)
  BY <1>1, <1>2, <1>3, <1>4, <1>5 DEF StopOK
<1> QED BY <1>6 DEF q, stop, peak

-----------------------------------------------------------------------------
(* The invariant is inductive.                                             *)

\* A pass updates or closes the position.
LEMMA ManageCases ==
  ASSUME StopsInv, Manage
  PROVE  LET peak == PeakProfit(look.p, look.price)
             reason == Reason(look.p, look.price)
             due == [reason |-> reason, level |-> ExitLevel(look.p, look.price, reason)] IN
         /\ look # None /\ look.p \in Position /\ look.price \in Prices
         /\ look' = None /\ UNCHANGED <<paper, ltp>>
         /\ \/ /\ pos' = IF pos = None THEN None
                         ELSE [pos EXCEPT !.sl = Round2(Stop(look.p, peak)), !.peak = peak]
               /\ exit' = exit
               /\ \/ reason = "none" /\ pending' = pending
                  \/ /\ reason # "none" /\ (paper \/ pos = None)
                     /\ pending' = IF paper /\ pending = None THEN due ELSE pending
            \/ /\ reason # "none" /\ pos # None
               /\ pos' = None /\ exit' \in Booked(pos.buy, due) /\ pending' = pending
BY Zenon DEF Manage, StopsInv, TypeOK

\* A position that a pass updates is a position.
LEMMA PassKeepsPosition ==
  ASSUME StopsInv, pos # None, NEW stop \in Int, NEW peak \in Nat
  PROVE  [pos EXCEPT !.sl = stop, !.peak = peak] \in Position
BY DEF StopsInv, TypeOK, Position

\* The types after a pass.
LEMMA ManageType ==
  ASSUME StopsInv, Manage
  PROVE  TypeOK'
<1> DEFINE peak == PeakProfit(look.p, look.price)
           reason == Reason(look.p, look.price)
           due == [reason |-> reason, level |-> ExitLevel(look.p, look.price, reason)]
<1>1. look # None /\ look.p \in Position /\ look.price \in Prices
  BY ManageCases
<1>2. peak \in Nat /\ Round2(Stop(look.p, peak)) \in Int
  BY <1>1, PeakGrows, StopChoice, RoundType
<1>3. pos # None => [pos EXCEPT !.sl = Round2(Stop(look.p, peak)), !.peak = peak] \in Position
  BY <1>2, PassKeepsPosition
<1>4. reason # "none" => due \in Due
  BY <1>1, DueType
<1> HIDE DEF peak, reason, due
<1>5. reason # "none" /\ pos # None => Booked(pos.buy, due) \subseteq Exit
  BY <1>4, BookedExit DEF StopsInv, TypeOK, Position
<1>6. exit' = exit \/ (reason # "none" /\ pos # None /\ exit' \in Booked(pos.buy, due))
  BY ManageCases, Zenon DEF peak, reason, due
<1>7. pending' = pending \/ (reason # "none" /\ pending' = due)
  BY ManageCases, Zenon DEF peak, reason, due
<1>8. pos' \in Position \cup {None}
  BY <1>3, ManageCases DEF peak, StopsInv, TypeOK
<1> QED BY <1>4, <1>5, <1>6, <1>7, <1>8, ManageCases DEF StopsInv, TypeOK

\* A pass keeps the invariant.
LEMMA ManageStep ==
  ASSUME StopsInv, Manage
  PROVE  StopsInv'
<1> DEFINE peak == PeakProfit(look.p, look.price)
           reason == Reason(look.p, look.price)
           due == [reason |-> reason, level |-> ExitLevel(look.p, look.price, reason)]
           q == [pos EXCEPT !.sl = Round2(Stop(look.p, peak)), !.peak = peak]
<1>1. look # None /\ look.p \in Position /\ look.price \in Prices /\ look' = None /\ paper' = paper
  BY ManageCases
<1>2. pos # None => StopOK(q)
  BY <1>1, StoredStop DEF StopsInv, TypeOK, LookOK
<1>3. pos' # None => pos # None /\ pos' = q
  BY ManageCases
<1>4. pos # None => /\ q.buy = pos.buy /\ q.entry = pos.entry
                    /\ q.overallSl = pos.overallSl /\ q.pointTrail = pos.pointTrail
  BY DEF StopsInv, TypeOK, Position
<1>5. paper /\ pos # None /\ StopOK(pos) => KeepsProfit(pos, due)
  BY <1>1, StopExitGains DEF StopsInv, LookOK
<1>6. pos' # None /\ pending' # None => pending' = pending \/ pending' = due
  BY ManageCases, Zenon
<1> HIDE DEF peak, reason, due, q
<1>7. paper' /\ pos' # None /\ pending' # None => KeepsProfit(pos', pending')
  <2> SUFFICES ASSUME paper, pos' # None, pending' # None PROVE KeepsProfit(pos', pending')
    BY <1>1
  <2>1. KeepsProfit(pos, pending')
    BY <1>3, <1>5, <1>6 DEF StopsInv
  <2> QED BY <1>3, <1>4, <2>1 DEF KeepsProfit
<1>8. (pos # None => StopOK(pos))'
  BY <1>1, <1>2, <1>3 DEF StopOK, Trails
<1> QED BY <1>1, <1>7, <1>8, ManageType DEF StopsInv, LookOK, KeepsProfit

\* Every step keeps the invariant.
LEMMA StopsStep ==
  ASSUME StopsInv, [Next]_vars
  PROVE  StopsInv'
<1> USE DEF StopsInv, LookOK, KeepsProfit
<1>1. CASE Open
  <2>1. PICK buy \in BOOLEAN, sl, tp \in Levels \cup {0},
             trail, trailTp \in Percents, points \in Jumps, slip \in Slips :
          pos' = [buy |-> buy, entry |-> Fill(buy, slip), overallSl |-> sl, tp |-> tp,
                  trail |-> trail, pointTrail |-> points, trailTp |-> trailTp, sl |-> sl, peak |-> 0]
    BY <1>1 DEF Open
  <2>2. sl \in Nat /\ tp \in Nat /\ Round2(sl) = sl
    <3>1. \A p \in Prices : Level(p) \in Nat /\ Round2(Level(p)) = Level(p)
      BY RoundLevel DEF Level
    <3>2. Round2(0) = 0
      BY DEF Round2
    <3> QED BY <3>1, <3>2 DEF Levels
  <2>3. ltp \in Nat /\ slip \in Nat
    BY DEF TypeOK
  <2>4. Fill(buy, slip) \in Nat
    BY <2>3 DEF Fill, Slipped, Larger
  <2>5. pos' \in Position
    BY <2>1, <2>2, <2>4 DEF Position
  <2>6. pos'.sl = sl /\ pos'.overallSl = sl /\ pos'.buy = buy
    BY <2>1
  <2>7. (pos # None => StopOK(pos))'
    BY <2>2, <2>6 DEF StopOK, Gain
  <2> QED BY <1>1, <2>5, <2>7 DEF Open, TypeOK
<1>2. CASE Tick
  BY <1>2 DEF Tick, TypeOK, StopOK, Trails
<1>3. CASE Reconcile
  <2>1. PICK price \in Prices : pos' = [pos EXCEPT !.entry = price]
    BY <1>3 DEF Reconcile
  <2>2. pos \in Position /\ price \in Nat /\ ~paper /\ ~paper'
    BY <1>3 DEF Reconcile, TypeOK
  <2>3. pos' \in Position
    BY <2>1, <2>2 DEF Position
  <2>4. pos'.sl = pos.sl /\ pos'.overallSl = pos.overallSl /\ pos'.buy = pos.buy
    BY <2>1, <2>2 DEF Position
  <2>5. (pos # None => StopOK(pos))'
    BY <1>3, <2>2, <2>4 DEF StopOK, Reconcile
  <2> QED BY <1>3, <2>2, <2>3, <2>4, <2>5 DEF Reconcile, TypeOK
<1>4. CASE Look
  BY <1>4 DEF Look, TypeOK, StopOK, Trails
<1>5. CASE Manage
  BY <1>5, ManageStep
<1>6. CASE BookDelayed
  <2>1. pos # None => exit' \in Booked(pos.buy, pending) /\ pending \in Due
    BY <1>6 DEF BookDelayed, TypeOK
  <2>2. pos # None => exit' \in Exit
    BY <2>1, BookedExit DEF TypeOK, Position
  <2> QED BY <1>6, <2>2 DEF BookDelayed, TypeOK, StopOK, Trails
<1>7. CASE SquareOff
  <2> DEFINE due == [reason |-> "SQUARE_OFF", level |-> Level(ltp)]
  <2>1. pos # None /\ exit' \in Booked(pos.buy, due)
    BY <1>7 DEF SquareOff
  <2>2. due \in Due
    BY DEF Due, Reasons, Level, TypeOK
  <2> HIDE DEF due
  <2>3. exit' \in Exit
    BY <2>1, <2>2, BookedExit DEF TypeOK, Position
  <2> QED BY <1>7, <2>3 DEF SquareOff, TypeOK
<1>8. CASE UNCHANGED vars
  BY <1>8 DEF vars, TypeOK, StopOK, Trails
<1> QED BY <1>1, <1>2, <1>3, <1>4, <1>5, <1>6, <1>7, <1>8 DEF Next

\* The invariant holds in every state.
THEOREM StopsInvariant == Spec => []StopsInv
<1>1. Init => StopsInv
  BY DEF Init, StopsInv, TypeOK, LookOK
<1> QED BY <1>1, StopsStep, PTL DEF Spec

-----------------------------------------------------------------------------
(* The properties.                                                         *)

\* The position, the guardian's copy of it and the exits keep their types
\* (realtime.rs, manage_positions).
THEOREM StopTypes == Spec => []TypeOK
<1>1. StopsInv => TypeOK BY DEF StopsInv
<1> QED BY <1>1, StopsInvariant, PTL

\* No trail and no late fill ever leaves the stored stop looser than the overall stop.
THEOREM StopAboveFloorHolds == Spec => []StopAboveFloor
<1>1. StopsInv => StopAboveFloor BY DEF StopsInv, StopOK, StopAboveFloor
<1> QED BY <1>1, StopsInvariant, PTL

\* What a pass of the guardian on paper does to a position that stays open.
LEMMA PaperPass ==
  ASSUME StopsInv, [Next]_vars, paper, Managed
  PROVE  /\ Manage /\ look.p = pos /\ pos \in Position /\ look.price \in Prices
         /\ pos'.sl = Round2(Stop(pos, PeakProfit(pos, look.price)))
<1>1. Manage
  BY DEF Managed, Next, vars, Open, Tick, Reconcile, Look, BookDelayed, SquareOff
<1>2. look.p = pos /\ pos \in Position /\ look.price \in Prices
  BY DEF Managed, StopsInv, TypeOK, LookOK
<1>3. pos' = [pos EXCEPT !.sl = Round2(Stop(look.p, PeakProfit(look.p, look.price))),
                         !.peak = PeakProfit(look.p, look.price)]
  BY <1>1, ManageCases, Zenon DEF Managed
<1> QED BY <1>1, <1>2, <1>3 DEF Position

\* A pass on paper leaves the stop where it is or tightens it.
LEMMA Ratchet ==
  ASSUME NEW p \in Position, NEW price \in Prices, paper, StopOK(p), p.sl > 0
  PROVE  Gain(p.buy, p.sl, Round2(Stop(p, PeakProfit(p, price)))) >= 0
<1> DEFINE peak == PeakProfit(p, price)
<1>1. /\ peak \in Nat /\ p.peak \in Nat /\ p.peak <= peak /\ p.buy \in BOOLEAN /\ p.sl \in Int
      /\ p.overallSl \in Nat /\ Stop(p, peak) \in Int /\ Round2(p.sl) = p.sl
  BY PeakGrows, StopChoice DEF Position, StopOK
<1> SUFFICES Gain(p.buy, p.sl, Round2(Stop(p, peak))) >= 0
  OBVIOUS
<1> HIDE DEF peak
<1>2. CASE p.overallSl > 0
  <2>1. OverallSl(p) = p.overallSl
    BY <1>2 DEF OverallSl
  <2>2. PICK t \in Trails(p, p.peak) \cup {p.overallSl} : p.sl = Round2(t)
    BY <1>2 DEF StopOK
  <2>3. t \in Int /\ Gain(p.buy, t, Stop(p, peak)) >= 0
    BY <1>1, <1>2, <2>1, StopTightens, TrailTypes
  <2>4. Round2(Stop(p, peak)) \in Int /\ Round2(t) \in Int
    BY <1>1, <2>3, RoundType
  <2>5. CASE p.buy
    BY <1>1, <2>2, <2>3, <2>4, <2>5, RoundKeepsOrder DEF Gain
  <2>6. CASE ~p.buy
    BY <1>1, <2>2, <2>3, <2>4, <2>6, RoundKeepsOrder DEF Gain
  <2> QED BY <2>5, <2>6
<1>3. CASE p.overallSl = 0
  <2>1. OverallSl(p) = p.sl
    BY <1>3 DEF OverallSl
  <2>2. Gain(p.buy, p.sl, Stop(p, peak)) >= 0
    BY <1>1, <2>1, StopChoice
  <2> QED BY <1>1, <2>2, RoundKeepsGain
<1> QED BY <1>1, <1>2, <1>3

\* On paper the stored stop only moves in favour of the position.
THEOREM StopRatchetsHolds == Spec => StopRatchets
<1>1. ASSUME StopsInv, [Next]_vars, paper, Managed, pos.sl > 0
      PROVE  Gain(pos.buy, pos.sl, pos'.sl) >= 0
  BY <1>1, PaperPass, Ratchet DEF StopsInv, Managed
<1>2. ASSUME StopsInv, [Next]_vars
      PROVE  [paper /\ Managed /\ pos.sl > 0 => Gain(pos.buy, pos.sl, pos'.sl) >= 0]_vars
  BY <1>1, <1>2
<1> QED BY <1>2, StopsInvariant, PTL DEF Spec, StopRatchets

\* A price beyond the stored stop is a reason to exit.
LEMMA BeyondStop ==
  ASSUME NEW p \in Position, NEW price \in Prices, paper, StopOK(p), p.sl > 0,
         Gain(p.buy, p.sl, Level(price)) < 0
  PROVE  Reason(p, price) # "none"
<1> DEFINE peak == PeakProfit(p, price)
           stop == Stop(p, peak)
<1>1. stop \in Int /\ Level(price) \in Int /\ p.sl \in Int /\ p.buy \in BOOLEAN
  BY StopChoice, PeakGrows DEF Level, Position
<1>2. Gain(p.buy, p.sl, Round2(stop)) >= 0
  BY Ratchet
<1>3. Trailed(p, peak) \/ (stop = OverallSl(p) /\ OverallSl(p) > 0)
  BY StopChoice, PeakGrows DEF OverallSl
<1> HIDE DEF stop, peak
<1>4. Round2(stop) \in Int
  BY <1>1, RoundType
<1>5. Gain(p.buy, Round2(stop), Level(price)) < 0
  BY <1>1, <1>2, <1>4 DEF Gain
<1>6. Reached(p.buy, price, stop)
  BY <1>1, <1>5, RoundedReached
<1> QED BY <1>3, <1>6, ReasonCases DEF stop, peak

\* On paper no price beyond the stored stop survives a pass of the guardian without
\* an exit booked or on its way.
THEOREM StopHonouredHolds == Spec => StopHonoured
<1>1. ASSUME StopsInv, [Next]_vars, paper, Managed, pos.sl > 0,
             Gain(pos.buy, pos.sl, Level(look.price)) < 0
      PROVE  pending' # None
  <2> DEFINE reason == Reason(look.p, look.price)
             due == [reason |-> reason, level |-> ExitLevel(look.p, look.price, reason)]
  <2>1. Manage /\ look.p = pos /\ pos \in Position /\ look.price \in Prices
    BY <1>1, PaperPass
  <2>2. reason # "none"
    BY <1>1, <2>1, BeyondStop DEF StopsInv, Managed
  <2>3. due # None
    BY <2>1, <2>2, DueType, NoneAssumption
  <2> QED BY <1>1, <2>1, <2>2, <2>3, ManageCases, Zenon DEF Managed
<1>2. ASSUME StopsInv, [Next]_vars
      PROVE  [paper /\ Managed /\ look.p = pos /\ pos.sl > 0
                /\ Gain(pos.buy, pos.sl, Level(look.price)) < 0 => pending' # None]_vars
  BY <1>1, <1>2
<1> QED BY <1>2, StopsInvariant, PTL DEF Spec, StopHonoured

\* The price booked for a due exit that keeps a profit loses the slippage at most.
LEMMA ProfitLessSlippage ==
  ASSUME NEW p \in Position, NEW due \in Due, NEW out \in Booked(p.buy, due), paper \in BOOLEAN,
         KeepsProfit(p, due), p.overallSl = 0, p.pointTrail = 0,
         out.reason \in {"TRAIL_SL", "STOP_LOSS"}
  PROVE  Gain(p.buy, Level(p.entry), out.price) >= -Level(out.slip)
<1>1. p.buy \in BOOLEAN /\ Level(p.entry) \in Int
  BY DEF Position, Level
<1>2. /\ out \in Exit /\ out.reason = due.reason
      /\ Gain(p.buy, due.level, out.price) >= -Level(out.slip)
  BY <1>1, BookedExit
<1>3. out.price \in Int /\ Level(out.slip) \in Int /\ due.level \in Int
  BY <1>2 DEF Exit, Due, Level
<1>4. Gain(p.buy, Level(p.entry), due.level) >= 0
  BY <1>2 DEF KeepsProfit
<1>5. CASE p.buy
  BY <1>1, <1>2, <1>3, <1>4, <1>5 DEF Gain
<1>6. CASE ~p.buy
  BY <1>1, <1>2, <1>3, <1>4, <1>6 DEF Gain
<1> QED BY <1>1, <1>5, <1>6

\* On paper, with percent trails alone, a stop exit loses at most the slippage of its
\* own fill, however late the delayed order is booked.
THEOREM TrailLosesSlippageOnlyHolds == Spec => TrailLosesSlippageOnly
<1>1. ASSUME StopsInv, [Next]_vars, paper, pos # None, pos' = None,
             exit'.reason \in {"TRAIL_SL", "STOP_LOSS"}, pos.overallSl = 0, pos.pointTrail = 0
      PROVE  Gain(pos.buy, Level(pos.entry), exit'.price) >= -Level(exit'.slip)
  <2>0. pos \in Position /\ StopOK(pos) /\ paper \in BOOLEAN
    BY <1>1 DEF StopsInv, TypeOK
  <2>1. CASE Manage
    <3> DEFINE due == [reason |-> Reason(look.p, look.price),
                       level |-> ExitLevel(look.p, look.price, Reason(look.p, look.price))]
    <3>1. look # None /\ look.p \in Position /\ look.price \in Prices
      BY <1>1, <2>1, ManageCases
    <3>2. look.p = pos
      BY <1>1, <3>1 DEF StopsInv, LookOK
    <3>3. exit' \in Booked(pos.buy, due) /\ Reason(look.p, look.price) # "none"
      <4> DEFINE peak == PeakProfit(look.p, look.price)
                 stop == Round2(Stop(look.p, peak))
      <4>1. peak \in Nat /\ stop \in Int
        BY <3>1, PeakGrows, StopChoice, RoundType
      <4>2. [pos EXCEPT !.sl = stop, !.peak = peak] # None
        <5> HIDE DEF stop, peak
        <5>1. [pos EXCEPT !.sl = stop, !.peak = peak] \in Position
          BY <1>1, <4>1, PassKeepsPosition
        <5> QED BY <5>1, NoneAssumption
      <4> QED BY <1>1, <2>1, <4>2, ManageCases, Zenon
    <3>4. due \in Due
      BY <3>1, <3>3, DueType
    <3>5. KeepsProfit(pos, due)
      BY <1>1, <2>0, <3>1, <3>2, StopExitGains
    <3> HIDE DEF due
    <3> QED BY <1>1, <2>0, <3>3, <3>4, <3>5, ProfitLessSlippage
  <2>2. CASE BookDelayed
    <3>1. pending # None /\ exit' \in Booked(pos.buy, pending)
      BY <1>1, <2>2 DEF BookDelayed
    <3>2. pending \in Due /\ KeepsProfit(pos, pending)
      BY <1>1, <3>1 DEF StopsInv, TypeOK
    <3> QED BY <1>1, <2>0, <3>1, <3>2, ProfitLessSlippage
  <2>3. CASE SquareOff
    <3>1. PICK out \in Booked(pos.buy, [reason |-> "SQUARE_OFF", level |-> Level(ltp)]) : exit' = out
      BY <2>3 DEF SquareOff
    <3>2. exit'.reason = "SQUARE_OFF"
      BY <3>1 DEF Booked
    <3> QED BY <1>1, <3>2
  <2>4. CASE UNCHANGED vars \/ Open \/ Tick \/ Reconcile \/ Look
    BY <1>1, <2>4 DEF vars, Open, Tick, Reconcile, Look, StopsInv, TypeOK, Position
  <2> QED BY <1>1, <2>1, <2>2, <2>3, <2>4 DEF Next
<1>2. ASSUME StopsInv, [Next]_vars
      PROVE  [(paper /\ pos # None /\ pos' = None /\ exit'.reason \in {"TRAIL_SL", "STOP_LOSS"}
                 /\ pos.overallSl = 0 /\ pos.pointTrail = 0)
                => Gain(pos.buy, Level(pos.entry), exit'.price) >= -Level(exit'.slip)]_vars
  BY <1>1, <1>2
<1> QED BY <1>2, StopsInvariant, PTL DEF Spec, TrailLosesSlippageOnly
=============================================================================
