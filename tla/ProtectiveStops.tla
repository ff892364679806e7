--------------------------- MODULE ProtectiveStops ---------------------------
(***************************************************************************)
(* The exit levels of one open position and the guardian that enforces     *)
(* them (manage_positions in crates/server/src/realtime.rs).               *)
(*                                                                         *)
(* Prices are whole paise; levels are hundredths of a paisa, in which a    *)
(* percentage of a profit is exact.  What the engine stores it rounds to   *)
(* paise (round2).                                                         *)
(***************************************************************************)
EXTENDS Integers

CONSTANTS
    Prices,      \* market and fill prices, in paise
    Percents,    \* trail settings, in percent (levels_for clamps them to 0..100)
    Jumps,       \* point trail settings, in paise
    Slips,       \* adverse slippage of a simulated fill, in paise
    None

ASSUME PricesAssumption == Prices \subseteq Nat \ {0}
ASSUME SettingsAssumption == Percents \subseteq 0..100 /\ Jumps \subseteq Nat /\ Slips \subseteq Nat

VARIABLES
    paper,    \* the simulated engine, or the real one
    pos,      \* the position, or None
    ltp,      \* the last price of its security
    look,     \* position and price as the guardian read them, or None
    pending,  \* the delayed exit in flight (paper_exit_pending), or None
    exit      \* how the last position was closed, or None

vars == <<paper, pos, ltp, look, pending, exit>>

-----------------------------------------------------------------------------
(* Levels *)

Level(price) == 100 * price

\* round2, half away from zero; levels are positive.
Round2(level) == ((level + 50) \div 100) * 100

Larger(a, b) == IF a > b THEN a ELSE b

\* A price distance in favour of the position.
Gain(buy, from, to) == IF buy THEN to - from ELSE from - to

\* The level a profit of p (in hundredths) per unit stands for.
AtProfit(buy, entry, p) == IF buy THEN Level(entry) + p ELSE Level(entry) - p

\* Mutant: the percentage is one of the entry price, not of the profit.
PriceTrailStop(buy, entry, peak, pct) == AtProfit(buy, entry, Level(peak) - entry * pct)

\* The percent trail gives back pct% of the peak profit.
ProfitTrailStop(buy, entry, peak, pct) == AtProfit(buy, entry, peak * (100 - pct))

\* The point trail stays a fixed jump, of 5 paise or more, behind the peak.
PointTrailStop(buy, entry, peak, points) ==
    AtProfit(buy, entry, Level(peak) - Level(Larger(points, 5)))

\* Mutant: the looser of the two stops wins.
LessFavourable(buy, a, b) == b <= 0 \/ Gain(buy, b, a) < 0

\* a is a tighter stop than b; a missing b is always beaten.
MoreFavourable(buy, a, b) == b <= 0 \/ Gain(buy, b, a) > 0

Reached(buy, price, level) == Gain(buy, level, Level(price)) <= 0

-----------------------------------------------------------------------------
(* The stop in force for what the guardian read (look) at this price.      *)

\* Mutant: the running profit instead of its peak.
LastProfit(l, price) == Gain(l.buy, l.entry, price)

PeakProfit(l, price) == Larger(l.peak, Gain(l.buy, l.entry, price))

\* overallSl, or the stored stop of a position that has none.
OverallSl(l) == IF l.overallSl > 0 THEN l.overallSl ELSE l.sl

\* The trailing stops armed by the profit so far.
Trails(l, peak) ==
    (IF l.trail > 0 /\ peak > 0
     THEN {ProfitTrailStop(l.buy, l.entry, peak, l.trail)} ELSE {})
    \cup (IF paper /\ l.pointTrail > 0 /\ peak > 0
          THEN {PointTrailStop(l.buy, l.entry, peak, l.pointTrail)} ELSE {})

\* The tightest of them, if it is tighter than the overall stop.
Stop(l, peak) ==
    LET better == {s \in Trails(l, peak) : MoreFavourable(l.buy, s, OverallSl(l))} IN
    IF better = {} THEN OverallSl(l)
    ELSE CHOOSE s \in better : \A o \in better : ~(Gain(l.buy, s, o) > 0)

\* Mutant: only the percent trail raises the flag.
TrailedByPercent(l, peak) ==
    /\ l.trail > 0 /\ peak > 0
    /\ MoreFavourable(l.buy, ProfitTrailStop(l.buy, l.entry, peak, l.trail), OverallSl(l))

\* slTrailed.
Trailed(l, peak) == \E s \in Trails(l, peak) : MoreFavourable(l.buy, s, OverallSl(l))

\* The profit the Trail TP setting keeps of the peak.
Kept(l, peak) == peak * (100 - l.trailTp)

Reason(l, price) ==
    LET peak == PeakProfit(l, price) IN
    CASE l.tp > 0 /\ Gain(l.buy, l.tp, Level(price)) >= 0 -> "TARGET"
      [] l.trailTp > 0 /\ peak > 0 /\ 100 * Gain(l.buy, l.entry, price) <= Kept(l, peak) -> "TRAIL_TP"
      [] Trailed(l, peak) /\ Reached(l.buy, price, Stop(l, peak)) -> "TRAIL_SL"
      [] OverallSl(l) > 0 /\ Reached(l.buy, price, OverallSl(l)) -> "STOP_LOSS"
      [] OTHER -> "none"

\* Paper books a stop at the level that triggered it, the real engine the mark.
ExitLevel(l, price, reason) ==
    LET peak == PeakProfit(l, price) IN
    CASE paper /\ reason = "TRAIL_SL" -> Stop(l, peak)
      [] paper /\ reason = "STOP_LOSS" -> OverallSl(l)
      [] paper /\ reason = "TRAIL_TP" -> AtProfit(l.buy, l.entry, Kept(l, peak))
      [] OTHER -> Level(price)

-----------------------------------------------------------------------------
(* Types *)

Levels == {Level(p) : p \in Prices}

Position == [buy: BOOLEAN, entry: Nat, overallSl: Nat, tp: Nat, trail: Percents,
             pointTrail: Jumps, trailTp: Percents, sl: Int, peak: Nat]

Reasons == {"TARGET", "TRAIL_TP", "TRAIL_SL", "STOP_LOSS", "SQUARE_OFF"}

\* An exit that is due at a level, and one that is booked.
Due == [reason: Reasons, level: Int]

Exit == [reason: Reasons, price: Int, slip: Nat]

ASSUME NoneAssumption == None \notin Position \cup Due \cup Exit

TypeOK ==
    /\ paper \in BOOLEAN
    /\ pos \in Position \cup {None}
    /\ ltp \in Prices
    /\ look \in [p: Position, price: Prices] \cup {None}
    /\ pending \in Due \cup {None}
    /\ exit \in Exit \cup {None}

-----------------------------------------------------------------------------

\* Slippage against the order; a sell never fills below the least price.
Slipped(buy, mark, slip, least) == IF buy THEN mark + slip ELSE Larger(mark - slip, least)

\* The fill of a simulated entry, in paise.
Fill(buy, slip) == Slipped(buy, ltp, slip, 5)

\* close_position books the exit of a position.  On paper the opposite order slips
\* once more, from the level the guardian asked for, which is always positive here
\* (a missing price falls back on the stored one).
Booked(buy, due) ==
    {[reason |-> due.reason, slip |-> slip,
      price |-> IF paper THEN Slipped(~buy, due.level, Level(slip), Level(5)) ELSE due.level] :
        slip \in IF paper THEN Slips ELSE {0}}

Init ==
    /\ pos = None /\ look = None /\ pending = None /\ exit = None
    /\ ltp \in Prices
    /\ paper \in BOOLEAN

\* open_entry books a position with the levels of levels_for: a stop on the losing
\* side of the market or none, a target on the winning side or none.  A simulated
\* fill slips against the position (paper_fill_price) after the levels are fixed.
Open ==
    /\ pos = None /\ look = None /\ pending = None
    /\ \E buy \in BOOLEAN, sl, tp \in Levels \cup {0},
          trail, trailTp \in Percents, points \in Jumps, slip \in Slips :
        /\ ~paper => slip = 0
        /\ sl > 0 => Gain(buy, sl, Level(ltp)) > 0
        /\ tp > 0 => Gain(buy, Level(ltp), tp) > 0
        /\ pos' = [buy |-> buy, entry |-> Fill(buy, slip), overallSl |-> sl, tp |-> tp, trail |-> trail,
                   pointTrail |-> points, trailTp |-> trailTp, sl |-> sl, peak |-> 0]
    /\ exit' = None
    /\ UNCHANGED <<paper, ltp, look, pending>>

Tick ==
    /\ \E price \in Prices : ltp' = price
    /\ UNCHANGED <<paper, pos, look, pending, exit>>

\* reconcile_fills replaces the estimated entry by the average traded price.
Reconcile ==
    /\ ~paper /\ pos # None
    /\ \E price \in Prices : pos' = [pos EXCEPT !.entry = price]
    /\ UNCHANGED <<paper, ltp, look, pending, exit>>

\* manage_positions reads the position under the lock ...
Look ==
    /\ pos # None /\ look = None
    /\ look' = [p |-> pos, price |-> ltp]
    /\ UNCHANGED <<paper, pos, ltp, pending, exit>>

\* ... computes on what it read, stores stop and peak, and closes the position if
\* a level is reached: at once, or, on paper, after a delay if none is in flight.
Manage ==
    /\ look # None
    /\ LET peak == PeakProfit(look.p, look.price)
           reason == Reason(look.p, look.price)
           due == [reason |-> reason, level |-> ExitLevel(look.p, look.price, reason)]
           kept == IF pos = None THEN None
                   ELSE [pos EXCEPT !.sl = Round2(Stop(look.p, peak)), !.peak = peak]
       IN \/ reason = "none" /\ pos' = kept /\ UNCHANGED <<pending, exit>>
          \/ /\ reason # "none" /\ pos # None
             /\ pos' = None /\ exit' \in Booked(pos.buy, due)
             /\ UNCHANGED pending
          \/ /\ reason # "none" /\ (paper \/ pos = None)
             /\ pos' = kept
             /\ pending' = IF paper /\ pending = None THEN due ELSE pending
             /\ UNCHANGED exit
    /\ look' = None
    /\ UNCHANGED <<paper, ltp>>

\* The delay is over: the exit is booked from the level it was queued with, unless
\* the position was closed meanwhile.
BookDelayed ==
    /\ pending # None
    /\ pending' = None
    /\ \/ pos = None /\ UNCHANGED <<pos, exit>>
       \/ pos # None /\ pos' = None /\ exit' \in Booked(pos.buy, pending)
    /\ UNCHANGED <<paper, ltp, look>>

\* A square-off or an operator close, at the mark.
SquareOff ==
    /\ pos # None
    /\ pos' = None
    /\ exit' \in Booked(pos.buy, [reason |-> "SQUARE_OFF", level |-> Level(ltp)])
    /\ UNCHANGED <<paper, ltp, look, pending>>

Next == Open \/ Tick \/ Reconcile \/ Look \/ Manage \/ BookDelayed \/ SquareOff

Spec == Init /\ [][Next]_vars

-----------------------------------------------------------------------------
(* What must hold.                                                         *)

\* The guardian's update of an open position.
Managed == look # None /\ look' = None /\ pos # None /\ pos' # None

\* On paper the stored stop only moves in favour of the position, tick after
\* tick, whatever the price does and whichever trails are set
\* (profit_trail_stop: "only ratchets forward as the peak grows").
StopRatchets ==
    [][paper /\ Managed /\ pos.sl > 0 => Gain(pos.buy, pos.sl, pos'.sl) >= 0]_vars

\* A trailing stop tightens the overall stop and never loosens it.
StopAboveFloor ==
    pos # None /\ pos.overallSl > 0 => Gain(pos.buy, pos.overallSl, pos.sl) >= 0

\* On paper no price beyond the stored stop survives a pass of the guardian
\* without an exit booked or on its way.
StopHonoured ==
    [][paper /\ Managed /\ look.p = pos /\ pos.sl > 0
         /\ Gain(pos.buy, pos.sl, Level(look.price)) < 0
         => pending' # None]_vars

\* On paper, with no overall stop and no point trail, a stop exit loses at most the
\* slippage of its own fill, however late it is booked: the percent trail is armed by
\* profit and keeps part of it (profit_trail_stop), and close_position slips once.
TrailLosesSlippageOnly ==
    [][(paper /\ pos # None /\ pos' = None /\ exit'.reason \in {"TRAIL_SL", "STOP_LOSS"}
          /\ pos.overallSl = 0 /\ pos.pointTrail = 0)
         => Gain(pos.buy, Level(pos.entry), exit'.price) >= -Level(exit'.slip)]_vars

=============================================================================
