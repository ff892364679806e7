---------------------------- MODULE EntryLevels ----------------------------
(***************************************************************************)
(* What an entry is sized and protected by: levels_for, calc_auto_lots, the    *)
(* margin arithmetic and the paper fills of crates/server/src/realtime.rs.     *)
(* Money is whole; an instance chooses prices and percentages that divide.     *)
(* A level or a percentage of 0 is one that is not set.                        *)
(***************************************************************************)
EXTENDS Integers, FiniteSetsExt

LOCAL Lesser(a, b) == IF a < b THEN a ELSE b
LOCAL Positive(n) == IF n > 0 THEN n ELSE 0
Clamped(lo, hi, n) == IF n < lo THEN lo ELSE IF n > hi THEN hi ELSE n

Percent(pct, n) == (n * pct) \div 100
PriceOff(price, buy, pct) == IF buy THEN price + Percent(pct, price) ELSE price - Percent(pct, price)

\* The stop: the tick of the operator decides, and without a percentage the
\* method's own; AI only where no manual stop is ticked.
StopFor(s, cfg, buy, ltp, ai) ==
  LET pct == IF s.manualSl THEN IF s.slPct > 0 THEN s.slPct ELSE cfg.slPct ELSE 0
  IN IF pct > 0 THEN PriceOff(ltp, buy, -pct)
     ELSE IF s.aiSl /\ ~s.manualSl /\ ~s.manualTrail THEN ai.sl ELSE 0

TrailFor(s, cfg, ltp, ai) ==
  IF s.manualTrail THEN Clamped(0, 100, IF s.trailPct > 0 THEN s.trailPct ELSE cfg.trailPct)
  ELSE IF s.aiTrail /\ ~s.manualTrailTp /\ ltp > 0 THEN Clamped(0, 100, (ai.trail * 100) \div ltp)
  ELSE 0

\* Risk and reward goes before every other target, and needs a stop; a trailing
\* target goes before an AI one.
TargetFor(s, buy, ltp, sl, ai) ==
  LET reward == IF s.rrValue > 0 THEN s.rrValue ELSE 2
      risk == IF ltp > sl THEN ltp - sl ELSE sl - ltp
  IN IF s.rr THEN IF sl > 0 /\ risk > 0 THEN IF buy THEN ltp + risk * reward ELSE ltp - risk * reward
                  ELSE 0
     ELSE IF (s.aiTp \/ s.aiTrail) /\ ~s.manualTrailTp THEN ai.tp ELSE 0

LevelsFor(s, cfg, buy, ltp, ai) ==
  LET sl == StopFor(s, cfg, buy, ltp, ai)
  IN [sl |-> Positive(sl), tp |-> Positive(TargetFor(s, buy, ltp, sl, ai)),
      trail |-> TrailFor(s, cfg, ltp, ai),
      trailTp |-> IF s.manualTrailTp THEN Positive(s.trailTpPct) ELSE 0,
      point |-> IF s.pointTrail THEN Positive(IF s.points > 0 THEN s.points ELSE cfg.jump) ELSE 0]

\* calc_auto_lots: the least of what volume, open interest and money allow; 0 is
\* no answer, and the operator's lots stay.
CalcAutoLots(lot, price, oi, volume, avail, oiPct, volPct) ==
  LET caps == (IF volume > 0 /\ volPct > 0 THEN {Percent(volPct, volume) \div lot} ELSE {})
              \cup (IF oi > 0 /\ oiPct > 0 THEN {Percent(oiPct, oi) \div lot} ELSE {})
              \cup (IF avail > 0 /\ price > 0 THEN {Percent(95, avail) \div (lot * price)} ELSE {})
  IN IF lot <= 0 \/ caps = {} THEN 0 ELSE Min(caps)

\* open_entry: the quantity ordered.
EntryQty(s, lot, price, oi, volume, avail) ==
  LET auto == IF s.autoLots THEN CalcAutoLots(lot, price, oi, volume, avail, s.oiPct, s.volPct) ELSE 0
  IN lot * (IF auto > 0 THEN auto ELSE IF s.lots < 1 THEN 1 ELSE s.lots)

-----------------------------------------------------------------------------
(* Money.                                                                  *)

LockedMargin(positions) == MapThenSumSet(LAMBDA p : p.qty * p.entry, positions)
RealizedPnl(closed) == MapThenSumSet(LAMBDA c : c.pnl, closed)

\* paper_available_of and margin_budget_of.
PaperAvailable(cap, closed, positions) ==
  Positive(cap + RealizedPnl(closed) - LockedMargin(positions))
MarginBudget(amount, pct, available) ==
  IF amount > 0 THEN Lesser(available, amount) ELSE Percent(Clamped(0, 100, pct), available)

\* The gate of open_entry.  The running trades are taken off the budget, which
\* the wallet had taken them off already; no budget is no gate.
MarginAllows(s, closed, positions, required) ==
  LET budget == MarginBudget(s.marginAmount, s.marginPct, PaperAvailable(s.capital, closed, positions))
  IN budget > 0 => required <= Positive(budget - LockedMargin(positions))

\* paper_fill_price; the floor is a tick.
PaperFill(mark, buy, slip) ==
  IF buy THEN mark + slip ELSE IF mark - slip < 1 THEN 1 ELSE mark - slip
=============================================================================
