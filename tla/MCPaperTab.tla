----------------------------- MODULE MCPaperTab -----------------------------
EXTENDS PaperTab, TLC

Plain(name, side) == [name |-> name, sides |-> {side}, kind |-> "plain", group |-> "none"]
Filters == {Plain("rises", "CE"), Plain("falls", "PE"),
            [name |-> "turnsUp", sides |-> {"CE"}, kind |-> "arrow", group |-> "none"]}

\* A rising chart, a falling one, one that has just turned up, one without values.
Says(rises, falls, turnsUp) == [rises |-> rises, falls |-> falls, turnsUp |-> turnsUp]
MCVerdicts == {Says("yes", "no", "no"), Says("no", "yes", "no"), Says("yes", "no", "yes"),
               Says("none", "none", "none")}

NoTemplate == [side \in Sides |-> None]
Strat(id, u, category) ==
  [id |-> <<id>>, u |-> u, category |-> category, order |-> "BUY", group |-> "other",
   instrument |-> "EQUITY", segment |-> "NSE_EQ", timeframe |-> "5min", synthetic |-> FALSE]

Bounds(m, t, x, e, o) == [moves |-> m, toggles |-> t, ticks |-> x, entries |-> e, manual |-> o]
Base ==
  [bounds |-> Bounds(1, 1, 0, 2, 0), niftyOn |-> FALSE, moversOn |-> FALSE, runIn |-> FALSE, runInAuto |-> FALSE, runInSide |-> NoSide,
   optionSide |-> NoSide, overallDir |-> FALSE, filters |-> Filters, allInOne |-> FALSE,
   brain |-> FALSE, threshold |-> 60, freshMeet |-> FALSE, template |-> NoTemplate,
   moverTemplate |-> NoTemplate, premiumOnly |-> FALSE,
   run |-> [index |-> "spot", fno |-> "spot", comm |-> "futures"], tfs |-> {"5min"}, useOwn |-> FALSE,
   mtf |-> FALSE, sessions |-> {}, startAfter |-> NoTime, noTradeAfter |-> NoTime, minute |-> 600,
   tradeLimit |-> TRUE, aiTrades |-> FALSE, tradeCount |-> 1, hft |-> FALSE, hftOps |-> 2,
   gainN |-> 1, loseN |-> 1, topN |-> 1, indices |-> {}, strategies |-> {}, chosen |-> {},
   filterMode |-> TRUE, entryDelay |-> FALSE, exitDelay |-> FALSE, rejects |-> FALSE,
   lots |-> 1, lotSize |-> 1, autoLots |-> FALSE, oi |-> 0, volume |-> 0, oiPct |-> 0, volPct |-> 0,
   marginAmount |-> 0, marginPct |-> 0, capital |-> 1000, slip |-> 0, levels |-> FALSE,
   manualSl |-> FALSE, slPct |-> 0, aiSl |-> FALSE, manualTrail |-> FALSE, trailPct |-> 0,
   aiTrail |-> FALSE, manualTrailTp |-> FALSE, trailTpPct |-> 0, pointTrail |-> FALSE, points |-> 0,
   rr |-> FALSE, rrValue |-> 0, aiTp |-> FALSE, cfg |-> [slPct |-> 0, trailPct |-> 0, jump |-> 0],
   ai |-> [sl |-> 0, tp |-> 0, trail |-> 0]]

\* The NIFTY direction on one chart and on two.
TrendOne  == [bounds |-> Bounds(1, 1, 0, 1, 0), niftyOn |-> TRUE] @@ Base
TrendBoth == [bounds |-> Bounds(2, 0, 0, 0, 0), niftyOn |-> TRUE, tfs |-> Timeframes, overallDir |-> TRUE] @@ Base
\* The movers, with the side they decide, an index, and a chart of the premium.
Movers == [moversOn |-> TRUE, indices |-> {"NIFTY"}, loseN |-> 0, freshMeet |-> TRUE] @@ Base
\* A saved strategy, its entries late; its exits late; entries in rapid fire.
Saved == [filterMode |-> FALSE, strategies |-> {Strat("S", "A", "BULLISH")}, chosen |-> {<<"S">>},
          filters |-> {}, tradeCount |-> 2] @@ Base
LateIn  == [bounds |-> Bounds(0, 1, 0, 3, 1), entryDelay |-> TRUE, rejects |-> TRUE] @@ Saved
LateOut == [bounds |-> Bounds(0, 0, 2, 2, 1), exitDelay |-> TRUE, levels |-> TRUE, manualSl |-> TRUE,
            slPct |-> 10, rr |-> TRUE, rrValue |-> 1] @@ Saved
Rapid   == [bounds |-> Bounds(0, 0, 2, 3, 0), hft |-> TRUE, tradeCount |-> 3, exitDelay |-> FALSE] @@ LateOut

MCStarts == {TrendOne, TrendBoth, Movers, LateIn, LateOut, Rapid}
\* The NIFTY direction at rest on a chart whose lines disagree.
MCStill   == {[bounds |-> Bounds(0, 0, 0, 1, 0)] @@ TrendOne}
MCMixed   == {[one |-> 1, two |-> -1, three |-> -1]}
\* Late entries of one strategy, with nobody else about.
MCLate    == {[bounds |-> Bounds(0, 0, 0, 2, 0)] @@ LateIn}
\* Two trades that each cost the whole wallet.
MCWallet  == {[bounds |-> Bounds(0, 0, 0, 2, 0), capital |-> 100, marginPct |-> 100,
               strategies |-> {Strat("S", "A", "BULLISH"), Strat("R", "B", "BULLISH")},
               chosen |-> {<<"S">>, <<"R">>}] @@ Saved}
MCVariants(s) ==
  IF s.moversOn THEN {[s EXCEPT !.runIn = TRUE, !.runInSide = "PE"], [s EXCEPT !.gainN = 0, !.loseN = 1]}
  ELSE IF s.niftyOn THEN {[s EXCEPT !.niftyOn = FALSE], [s EXCEPT !.niftyOn = TRUE]}
  ELSE {[s EXCEPT !.optionSide = "PE"]}
\* No instance has the operator intervene more than once.
MCSettings == MCStarts \cup UNION {MCVariants(s) : s \in MCStarts}

Reading(a, b) == [one |-> a, two |-> b]
MCReadings == {Reading(1, 1), Reading(1, -1), Reading(-1, -1)}
Stock(u, pct) == [u |-> u, pct |-> pct]
MCRankings == {<<Stock("A", 1), Stock("B", -1)>>, <<Stock("B", 1), Stock("A", -1)>>}
=============================================================================
