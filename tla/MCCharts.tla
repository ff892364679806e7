------------------------------ MODULE MCCharts ------------------------------
EXTENDS Charts

Bar(op, hi, lo, cl, v) ==
  [open |-> Int2Q(op), high |-> Int2Q(hi), low |-> Int2Q(lo), close |-> Int2Q(cl),
   volume |-> Int2Q(v)]

MCStudies == {"averages", "turns", "votes", "pane", "core", "patterns", "filters"}

\* A swing up and one down, to start the longer charts with.
Wave == <<Bar(10, 11, 9, 10, 2), Bar(10, 13, 10, 12, 3), Bar(12, 15, 11, 14, 2),
          Bar(14, 14, 9, 9, 5), Bar(9, 10, 6, 7, 4), Bar(7, 9, 5, 8, 2),
          Bar(8, 12, 8, 12, 3), Bar(12, 13, 10, 11, 1), Bar(11, 12, 8, 9, 2)>>

\* A quick fall and a slow rise: a leg wide enough for a pitchfork.
SlowRise == SubSeq(Wave, 1, 4) \o
  <<Bar(9, 10, 5, 6, 4), Bar(6, 8, 6, 7, 2), Bar(7, 9, 7, 8, 1), Bar(8, 10, 8, 9, 2),
    Bar(9, 12, 9, 11, 3)>>

MCWarm ==
  [averages |-> <<Bar(10, 10, 10, 10, 0), Bar(10, 13, 8, 9, 3)>>,
   turns    |-> SlowRise,
   votes    |-> SubSeq(Wave, 1, 6),
   pane     |-> SubSeq(Wave, 1, 5),
   core     |-> SubSeq(Wave, 1, 8),
   filters  |-> <<Bar(10, 12, 8, 10, 2), Bar(10, 16, 10, 14, 2)>>,
   patterns |-> <<>>]

\* A flat bar without volume among rising and falling ones; a bar that opens
\* like another is what a tick can make of it.
MCShapes ==
  [averages |-> {Bar(10, 10, 10, 10, 0), Bar(10, 14, 10, 12, 2), Bar(10, 11, 6, 7, 1)},
   turns    |-> {Bar(10, 14, 9, 13, 1), Bar(10, 11, 6, 7, 4), Bar(10, 11, 9, 10, 2)},
   votes    |-> {Bar(10, 12, 9, 12, 3), Bar(10, 11, 4, 5, 3), Bar(10, 11, 9, 10, 1),
                 Bar(12, 18, 12, 18, 2)},
   pane     |-> {Bar(10, 16, 9, 15, 3), Bar(10, 11, 4, 5, 3), Bar(10, 11, 9, 10, 1)},
   core     |-> {Bar(10, 16, 9, 15, 6), Bar(10, 11, 4, 5, 6), Bar(10, 11, 9, 10, 2)},
   filters  |-> {Bar(10, 16, 8, 14, 2), Bar(10, 12, 6, 6, 1), Bar(10, 12, 8, 10, 2), Bar(16, 20, 16, 18, 2)},
   patterns |-> {Bar(10, 14, 9, 13, 1), Bar(13, 14, 8, 9, 1), Bar(10, 13, 4, 10, 1),
                 Bar(11, 12, 10, 12, 1), Bar(12, 12, 10, 11, 1), Bar(8, 14, 8, 14, 1)}]

MCMaxBars ==
  [averages |-> 6, turns |-> 14, votes |-> 11, pane |-> 9, core |-> 13, patterns |-> 3,
   filters |-> 5]

\* What the engines of pivots, lines and panes share.
Lines ==
  [axis |-> 10, strength |-> 1, period |-> 2, mult |-> One, pct |-> Q(1, 1000), look |-> 3,
   trendLook |-> 4, tolMult |-> Q(1, 2), pivotLen |-> 1, paMult |-> Q(1, 10), ema |-> 3,
   touch |-> Q(1, 2), touchWindow |-> 3, fwd |-> 2, trendLen |-> 3, rsiLen |-> 2,
   eps |-> Q(1, 10), minSpan |-> 2, keyMult |-> Q(1, 4), zones |-> 2, eqTol |-> Q(1, 5),
   volLen |-> 2, volMult |-> One]

Pane ==
  [axis |-> 10, minBars |-> 6, atr |-> 2, rsi |-> 2, fast |-> 1, slow |-> 2, sig |-> 2,
   bb |-> 2, stoch |-> 2, cci |-> 2, willr |-> 2, mfi |-> 2, pivotBars |-> 1, hold |-> 1,
   smooth |-> 2, bullTh |-> Q(1, 5), bearTh |-> Q(1, 5), minSeg |-> 1, fitLook |-> 3]

Votes2 ==
  [strength |-> 2, minAgree |-> 7, confirm |-> 2, ovl |-> 2, fast |-> 1, slow |-> 3, sq |-> 1]

MCInputs ==
  [averages |-> [p |-> 2, axis |-> 10],
   turns    |-> Lines,
   votes    |-> Votes2 @@ Lines @@ Pane,
   pane     |-> Pane,
   core     |-> [axis |-> 10, length |-> 5, atr |-> 2, wick |-> 1, confirm |-> 1,
                 strong |-> Q(1, 2), avgK |-> 2, railW |-> 3, fast |-> 2, half |-> 2,
                 sq |-> 2, vol |-> 2],
   filters  |-> [p |-> 2, emas |-> <<2, 3, 4>>, scNeed |-> 2, scConfirm |-> 1, scStrength |-> 1,
                 oi |-> [fast |-> 1, slow |-> 3, atr |-> 2, enterK |-> Q(1, 5), exitK |-> Q(1, 10)],
                 side |-> [look |-> 2]] @@ Votes2 @@ Lines @@ Pane,
   patterns |-> [axis |-> 10]]
=============================================================================
