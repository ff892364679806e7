------------------------------ MODULE Consensus ------------------------------
(***************************************************************************)
(* The two consensus indicators of crates/core/src/indicators.rs: twelve     *)
(* straight lines, or twelve overlays, each vote the direction they move in,  *)
(* and a gate follows the vote only when price confirms it.  The chart draws  *)
(* a zigzag of its own from the same columns.                               *)
(* A column has one entry per bar, None where the voter has no value.         *)
(***************************************************************************)
EXTENDS TrendLines, PaneConsensus

\* The first value a line has on each bar.
Column(line, n) ==
  Series(LAMBDA i : LET at == {k \in DOMAIN line : line[k].idx = i}
                    IN IF at = {} THEN None
                       ELSE line[CHOOSE k \in at : \A j \in at : k <= j].value, n)

\* sl_line_dir takes the last one instead; a bar has two where a zigzag turns twice.
LatestColumn(line, n) ==
  Column(Series(LAMBDA k : line[Len(line) + 1 - k], Len(line)), n)

\* sl_line_dir: only two neighbouring bars that both have a value move the vote.
SlLineDir(col) ==
  LET Step(last, i) ==
        IF i = 1 \/ col[i] = None \/ col[i - 1] = None THEN last
        ELSE IF QLess(col[i - 1], col[i]) THEN 1
        ELSE IF QLess(col[i], col[i - 1]) THEN -1 ELSE last
  IN Scan(Step, 0, Len(col))

\* ovl_line_dir: the mean of a voter's lines against its last known mean.
VoteStep(s, mean) ==
  IF mean = None THEN s
  ELSE [prev |-> mean,
        dir |-> IF s.prev = None THEN s.dir
                ELSE IF QLess(s.prev, mean) THEN 1
                ELSE IF QLess(mean, s.prev) THEN -1 ELSE s.dir]

OvlLineDir(cols, n) ==
  LET Known(i) == SelectSeq(Series(LAMBDA k : cols[k][i], Len(cols)),
                            LAMBDA x : x # None)
      mean == Series(LAMBDA i : IF Known(i) = <<>> THEN None
                                ELSE QDiv(SumOf(Known(i), 1, Len(Known(i))),
                                          Int2Q(Len(Known(i)))), n)
      run == Scan(LAMBDA s, i : VoteStep(s, mean[i]), [prev |-> None, dir |-> 0], n)
  IN Series(LAMBDA i : run[i].dir, n)

\* zigzag_vertices: the bars at which the line of agg turns.  Two turns are minLeg
\* bars apart, and minAgree columns move with the leg between them.
ZigzagVertices(agg, matrix, half, minLeg, minAgree) ==
  LET n == Len(agg)
      known == {i \in 1 .. n : agg[i] # None}
      Near(i) == {j \in known : j >= i - half /\ j <= i + half}
      High(i) == \A j \in Near(i) : QLeq(agg[j], agg[i])
      Low(i)  == \A j \in Near(i) : QLeq(agg[i], agg[j])
      Agree(a, b, up) ==
        Cardinality({m \in DOMAIN matrix :
          /\ matrix[m][a] # None /\ matrix[m][b] # None
          /\ IF up THEN QLess(matrix[m][a], matrix[m][b])
             ELSE QLess(matrix[m][b], matrix[m][a])})
      Step(v, i) ==
        LET m == Len(v)
            high == High(i)
        IN IF i \notin known \/ (~High(i) /\ ~Low(i)) THEN v
           ELSE IF m = 0 THEN <<[at |-> i, high |-> high]>>
           ELSE IF i - v[m].at < minLeg THEN v
           ELSE IF high = v[m].high
           THEN IF IF high THEN QLess(agg[v[m].at], agg[i])
                   ELSE QLess(agg[i], agg[v[m].at])
                THEN [v EXCEPT ![m].at = i] ELSE v
           ELSE IF Agree(v[m].at, i, high) >= minAgree
           THEN Append(v, [at |-> i, high |-> high]) ELSE v
      turns == IF n = 0 THEN <<>> ELSE Scan(Step, <<>>, n)[n]
      at == Series(LAMBDA k : turns[k].at, Len(turns))
      first == CHOOSE i \in known : \A j \in known : i <= j
      last  == CHOOSE i \in known : \A j \in known : j <= i
  IN IF known = {} THEN <<>>
     ELSE (IF at = <<>> \/ first < at[1] THEN <<first>> ELSE <<>>)
          \o at
          \o (IF (at = <<>> /\ last # first) \/ (at # <<>> /\ last > at[Len(at)])
              THEN <<last>> ELSE <<>>)

\* zigzag_series_line: the turns, at the rounded height of axis.
ZigzagLine(axis, vts) ==
  Series(LAMBDA k : Point(vts[k], QRound(axis[vts[k]])), Len(vts))

\* The arrows at the inner turns: a turn that is not a high is the start of a rise.
ZigzagTurnMarkers(axis, vts) ==
  {[idx |-> vts[k], up |-> \/ QLess(axis[vts[k]], axis[vts[k - 1]])
                           \/ QLess(axis[vts[k]], axis[vts[k + 1]])] :
     k \in 2 .. Len(vts) - 1}

PriceMid(c) == Series(LAMBDA i : MidPrice(c, i), Len(c))

\* compute_panemaster: the turns of price that two of six readings go along with.
PaneMaster(c, o) ==
  LET r == PaneSignal(c, o).readings
      vts == ZigzagVertices(PriceMid(c), <<r.rsi, r.bb, r.stoch, r.cci, r.willr, r.mfi>>,
                            o.minSeg, o.minSeg, 2)
  IN IF ~PaneSignal(c, o).ready THEN <<>> ELSE ZigzagLine(PriceMid(c), vts)

\* The lines of the straight-line voters, in the order of the code's table, in
\* which ewtrend stands twice.
SlVoters(c, o) ==
  <<EwTrend(c, o), EwTrend(c, o), PaTrendLine(c, o),
    TrendLine(c, o), TrendLine(c, [o EXCEPT !.look = o.trendLook]), PaneMaster(c, o),
    AutoTrend(c, o.strength),
    IF Pitchfork(c, o) = <<>> THEN <<>> ELSE Pitchfork(c, o)[1],
    ProjLine(c, o).hist, FanTrend(c, o), FanTrend(c, o), SremaT(c, o)>>

SlMatrix(c, o) ==
  LET voters == SlVoters(c, o)
  IN Series(LAMBDA k : Column(voters[k], Len(c)), Len(voters))

\* The lines of the overlay voters, as columns.
OvlVoters(c, o) ==
  LET bb == Bb(c, o.ovl, Int2Q(2))
      kel == Keltner(c, o.ovl, One)
      pc == Pc(c, o.ovl)
      don == Donchian(c, o.ovl)
      ch == Chandelier(c, o.ovl, Int2Q(3))
      ich == Ichimoku(c, o.fast, o.ovl, o.slow)
  IN <<<<Ema(c, o.ovl)>>, <<Ma(c, o.ovl)>>, <<Smma(c, o.ovl)>>,
       <<Hma(c, o.ovl, o.sq)>>, <<bb.up, bb.mid, bb.lo>>, <<kel.up, kel.mid, kel.lo>>,
       <<pc.up, pc.lo>>, <<don.up, don.mid, don.lo>>, <<ch.long, ch.short>>,
       <<ich.tenkan, ich.kijun, ich.spanA, ich.spanB>>,
       <<SuperTrendLine(c, o.period, o.mult)>>, <<Vwap(c)>>>>

\* A voter's column for the drawn zigzag: its first line's value.
OvlMatrix(c, o) ==
  LET voters == OvlVoters(c, o)
      First(k, i) == LET has == {m \in DOMAIN voters[k] : voters[k][m][i] # None}
                     IN IF has = {} THEN None
                        ELSE voters[k][CHOOSE m \in has : \A h \in has : m <= h][i]
  IN Series(LAMBDA k : Series(LAMBDA i : First(k, i), Len(c)), Len(voters))

\* The mean of the columns that have a value.
Mean(matrix, n) ==
  Series(LAMBDA i : LET known == SelectSeq(Series(LAMBDA k : matrix[k][i], Len(matrix)),
                                           LAMBDA x : x # None)
                    IN IF known = <<>> THEN None
                       ELSE QDiv(SumOf(known, 1, Len(known)), Int2Q(Len(known))), n)

-----------------------------------------------------------------------------
(* The gate.                                                               *)

\* The last high and low known on a bar: a pivot is known from its bar at on.
LastPrice(piv, known) ==
  IF known = {} THEN None ELSE piv[CHOOSE k \in known : \A j \in known : j <= k].price

KnownSwings(piv, n) ==
  LET Known(i) == {k \in DOMAIN piv : piv[k].at <= i}
  IN Series(LAMBDA i : [high |-> LastPrice(piv, {k \in Known(i) : piv[k].isHigh}),
                        low |-> LastPrice(piv, {k \in Known(i) : ~piv[k].isHigh})], n)

\* The mistake ConsensusFlipsOnBreak is for: a bar without a verdict does not
\* start the count again.
CountedThrough(g, asked) ==
  IF asked = 0 THEN g
  ELSE IF asked = g.cur THEN [g EXCEPT !.pending = 0, !.streak = 0]
  ELSE IF asked = g.pending THEN [g EXCEPT !.streak = @ + 1]
  ELSE [g EXCEPT !.pending = asked, !.streak = 1]

\* The bars on end that asked for the other direction.
Counted(g, asked) ==
  IF asked = 0 \/ asked = g.cur THEN [g EXCEPT !.pending = 0, !.streak = 0]
  ELSE IF asked = g.pending THEN [g EXCEPT !.streak = @ + 1]
  ELSE [g EXCEPT !.pending = asked, !.streak = 1]

\* The side the votes of bar i ask for.
Asks(in, i) ==
  IF in.votes[i] >= in.need THEN 1 ELSE IF in.votes[i] <= -in.need THEN -1 ELSE 0

\* The close of bar i is beyond the last known swing.
Breaks(in, i, dir) ==
  IF dir > 0 THEN in.swings[i].high # None /\ QLess(in.swings[i].high, in.c[i].close)
  ELSE in.swings[i].low # None /\ QLess(in.c[i].close, in.swings[i].low)

\* One bar of the gate: a direction stands until the count is long enough and the
\* close breaks the last swing on that side.
GateStart == [cur |-> 0, pending |-> 0, streak |-> 0]
GateStep(g, i, in) ==
  LET counted == Counted(g, Asks(in, i))
  IN IF /\ counted.pending # 0 /\ counted.streak >= in.wait
        /\ ~in.structured \/ g.cur = 0 \/ Breaks(in, i, counted.pending)
     THEN [cur |-> counted.pending, pending |-> 0, streak |-> 0]
     ELSE counted

\* consensus_gate over the whole chart: need votes for confirm bars on end, and no
\* swing asked for when strength is below 2.
GateInputs(c, votes, minAgree, confirm, strength) ==
  [c |-> c, votes |-> votes,
   need |-> IF minAgree < 1 THEN 1 ELSE minAgree,
   wait |-> IF confirm < 1 THEN 1 ELSE confirm,
   structured |-> strength >= 2,
   swings |-> KnownSwings(IF strength >= 2 THEN FractalPivots(c, strength) ELSE <<>>, Len(c))]

ConsensusGate(c, votes, minAgree, confirm, strength) ==
  LET in == GateInputs(c, votes, minAgree, confirm, strength)
      run == Scan(LAMBDA g, i : GateStep(g, i, in), GateStart, Len(c))
  IN Series(LAMBDA i : run[i].cur, Len(c))

Votes(dirs, n) ==
  Series(LAMBDA i : Scan(LAMBDA x, k : x + dirs[k][i], 0, Len(dirs))[Len(dirs)], n)

SlConsensusDir(c, o, minAgree, confirm, strength) ==
  LET v == SlVoters(c, o)
      dirs == Series(LAMBDA k : SlLineDir(LatestColumn(v[k], Len(c))), Len(v))
  IN ConsensusGate(c, Votes(dirs, Len(c)), minAgree, confirm, strength)

OvlConsensusDir(c, o, minAgree, confirm, strength) ==
  LET v == OvlVoters(c, o)
  IN ConsensusGate(c, Votes(Series(LAMBDA k : OvlLineDir(v[k], Len(c)), Len(v)), Len(c)),
                   minAgree, confirm, strength)

\* compute_slconsensus draws the turns of price, compute_ovlconsensus those of the
\* overlays' mean.
SlConsensus(c, o) ==
  LET vts == ZigzagVertices(PriceMid(c), SlMatrix(c, o), o.strength, o.confirm, o.minAgree)
  IN [line |-> ZigzagLine(PriceMid(c), vts), marks |-> ZigzagTurnMarkers(PriceMid(c), vts)]

OvlConsensus(c, o) ==
  LET m == OvlMatrix(c, o)
      agg == Mean(m, Len(c))
      vts == ZigzagVertices(agg, m, o.strength, o.confirm, o.minAgree)
  IN [line |-> ZigzagLine(agg, vts), marks |-> ZigzagTurnMarkers(agg, vts)]
=============================================================================
