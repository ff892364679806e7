# A verification project for the NIFTY trading server

The repository is a Rust server (`crates/server`, `crates/dhan`, `crates/core`) and a
WebAssembly front end (`crates/web`) for trading through the Dhan broker. This directory
holds TLA+ models of the server, of its order and feed tasks and of the analysis its
decisions rest on, the TLC instances that check them, and TLAPS proofs of what matters
most.

`realtime.rs`, `broker.rs`, `feed.rs` and so on below are the files of
`src/crates/*/src/`.

## 1. Inventory

| Part | State it keeps | Operations | Talks to | What is hard about it |
|---|---|---|---|---|
| Live order path (`realtime.rs`) | `RtDoc` behind one mutex: engine on, armed, positions, closed book | `open_entry`, `close_position`, `square_off_all`, `reconcile_super`, request handlers | broker REST, the feed's prices | five kinds of task act on one position; every broker call is an await outside the lock; requests can be dropped |
| State file (`realtime.rs`) | a JSON file per mode | `save`, `write_atomic`, `load_state` | the order path | snapshots lag and overtake one another; death between any two steps; one temporary name for all savers |
| Protective stops (`realtime.rs`) | stop, peak, trail settings of a position | `manage_positions`, `queue_delayed_exit` | the feed, the order path, fill reconciliation | three stops and two profit rules over a price path; the entry price moves under them |
| Fills (`realtime.rs`) | `filledQty`, `reconciled`, `exitPending` | `reconcile_fills` | the broker's order book | partial fills, rejections, missing orders, trades closed first |
| Paper engine (`realtime.rs`) | `paper_pending`, `paper_exit_pending`, positions, closed book | delayed entries and exits, slippage, charges | the order path without the broker | a delayed order whose world changed, and which no other check sees |
| Entry gates (`realtime.rs`) | trade counts, the last second's orders, locked margin | margin, trade limit, HFT budget, session | the order path | check, await, act |
| Scan, filters, movers, NIFTY pick (`realtime.rs`) | direction, its lists, bias, movers, picks | `scan_signals`, `refresh_movers`, `refresh_nifty_trend`, `refresh_nifty_scan`, `spawn_nifty_watch` | indicators, feed | two writers of one direction; the side in force is read again and again between awaits |
| Feed lifecycle (`broker.rs`, `feed.rs`) | session, `FeedHealth`, command channel | connect, reset, restart, watchdog, `run_feed`, `MarketFeed::run` | Dhan's websocket | several starters, each of several critical sections; cooldowns; silence |
| REST access (`broker.rs`) | rate gates, caches | candles, quotes, throttles | Dhan REST | reservations per family |
| Market data (`market.rs`) | quotes, forming bars | ticks, seeds, browser websocket | feed, browser | late and out-of-order ticks, seeds racing ticks |
| Option chain (`optionchain.rs`) | cached chains | refresh | REST | staleness, rate limits |
| Backups (`backup.rs`, `static/backup.js`) | backup files, schedule; each page's copy of it | back up, prune, restore | pages, state files | pages act on old configurations; torn files among those pruned; missed schedules |
| Scrip master, statistics, wiring | tables; nothing; nothing | look-ups, aggregation, routes | all | little |
| Indicators, engines, patterns, OI trend (`core`) | none | pure functions of a chart | the scan, the charts | readings that are redrawn, the same rule written several times, flat windows |
| Web front end (`web`, `static`) | DOM | rendering | the server | out of scope |

What makes each part correct:

- *order path*: a trade gets one exit order, is banked once, a claim is always released, an
  accepted entry is forgotten in named cases only, a square-off empties the book, nothing is
  sent while disarmed;
- *state file*: whatever the order of saves and restarts, no trade is both open and closed, and
  the file can always be read;
- *stops*: the stop never loosens, never lies beyond the overall stop, and a price past it is
  always acted on;
- *backups*: the last complete backup survives, a missed one is caught up, the schedule is
  exact;
- *feed*: leaked connections end once the broker answers, a cooldown is kept, a dead or silent
  feed comes back;
- *scan and gates*: the option bought is of the side whose filters passed, the published
  direction is one reading and not a mix, the caps hold although orders are in flight, one more
  at most when entries are delayed;
- *paper engine*: a delayed order ends, and is booked at what triggered it;
- *analysis*: what was read on a closed bar stands while ticks come in, a reading of the
  mirrored chart is the mirrored reading, two engines for one reading agree, nothing leaves its
  range.

## 2. Modules

| Module | Models | Proved about in |
|---|---|---|
| `TradeLedger` | what the order path promises of each trade (abstract) | |
| `LiveTrades` | the live order path, one action per critical section or broker call | `LiveTradesProofs` |
| `StateFile` | what saves, failures and restarts make of the state file (abstract) | |
| `RestartedTrades` | `LiveTrades` with `StateFile` | `LiveTradesProofs` |
| `StatePersistence` | the bytes of the state file: `save`, `write_atomic`, the loader | `StatePersistenceProofs` |
| `ProtectiveStops` | the guardian and the levels of one position | `ProtectiveStopsProofs` |
| `FeedLifecycle` | requests, timer, watchdog and feed supervisors | `FeedLifecycleProofs` |
| `BackupSchedule` | when a backup is due, as pure functions of time | `BackupsProofs` |
| `Backups` | the backup store and the pages that trigger backups | `BackupsProofs` |
| `EntryGate` | the rules in front of an entry, as pure functions of settings and state | |
| `EntryLevels` | levels, lots, margin and paper fills of an entry, as pure functions | |
| `TrendPick` | the loop's and the watch's part that sets direction, movers and picks | |
| `PaperTab` | `TrendPick` with the scan, entries, exits, guardian and operator of the paper tab | `PaperTabProofs` |
| `Rational`, `Averages` | exact fractions; the moving averages of `math.rs` | |
| `Indicators` | the standard indicators of `indicators.rs` | |
| `Swings`, `Reversals` | pivots, zigzags, levels and structure; the reversal engines (`engines.rs`) | |
| `PaneConsensus`, `VlCore` | the pane consensus and the trend core (`engines.rs`) | |
| `TrendLines`, `Consensus` | the lines, arrows and consensus votes of `indicators.rs` | |
| `Patterns`, `OiTrend` | candlestick patterns (`patterns.rs`); the regime line (`oi_trend.rs`) | |
| `ScanTheory` | no code: what holds of every loop over bars | itself |
| `EntryFilters` | `filter_eval` and the conditions of a strategy, over all of these | |
| `Charts` | a chart that grows tick by tick, and what all of these say of it | `ChartsProofs` |
| `MC*` | small instances and symmetry for TLC | |

### LiveTrades

`doc` is `RtDoc` under its mutex, reduced to what the properties tell apart: engine on,
armed, squared off today, the state of each trade and how often it was banked. `task` is
the program counter and locals of the engine loop (`spawn_engine`), the guardian
(`spawn_guard`) and any number of requests. The broker's side is `entryOrd`, `leg`,
`exits` and `net`; `snap` is the cached `broker_positions`. `open_entry` is `EntryFail`,
`EntryPlace`, `EntryPush`; a super order is sent in slices, each of them one more
`EntryPlace`, and the first refusal of a later one (`SliceRefused`) ends the call.
`close_position` is `Claim`, `Send`, `Book`; `square_off_all` copies its own quantities, the
account's positions and the ids under three locks (`StartSweep`, `SweepSeen`, `SweepIds`), and
goes on with `SweepVisit`, `SweepEnd`, `Residual`. Whether a signal appears or a level is
breached is a nondeterministic choice. A trade is one lot and long, so that quantities are
counts, and the slices of one order share its fate at the exchange. Ids are unique (`Fresh`); in
the code they are milliseconds (section 5).

`HangUp` is a request whose connection is lost: the handler's future is dropped at the
await it has reached. `lost`, `cut` and `dropped` are history variables that record what a lost
answer, a refused slice or such a drop left behind; the model reads them only in properties.

### RestartedTrades

`LiveTrades` beside a state file: `disk` is what a start would find in it, `held` what the
saves under way have serialized, `met` says that they met one another. `save()` serializes under
the lock and writes outside it, so a save may be overtaken by any number of later ones. What a
save does to the file is an action of `StateFile`; `Crash` is its `Restart` for the document, and
throws away what the tasks were doing. The flags in the file are not followed: a restart
finds any of them.

### StatePersistence

Names, files and blocks: `path` and `tmp` are the two names, `data` what the files hold, and a
saver keeps the descriptor of the file it opened whatever becomes of its name. `Loaded` is the
loader without its fallback to a file of an earlier version. A document has one block or two,
so that a shorter one written over a longer one leaves a tail. `mixed` and `saved` are history
variables.

### StateFile

The promise in between. `RestartedTrades` is built on its actions, and `StatePersistence` is shown
to implement it, with `Loaded` for the file and the documents of the busy savers for `held`. So
the order path is checked against exactly what the bytes can do: a lone save is in the file or is
not (`End`), saves that met leave the document of any of them, or none (`Clash`), and a file never
goes back to a document whose save is over.

### ProtectiveStops

One position, the price, what the guardian read, and the delayed exit. Prices are whole
paise and levels hundredths of a paisa, in which a percentage of a profit is exact;
`Round2` is where the code rounds. `Open` fixes the levels as `levels_for` does and lets
a simulated fill slip, `Look` and `Manage` are the two halves of one visit of
`manage_positions`, `BookDelayed` the end of `queue_delayed_exit`, `Reconcile` the
correction of the entry price by `reconcile_fills`. An exit is due at a level (`Due`);
`Booked` is what `close_position` makes of it, which on paper slips it once more against the
position. The slippage is a choice from `Slips`, zero among them, and not a share of the price.

### FeedLifecycle

`Handlers` are requests and retry timers, `Watchdog` the ten-second task. Every critical
section of `stop_feed`, `start_feed` and `spawn_feed_task` is an action, so that two
callers interleave between them. A supervisor (`Feeds`) is `run_feed` with the inner
`MarketFeed::run` that holds the connection; an ended one that nothing refers to is used
again, so that behaviours are unbounded. `connect_async` has no timeout, so that a supervisor may
stay in its handshake for ever (`Hanging`), whether `ws_task` knows it or not; only an abort or the
broker's answer gets it out. The ages the watchdog reads are two-valued (within the limit or
over it).

### BackupSchedule and Backups

Time is counted in a unit that divides a day. `op` is the one snapshot the server works
on: its handlers hold a lock from loading the configuration to their reply, and each
write in between is a step that an error or `Crash` may cut short. `tab` is what a page
remembers: the configuration of its last reply and `_busy`. `Ahead` is the difference of
the page's time zone. Only the name, kind, age and completeness of a file matter; what a
snapshot contains is left out, and so is the folder on the PC, except that a page that
saved there asks the server only to record it. A manual snapshot is like a safety copy.

### EntryGate and EntryLevels

No state: `ActiveSide`, `OptionSide` and `SideAllowed` are `active_side`,
`resolve_option_strategy` and `side_allowed`; `FilterGate` is `filter_gate_facts` over a
function from filters to verdicts; the rest are templates, research streams, sessions, run
modes, trade limit, orders per second. `EntryLevels` has `levels_for`, `calc_auto_lots`,
the margin budget and the paper fill in whole money. `PaperTab` asks them where the code
does.

### TrendPick

`bull`, `bear`, `dir` are the published lists and sign; `writes[t]` is what task `t`
(the loop or the watch) has still to write of the reading it made, so that the three
writes of `apply_nifty_direction` and `clear_nifty_direction` interleave with the other
task's. `RefreshMovers`, `LoopReads`, `ScanStart` and `ScanPublish` are the loop's steps;
`at` is its place. `reads` and `ranks` are the market: what the straight lines say on
each chart, and how the stocks rank. The loop refreshes at every pass; the throttles that
spare it some passes are left out, as they only choose which passes read.

### PaperTab

`at` goes on through the scan: `ScanDrops` is the end of the NIFTY scan, `ScanBegin` the gate
of the engine and the targets, `Consider`, `EvalGate`, `ResolveLeg` and `Send` one strategy on
its way to an order, with an await between any two. `cur` holds its locals. `orders` are
entries between check and booking, `from` the loop, a delay (`paper_pending`) or the operator;
`EntryCheck` and `EntryBook` are the two halves of `open_entry`. `exits` is
`paper_exit_pending`; `Guard`, `ExitDue` and `ManualClose` are what ends a position. What
filters say of a chart, whether it is there, whether conditions are met and the direction guard
does not object (`met`, for the chart of the rule and for the confirming one), and whether a
simulated order is refused are free choices. Ids are unique (`nextId`). A contract is a stock
and a side: which strike is bought does not matter here, nor do charges and the limit price
that is only displayed. The square-off at the end of a day is left to `LiveTrades`.

### The analysis modules and Charts

A chart is a sequence of bars, a reading a sequence with one entry per bar. Each function
keeps the loop of the code: a sum carried from bar to bar is carried, a state machine is
scanned (`Scan`), a guard against zero stands where the code has it. Prices are exact
fractions, with the infinities and NaN that IEEE division by zero gives, so that a missing
guard would show; rounding of `f64` is not modelled. `VlCore` and `PaneConsensus` round
their scores to hundredths to stay within TLC's integers.

`Charts` has the chart under way (`bars`): `NewBar` and `Tick` are `patch_tick`, on top of
the seeded bars that no tick touches; a seed that replaces the series, and the drain of bars past
5000, are left out. `study` selects a family of readings with bars that
bring its cases about. The bars of `Shapes` are those a few ticks make of a bar.

## 3. Runs

| Run | Shows | Bounds, and why they are enough |
|---|---|---|
| `closers` | one exit order, banked once, claims released, no silent orphan but those named; refinement of `TradeLedger`; what an automatic square-off set out to flatten leaves the book | one super trade in any number of slices; the loop, the guardian and a request that may close it, or place it itself; one of a square-off asked for, a trade made outside the engine, or a midnight (`MaxOutside`). What two trades do to one another is left to the theorems, which hold for any set of trades |
| `restarts` | one more exit order per restart at most; no snapshot with a trade open and closed | two restarts: one may undo what the other did; two documents on their way to the file, so that an older one may land on a newer one; no save after the last restart, for nobody reads the file again |
| `state_file` | without overlap the file is the last successful save; a save that meets no other repairs it; refinement of `StateFile` | two savers, two sizes of document, three files (two names and an unlinked file), symmetry |
| `feed_recovery` | a feed comes back, also from a handshake that hangs; leaked supervisors end if their handshakes are answered | one handler slot, two requests, two supervisors: a leak and its successor |
| `backups` | schedules exact; the last complete backup and the cap kept; missed backups caught up | half days and a week's turn (the Friday schedule falls due at 3), three snapshots against a cap of three files with `latest.json`, one thing that goes wrong |
| `stops` | stops ratchet, lie beyond the floor, are acted on; a percent trail loses at most the slippage of its fill | four prices, so that each trail lies strictly between two of them; every combination of settings |
| `paper` | the side bought is the side that passed; caps hold with orders in flight, up to one more with delays; delayed exits book their trigger; the direction settles; no order stays pending | six scenarios (direction on one chart and on two, movers, late entries, late exits, rapid fire), each with its bounds in `settings.bounds`: the moves of the market, one intervention of the operator, two ticks, up to three entries, one more than a cap and a delay allow |
| `charts` | closed bars stand; mirrored charts give mirrored readings; twins agree; oscillators stay in range; zigzags, lines and levels belong to the chart; verdicts turn only when they should | seven studies of up to 14 bars with windows of 1 to 3, long enough for several pivots, a turn of the consensus and two of the trend core; three to six shapes of bar, flat ones and ones without volume among them |

The other runs each refute one sentence of the code's comments; section 5 lists them.

Deadlock is checked except in `charts`, `paper` and the runs on `PaperTab`: a chart of full
length gets no more bars, and a market and an operator at their bounds do nothing more. The
bounds `MaxOutside`, `MaxCrash`, `MaxHeld` and `MaxRequests` limit what operators, crashes and
slow saves may do, and `MaxNow`, `MaxMade` and `MaxTrouble` how long the backups are followed;
none limits what the code does.

Fairness. `LiveTrades!FairSpec` is weak fairness of the steps `SweepDrains` waits for, those of
the loop's own square-off and of whoever is closing a position: tokio schedules every ready
task, and the REST client has a 15 s timeout, so a broker call returns. Nothing is assumed of
the operator or the exchange. `FeedLifecycle!FairSpec` is weak fairness of each request and
timer, of the watchdog, of what a supervisor does without the broker, and of the passing of
time. The broker owes nobody a packet, nor the answer to a handshake, for `connect_async` has
no timeout. What follows from its answers is said as a condition: `LeaksEnd` if no supervisor
hangs for ever, `FeedComesBack` if none that nobody knows does. A leaked supervisor whose
handshake is never answered stays. One in charge that hangs is replaced by the watchdog in
session hours, unless the ticks of another keep the feed fresh, or it is in a state the
watchdog cannot read (`Unwatched`). `Backups` assumes that the server finishes what it began,
that a loading page asks for the list, that its timer runs and its requests arrive, unless they
are lost. `PaperTab` assumes of tokio that it polls the loop, the watch, each delayed order and
each delayed exit, whose timers end; of market and operator it assumes nothing, and
`DirectionSettles` speaks of the time after their last move. With two charts that disagree the
code publishes nothing, so that a mix of two readings may then stay; the property leaves that
case out.

## 4. Proofs

`LiveTradesProofs` proves for any sets of trades, securities and requests:

- `TypeCorrect`, `ExitOnceHolds`, `ClosingOwnedHolds`, `LedgerOnceHolds`,
  `OrphansReportedHolds`: the invariants the run `closers` checks with one trade, here with any
  number of them on any securities, and any number of requests;
- `Refinement`: the order path implements `TradeLedger`.

The assumptions are those `LiveTrades` declares of its constants (the tasks are distinct, every
trade has a security) and nothing about how many there are; and, in the model itself, that ids
are unique. `ExitOnce` is not inductive: that a task about to send an exit has not sent one yet
depends on who owns the claim. The inductive invariant `IInv` is the type invariant,
`ClosingOwned` (a position is closing exactly while one task is between its claim and its
booking), `ExitIsBooked` (an accepted exit belongs to a trade being booked, or booked, or left
closing), `LedgerOnce`, and three facts about entries: a trade is in one entry call at most, is
ordered before it is pushed, and is in the book only if it was ordered. Each action either
leaves alone what the invariant is about (`Quiet`) or has a lemma of its own, and the
refinement maps each step to one step of the ledger or a stutter.

It also proves `ExitBudget` and `LedgerOnceEverywhere` of `RestartedTrades` for any number of
trades, requests, saves under way and restarts. A restart throws away every claim, so `IInv` does not
survive it; `RInv` says what does. Of all versions of the book (in memory, in the file, in
a snapshot on its way there) none knows a trade that was never ordered, and each is sound in itself
(`BooksSound`); what runs has one owner; and a trade whose exit was accepted in this life
of the process is not claimed again before the next one (`BudgetSpent`), which is why the
budget grows by one with a restart and by nothing else.

`ProtectiveStopsProofs` proves `StopAboveFloor`, `StopRatchets`, `StopHonoured` and
`TrailLosesSlippageOnly` for any set of positive prices, trail percentages of 0 to 100, jumps
and slips. The lemmas are about `Round2` (it keeps the order and leaves whole paise
alone) and about `Stop`: it is the tightest of the overall stop and the armed trails
(`StopChoice`), and as the peak grows it passes every level it chose from before
(`StopTightens`). `StopsInv` is needed because the guardian works on a copy: it says
that the copy is the position itself on paper, and has its side and overall stop on the
real engine, where a fill may change the entry in between; that the stored stop is one
of the levels the peak so far allows; and that a delayed stop exit is due at a level that keeps a
profit, of which `close_position` may take the slippage of one fill (`ProfitLessSlippage`).

`StatePersistenceProofs` proves `FileIsLastSave` and `LoneSaveRepairs` for any number of
saves, files and changes. `FileInv` adds that the two names never name one file, that a
save that met no other is alone, and that the temporary file holds exactly the blocks
such a save has written so far. `KeepsStateFileHolds` is the refinement of `StateFile`. Where
saves met, it needs to know whose document the shared temporary file can hold: `Fresh` says that
the last block of a document is in it only while a save of that document waits to rename it, for a
save truncates what it finds before it writes, and every rename, successful or not, takes the file
away. Each action is then one of `StateFile` or invisible; that a block may still reach the file
after another save renamed it is `WriteBlockShows`.

`BackupsProofs` proves `SchedulesExact` for every length of a day, every daily or weekly
schedule and every moment: writing both times as a day and a time of that day, the days
around now are one or seven apart and `Between` shows that no scheduled moment lies
between. For every number of pages, files to keep and any cap of at least two it proves
`OneIsLeft`. The invariant says that ages follow names and that a snapshot which goes on
after its write has the newest file, complete (`Fresh`); `NewestKept` counts the older
files to show that neither rule of the pruning reaches it. `CapKept`, that
a pruning which fails nowhere leaves no more files than the cap, rests on names being unique: the
oldest n files of a folder are then n files.

`PaperTabProofs` proves `LegFollowsFilters` for any settings, charts, stocks, prices and
verdicts, assuming only that saved strategies are not synthetic (`SavedStrategies`).
`LegInv` follows a target from the scan that made it: what the bias says is fixed while
the loop is in the scan, for it is written at the head of the loop only, and the direction,
which the watch may write at any time, is not asked while the NIFTY trend is off
(`DirectionUnheard`). So each target is of a side still in force when the contract is
chosen (`TargetsHeard`, `LegOfAllowed`), and its order keeps that leg; `LoopWaits` says
that the loop stays where it is until the one entry it makes is over. `BookedAtTrigger`
rests on the identity of positions: ids are fresh (an assumption of the model, for `gen_id` is a
millisecond), and a position that was hit has an exit on its
way which is booked at the level of the hit.

It proves `EntriesBounded` for any number of strategies, stocks and orders.
The loop counts what is booked and passes over a strategy whose delayed order is pending, but
what it has chosen and not yet sent is counted nowhere. `LimInv` adds up positions held, the
order on its way and the strategy in the loop's hand (`Classic`, `Counted`) and keeps the sum
within the limit; a strategy has one order on its way at most (`OneGoing`), so that the sum is
exceeded by one at most, and only with delays. The hypothesis `LimitsStand` is that the operator leaves
the settings the limits are made of alone: one who lowers them below what is open has no bound.

`FeedLifecycleProofs` proves the types of the feed's tasks for any number of requests, timers and
supervisors. That cooldowns stay within the bound on requests needs a count: those started and
those a task still has to start (`Resetting`) are together at most the requests so far.

`ChartsProofs` proves three verdicts of the analysis for every chart and all inputs of the kind
the code has. What a loop over bars leaves is a function of the whole chart, so that these are
proofs by induction over data. `ScanTheory` makes that induction once: its constant operator
`Step` is the body of a loop, `Run` the states the loop leads through, and the lemma `RunIs`
says that each is the body applied to the one before; a set of bars that has the first and with
each the next has all of them (`Upwards`). A module takes it with `INSTANCE ScanTheory WITH
Step <- ...` for each loop.

- `TrendTurnsApartHolds`: the trend core rests between turns. The invariant (`Behind`) is that a turn
  of the loop puts the end of its rest so far ahead, that this end never moves back, and that no bar
  before it turns (`Advances`).
- `ConsensusFlipsOnBreakHolds`: the gate turns exactly when its streaks and a broken swing say so.
  `Streaks` says what the two counters of the loop count; `Listed`, that `fractal_pivots` lists
  the pivots once and in order, so that the last one the loop passed is the last one known.
  `GateFlipsOnBreak` says the same for whatever votes, for the straight lines go through the same gate.
- `LegsAreExtremesHolds`: a zigzag goes from one extreme to the next. It rests on the order of
  prices: `Below`, which compares two fractions by whole parts and remainders as TLC's integers
  force it to, is the comparison of the cross products (`BelowIs`), and with the infinities a strict
  order. `Legs` says of the loop of a zigzag that no bar since the last turn beats the extreme
  under way; `Chosen`, of `alternating_pivots`, that each pivot passed over is beaten by its neighbour.

`Charts` assumes of its inputs what their types in the code say: bars are bars, counts and strengths
are unsigned (`CoreAssumption`, `VotesAssumption`, `TurnsAssumption`).

Only model-checked:

- liveness, which is out of the prover's reach: `SweepDrains`, `LeaksEnd`, `FeedComesBack`,
  `CatchesUp`, `DirectionSettles`, `OrdersResolve`;
- of the analysis, what is about arithmetic along the chart (`OscillatorsInRange`, `TwinsAgree`,
  `MirroredChart`, `LinesTouchTheChart`, `ThinnedLineFits`), which would need the laws of exact
  fractions first, and `ClosedBarsStand`, which needs of every single loop that it never looks ahead.

## 5. Where the code and its comments part

Each of these runs refutes one sentence of the code; PROJECT.json quotes it.

- `stuck_closing`: after a restart a position stays closing for ever;
- `wrong_leg`: with lines of NIFTY on both sides, gainers gated as bullish are bought as
  puts, because the option follows the sign of the direction;
- `spent_wallet`: when the running trades hold the whole wallet the budget is 0, which
  counts as none configured, and the margin gate lets every further trade through;
- `late_entries`: in classic mode a strategy gets a second position, and a trade more than its limit,
  when a delayed entry is booked after the scan has counted the running positions and before it
  queues the next.

Behaviours that contradict no checked property, because the code does nothing about them; some are
listed as hazards with a note:

- a super order refused at a later slice is forgotten with the slices already accepted,
  although their answers arrived: they are in no book, and only a square-off of what the
  account holds finds them (`cut`, which `OrphansReported` names);
- two positions of one millisecond share an id: `close_position` exits the first and removes
  both. The models take ids to be unique;
- a supervisor that nobody knows and whose handshake is never answered stays for ever;
- a paper exit at a stop or a target slips once more (realtime.rs:4743-4747), so that a cut
  does not land exactly at the configured stop, as realtime.rs:3480-3483 has it, and a percent
  trail armed by a small profit may book a loss of that slippage;
- a trade whose native leg exited gets a second, market, exit; a leftover is sold from a stale
  account snapshot; a square-off accounts for one of several positions on a security;
- an entry is sent after a disarm the scan did not see; a delayed paper order that has looked
  at the engine once lands after the operator stopped it, and one queued before a stop survives
  it if the engine is armed again in time;
- two feed supervisors run at once for a while, a cooldown is ended by the watchdog, a silent
  feed hides behind a start time that an older supervisor cleared;
- a page east of UTC backs up at every poll; its timer stops after a lost request;
- overlapping saves leave a truncated state file until the next save;
- a trailing stop falls back when the entry price is corrected;
- the movers' lists stay in the cache when the movers are turned off, and the NIFTY scan goes
  on picking from them; between a flip of the direction and new picks, positions of the old
  picks are dropped or kept by the sign they were opened under; margin is checked at one await
  and booked at another, so that two entries may share one budget.

Small differences between the functions and what their comments say, as the modules have them:
a fitted line has a value on every bar, so the arrow filters of it never fire on the bar under
way; `BbCross` compares the close with the upper band; `GtUp` and `GtDown` ask the same
question; the supply and resistance lines have points beyond the last bar; the rapid
mode's price replaces the close that the filters see as well.

## 6. Not modelled

- *Fills reported by the broker*, beyond the correction of an entry price: the rules read
  fields of the broker's order book one by one.
- *REST access, option chain cache*: rate gates and refreshes of cached answers. They decide
  when a reading is made; the models let it be made at any time.
- *Statistics, scrip master, wire models, pages, wiring*: look-up tables, parsing, display.
- *Of the analysis*: the Fisher transform and what else needs logarithms, the variant of the
  trend core without straight lines, registries, colours and the JSON of series. Ratios and
  lines that start out upward (SuperTrend, zigzags, the pane regime) have no mirror image and
  are left out of `MirroredChart`. No chart of the instance is wide enough for a pitchfork to
  qualify.
- *Of live charts*: a seed from the broker that replaces a series (`seed_bars`) and the drain
  of bars past 5000. Both change earlier bars, and with them any reading of them, so that
  `ClosedBarsStand` says nothing across them.
- *Of the loader*: the state file of an earlier version, in the temporary directory, which the
  real engine reads when its own does not exist.
- *Of the scan*: the commodity list, AI picks, the strike chosen within a side.
- *`f64` rounding*: the fractions are exact.

What would come next: the reconciliation of partial fills, as a part of `LiveTrades` in which a
trade is more than one lot.
