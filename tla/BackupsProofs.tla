---------------------------- MODULE BackupsProofs ----------------------------
(***************************************************************************)
(* What holds of backups for every value of the constants: the arithmetic  *)
(* of the schedules, the types, and that the folder never loses its last   *)
(* complete automatic backup.                                              *)
(***************************************************************************)
EXTENDS Backups, FiniteSetTheorems, TLAPS

USE DayAssumption

\* Every moment is a day and a time of that day.
LEMMA Division ==
  ASSUME NEW t \in Int
  PROVE  /\ t \div DayLen \in Int /\ t % DayLen \in 0..(DayLen - 1)
         /\ t = (t \div DayLen) * DayLen + (t % DayLen)
OBVIOUS

\* ... in one way.
LEMMA Uniqueness ==
  ASSUME NEW k \in Int, NEW r \in 0..(DayLen - 1)
  PROVE  (k * DayLen + r) \div DayLen = k /\ (k * DayLen + r) % DayLen = r
OBVIOUS

\* An earlier day ends before a later one begins.
LEMMA DayOrder ==
  ASSUME NEW k \in Int, NEW r \in 0..(DayLen - 1), NEW j \in Int, NEW q \in 0..(DayLen - 1)
  PROVE  /\ k < j => k * DayLen + r < j * DayLen + q
         /\ k = j /\ r < q => k * DayLen + r < j * DayLen + q
         /\ k * DayLen \in Int /\ k * DayLen + DayLen = (k + 1) * DayLen
         /\ k * DayLen + r = j * DayLen + q => k = j /\ r = q
<1>1. k * DayLen \in Int /\ j * DayLen \in Int /\ (k + 1) * DayLen = k * DayLen + DayLen
  OBVIOUS
<1>2. ASSUME k < j PROVE k * DayLen + r < j * DayLen + q
  <2>1. PICK n \in Nat : j = k + 1 + n
    <3>1. j - k - 1 \in Nat /\ j = k + 1 + (j - k - 1)
      BY <1>2
    <3> QED BY <3>1
  <2>2. n * DayLen \in Nat /\ j * DayLen = k * DayLen + DayLen + n * DayLen
    BY <2>1
  <2> QED BY <1>1, <2>2
<1>3. ASSUME j < k PROVE j * DayLen + q < k * DayLen + r
  <2>1. PICK n \in Nat : k = j + 1 + n
    <3>1. k - j - 1 \in Nat /\ k = j + 1 + (k - j - 1)
      BY <1>3
    <3> QED BY <3>1
  <2>2. n * DayLen \in Nat /\ k * DayLen = j * DayLen + DayLen + n * DayLen
    BY <2>1
  <2> QED BY <1>1, <2>2
<1> QED BY <1>1, <1>2, <1>3

\* The day and time of a daily or weekly schedule's moments.
LEMMA ScheduledDay ==
  ASSUME NEW s \in Schedule, NEW t \in Int, Scheduled(s, t)
  PROVE  \E k \in Int : t = k * DayLen + s.at /\ (s.kind = "weekly" => (k + 3) % 7 = s.weekday)
BY Division DEF Scheduled, WeekdayOf

\* ... and the other way round.
LEMMA DayScheduled ==
  ASSUME NEW s \in Schedule, NEW k \in Int, s.kind \in {"daily", "weekly"},
         s.kind = "weekly" => (k + 3) % 7 = s.weekday
  PROVE  Scheduled(s, k * DayLen + s.at)
<1>1. s.at \in 0..(DayLen - 1)
  BY DEF Schedule
<1> QED BY <1>1, Uniqueness DEF Scheduled, WeekdayOf

\* The days between two scheduled ones, a period of one day or of seven apart, are not
\* scheduled.
LEMMA Between ==
  ASSUME NEW s \in Schedule, NEW n \in Int, NEW p \in Nat,
         s.kind = "daily" => p = 1,
         s.kind = "weekly" => p = 7 /\ (n + 3) % 7 = s.weekday,
         NEW t \in Int, (n - p) * DayLen + s.at < t, t < n * DayLen + s.at
  PROVE  ~Scheduled(s, t)
<1> SUFFICES ASSUME Scheduled(s, t) PROVE FALSE
  OBVIOUS
<1>1. PICK k \in Int : t = k * DayLen + s.at /\ (s.kind = "weekly" => (k + 3) % 7 = s.weekday)
  BY ScheduledDay
<1>2. s.at \in 0..(DayLen - 1)
  BY DEF Schedule
<1>3. n - p \in Int
  OBVIOUS
<1>4. n - p < k
  <2>1. ~(k < n - p) /\ k # n - p
    BY <1>1, <1>2, <1>3, DayOrder
  <2> QED BY <1>3, <2>1
<1>5. k < n
  <2>1. ~(n < k) /\ k # n
    BY <1>1, <1>2, DayOrder
  <2> QED BY <2>1
<1>6. CASE s.kind = "daily"
  BY <1>4, <1>5, <1>6
<1>7. CASE s.kind = "weekly"
  <2>1. n - 7 < k /\ k < n /\ (k + 3) % 7 = (n + 3) % 7
    BY <1>1, <1>4, <1>5, <1>7
  <2> QED BY <2>1
<1> QED BY <1>6, <1>7 DEF Scheduled

\* So the two days around now are exact.
LEMMA DaysExact ==
  ASSUME NEW s \in Schedule, NEW m \in Int, NEW n \in Int, NEW p \in Nat,
         s.kind = "daily" => p = 1,
         s.kind = "weekly" => p = 7 /\ (n + 3) % 7 = s.weekday,
         NextDue(s, m) = n * DayLen + s.at, LastScheduled(s, m) = (n - p) * DayLen + s.at,
         m < n * DayLen + s.at, (n - p) * DayLen + s.at <= m
  PROVE  Exact(s, m)
<1> SUFFICES ASSUME s.kind \in {"daily", "weekly"} PROVE Exact(s, m)
  BY DEF Exact, Schedule
<1>1. s.at \in Int /\ n * DayLen \in Int /\ n - p \in Int
  BY DEF Schedule
<1>2. (n - p) * DayLen \in Int
  BY <1>1
<1>3. Scheduled(s, n * DayLen + s.at)
  BY DayScheduled
<1>4. Scheduled(s, (n - p) * DayLen + s.at)
  <2>1. s.kind = "weekly" => (n - p + 3) % 7 = s.weekday
    OBVIOUS
  <2> QED BY <1>1, <2>1, DayScheduled
<1>5. \A t \in (LastScheduled(s, m) + 1)..(NextDue(s, m) - 1) : ~Scheduled(s, t)
  <2> TAKE t \in (LastScheduled(s, m) + 1)..(NextDue(s, m) - 1)
  <2>1. t \in Int /\ (n - p) * DayLen + s.at < t /\ t < n * DayLen + s.at
    BY <1>1, <1>2
  <2> QED BY <2>1, Between
<1> QED BY <1>3, <1>4, <1>5 DEF Exact

\* A daily schedule: today's time and tomorrow's or yesterday's.
LEMMA DailyExact ==
  ASSUME NEW s \in Schedule, NEW m \in Int, s.kind = "daily"
  PROVE  Exact(s, m)
<1> DEFINE d == m \div DayLen
           r == m % DayLen
           n == IF s.at <= r THEN d + 1 ELSE d
<1>1. d \in Int /\ r \in 0..(DayLen - 1) /\ m = d * DayLen + r /\ s.at \in 0..(DayLen - 1)
  BY Division DEF Schedule
<1>2. DayStart(m) = d * DayLen
  BY DEF DayStart
<1> HIDE DEF d, r
<1>3. n \in Int /\ NextDue(s, m) = n * DayLen + s.at /\ LastScheduled(s, m) = (n - 1) * DayLen + s.at
  <2>1. d * DayLen \in Int /\ (d + 1) * DayLen = d * DayLen + DayLen /\ (d - 1) * DayLen = d * DayLen - DayLen
    BY <1>1
  <2>2. NextDue(s, m) = After(d * DayLen + s.at, DayLen, m)
    BY <1>2 DEF NextDue
  <2>3. LastScheduled(s, m) = Before(d * DayLen + s.at, DayLen, m)
    BY <1>2 DEF LastScheduled
  <2> QED BY <1>1, <2>1, <2>2, <2>3 DEF After, Before
<1>4. m < n * DayLen + s.at /\ (n - 1) * DayLen + s.at <= m
  <2>1. (n - 1) * DayLen = n * DayLen - DayLen /\ (d + 1) * DayLen = d * DayLen + DayLen /\ d * DayLen \in Int
    BY <1>1
  <2> QED BY <1>1, <2>1
<1> HIDE DEF n
<1> QED BY <1>3, <1>4, DaysExact

\* The days to the next day of some name and from the last one.
LEMMA DaysToWeekday ==
  ASSUME NEW d \in Int, NEW w \in 0..6
  PROVE  LET v == (d + 3) % 7
             x == (w - v) % 7
             y == (v - w) % 7 IN
         x \in 0..6 /\ y \in 0..6 /\ (IF x = 0 THEN y = 0 ELSE y = 7 - x) /\ (d + x + 3) % 7 = w
<1> DEFINE v == (d + 3) % 7
           q == (d + 3) \div 7
           x == (w - v) % 7
           y == (v - w) % 7
<1>1. v \in 0..6 /\ q \in Int /\ d = 7 * q + v - 3
  OBVIOUS
<1> HIDE DEF v, q
<1>2. x = (IF w >= v THEN w - v ELSE w - v + 7) /\ y = (IF v >= w THEN v - w ELSE v - w + 7)
  BY <1>1
<1>3. (d + x + 3) % 7 = w
  BY <1>1, <1>2
<1>4. x \in 0..6 /\ y \in 0..6 /\ (IF x = 0 THEN y = 0 ELSE y = 7 - x)
  BY <1>1, <1>2
<1> QED BY <1>3, <1>4 DEF v

\* A weekly schedule: this week's day and next week's or last week's.
LEMMA WeeklyExact ==
  ASSUME NEW s \in Schedule, NEW m \in Int, s.kind = "weekly"
  PROVE  Exact(s, m)
<1> DEFINE d == m \div DayLen
           r == m % DayLen
           x == (s.weekday - WeekdayOf(m)) % 7
           y == (WeekdayOf(m) - s.weekday) % 7
           n == IF x = 0 /\ s.at <= r THEN d + 7 ELSE d + x
<1>1. /\ d \in Int /\ r \in 0..(DayLen - 1) /\ m = d * DayLen + r
      /\ s.at \in 0..(DayLen - 1) /\ s.weekday \in 0..6
  BY Division DEF Schedule
<1>2. DayStart(m) = d * DayLen /\ WeekdayOf(m) = (d + 3) % 7
  BY DEF DayStart, WeekdayOf
<1> HIDE DEF d, r
<1>3. x \in 0..6 /\ y \in 0..6 /\ (IF x = 0 THEN y = 0 ELSE y = 7 - x) /\ (d + x + 3) % 7 = s.weekday
  <2>1. x = (s.weekday - ((d + 3) % 7)) % 7 /\ y = (((d + 3) % 7) - s.weekday) % 7
    BY <1>2
  <2> HIDE DEF x, y
  <2> QED BY <1>1, <2>1, DaysToWeekday
<1> HIDE DEF x, y
<1>4. n \in Int /\ (n + 3) % 7 = s.weekday
  BY <1>1, <1>3
<1>5. /\ d * DayLen \in Int /\ x * DayLen \in Int /\ y * DayLen \in Int
      /\ (d + x) * DayLen = d * DayLen + x * DayLen /\ (d - y) * DayLen = d * DayLen - y * DayLen
      /\ (d + 7) * DayLen = d * DayLen + 7 * DayLen
      /\ (d + x - 7) * DayLen = d * DayLen + x * DayLen - 7 * DayLen
  BY <1>1, <1>3
<1>6. x = 0 \/ x * DayLen >= DayLen
  BY <1>3
<1>7. y = 0 \/ y * DayLen >= DayLen
  BY <1>3
<1>8. x = 0 => x * DayLen = 0 /\ y * DayLen = 0
  BY <1>3
<1>9. x # 0 => y * DayLen = 7 * DayLen - x * DayLen
  BY <1>3
<1>10. NextDue(s, m) = After(d * DayLen + s.at + x * DayLen, 7 * DayLen, m)
  BY <1>2 DEF NextDue, Week, x
<1>11. LastScheduled(s, m) = Before(d * DayLen + s.at - y * DayLen, 7 * DayLen, m)
  BY <1>2 DEF LastScheduled, Week, y
<1>12. /\ NextDue(s, m) = n * DayLen + s.at /\ LastScheduled(s, m) = (n - 7) * DayLen + s.at
       /\ m < n * DayLen + s.at /\ (n - 7) * DayLen + s.at <= m
  <2>1. CASE x = 0 /\ s.at <= r
    <3>1. n * DayLen = d * DayLen + 7 * DayLen /\ (n - 7) * DayLen = d * DayLen
      BY <1>1, <1>5, <2>1
    <3> QED BY <1>1, <1>5, <1>8, <1>10, <1>11, <2>1, <3>1 DEF After, Before
  <2>2. CASE ~(x = 0 /\ s.at <= r)
    <3>1. n * DayLen = d * DayLen + x * DayLen /\ (n - 7) * DayLen = d * DayLen + x * DayLen - 7 * DayLen
      <4>1. n = d + x
        BY <2>2
      <4> HIDE DEF n
      <4> QED BY <1>5, <4>1
    <3> HIDE DEF n
    <3> QED BY <1>1, <1>3, <1>5, <1>6, <1>7, <1>8, <1>9, <1>10, <1>11, <2>2, <3>1 DEF After, Before
  <2> QED BY <2>1, <2>2
<1> HIDE DEF n
<1> QED BY <1>4, <1>12, DaysExact

\* next_due and last_scheduled return the scheduled times around now, and none lies
\* between (backup.rs:405-457).
THEOREM SchedulesExact == \A s \in Schedule, m \in Int : Exact(s, m)
BY DailyExact, WeeklyExact DEF Exact, Schedule

-----------------------------------------------------------------------------
(* The inductive invariant.                                                 *)

\* Numbers of files follow the order of the writes.
Ages == \A f \in files : f.name <= made /\ f.mtime <= made /\ (f.name # 0 => f.mtime = f.name)

\* What the stage of a snapshot says of it.
Stages ==
  op # None =>
    /\ op.stage = "file" => made < MaxMade /\ ~op.pcOnly
    /\ op.stage \in {"config", "prune"} => op.kind = "auto"
    /\ op.stage = "prune" => ~op.pcOnly

\* A snapshot that goes on after its file was written has the newest file, complete.
Fresh ==
  op # None /\ op.stage \in {"latest", "config", "prune"} /\ ~op.pcOnly =>
    \E f \in files : f.name = made /\ f.name # 0 /\ f.whole /\ f.kind = op.kind

IInv == TypeOK /\ IsFiniteSet(files) /\ Ages /\ Stages /\ Fresh

-----------------------------------------------------------------------------
(* Types of what the actions write.                                         *)

LEMMA NextDueInt == ASSUME NEW s \in Schedule, NEW m \in Int PROVE NextDue(s, m) \in Int
<1>1. DayStart(m) \in Int /\ WeekdayOf(m) \in Int /\ s.at \in Int /\ s.interval \in Int /\ s.weekday \in Int
  BY Division DEF DayStart, WeekdayOf, Schedule
<1>2. ((s.weekday - WeekdayOf(m)) % 7) * DayLen \in Int
  <2>1. (s.weekday - WeekdayOf(m)) % 7 \in Int
    BY <1>1
  <2> QED BY <2>1
<1> HIDE DEF DayStart, WeekdayOf
<1>3. s.kind \in {"every", "daily", "weekly"}
  BY DEF Schedule
<1> QED BY <1>1, <1>2, <1>3 DEF NextDue, After, Week

LEMMA ConfigTypes ==
  ASSUME TypeOK
  PROVE  /\ Loaded \in Config
         /\ \A cfg \in Config : WithDue(cfg) \in Config
<1>1. DefaultConfig \in Config
  <2>1. (CHOOSE s \in Schedules : s.kind = "every") \in Schedules /\ (CHOOSE k \in Keeps : TRUE) \in Keeps
    BY DefaultAssumption
  <2> QED BY <2>1 DEF DefaultConfig, Config
<1>2. ASSUME NEW cfg \in Config PROVE WithDue(cfg) \in Config
  <2>1. cfg.sched \in Schedule /\ now \in Int
    BY ScheduleAssumption, BoundAssumption DEF Config, TypeOK
  <2>2. DueNext(cfg) \in Int
    BY <2>1, NextDueInt DEF DueNext
  <2> QED BY <2>2 DEF WithDue, Config
<1> QED BY <1>1, <1>2 DEF Loaded, TypeOK

LEMMA StoreTypes ==
  ASSUME TypeOK, NEW cfg \in Config, Store(cfg)
  PROVE  config' \in Config \cup {None} /\ trouble' \in 0..MaxTrouble
BY BoundAssumption DEF TypeOK, Store, Trouble

LEMMA PageTypes ==
  ASSUME NEW r \in Tab
  PROVE  /\ \A b \in Begin(r) : b \in Tab
         /\ Failed(r) \in Tab
         /\ Page \in Tab
<1>1. \A b \in Begin(r) : b \in Tab
  BY DEF Begin, Tab
<1>2. Failed(r) \in Tab
  BY DEF Failed, Tab
<1>3. Page \in Tab
  BY DEF Page, Tab
<1> QED BY <1>1, <1>2, <1>3

LEMMA AnsweredType ==
  ASSUME NEW r \in Tab, op \in Op
  PROVE  Answered(r) \in Tab
<1> DEFINE q == IF op.kind = "auto" THEN [r EXCEPT !.pc = "idle", !.busy = FALSE] ELSE r
<1>1. q \in Tab
  BY DEF Tab
<1>2. op.cfg \in Config
  BY DEF Op
<1>3. Answered(r) = [q EXCEPT !.cfg = IF op.ok /\ op.kind # "import" THEN op.cfg ELSE q.cfg]
  BY DEF Answered
<1> HIDE DEF q
<1> QED BY <1>1, <1>2, <1>3 DEF Tab

\* A step that leaves the store's files and snapshot alone has its types to keep.
LEMMA PagesOnly ==
  ASSUME IInv, UNCHANGED <<files, made, op>>, now' \in 0..MaxNow, config' \in Config \cup {None},
         tab' \in [Tabs -> Tab], trouble' \in 0..MaxTrouble
  PROVE  IInv'
BY DEF IInv, TypeOK, Ages, Stages, Fresh

-----------------------------------------------------------------------------
(* The steps of the pages and of the configuration.                         *)

LEMMA PageSteps ==
  ASSUME IInv, NEW t \in Tabs,
         Tick(t) \/ Render(t) \/ LoseList(t) \/ LosePost(t)
  PROVE  IInv'
<1>1. tab \in [Tabs -> Tab] /\ tab[t] \in Tab /\ TypeOK
  BY DEF IInv, TypeOK
<1>2. CASE Tick(t)
  BY <1>1, <1>2, PageTypes, PagesOnly DEF Tick, TypeOK
<1>3. CASE Render(t)
  <2>1. [tab[t] EXCEPT !.cfg = WithDue(Loaded), !.pc = IF tab[t].pc = "load" THEN "idle" ELSE tab[t].pc] \in Tab
    <3>1. WithDue(Loaded) \in Config
      BY <1>1, ConfigTypes
    <3> QED BY <1>1, <3>1 DEF Tab
  <2>2. tab' \in [Tabs -> Tab]
    <3>1. tab' = [tab EXCEPT ![t] = [tab[t] EXCEPT !.cfg = WithDue(Loaded), !.pc = IF tab[t].pc = "load" THEN "idle" ELSE tab[t].pc]]
      BY <1>1, <1>3 DEF Render, Tab
    <3> QED BY <1>1, <2>1, <3>1
  <2> QED BY <1>1, <1>3, <2>2, PagesOnly DEF Render, TypeOK
<1>4. CASE LoseList(t)
  <2>1. [tab[t] EXCEPT !.pc = "idle"] \in Tab
    BY <1>1 DEF Tab
  <2> QED BY <1>1, <1>4, <2>1, BoundAssumption, PagesOnly DEF LoseList, Trouble, TypeOK
<1>5. CASE LosePost(t)
  BY <1>1, <1>5, PageTypes, BoundAssumption, PagesOnly DEF LosePost, Trouble, TypeOK
<1> QED BY <1>2, <1>3, <1>4, <1>5

LEMMA ConfigSteps ==
  ASSUME IInv, ReadConfig \/ \E t \in Tabs : SaveConfig(t)
  PROVE  IInv'
<1>1. tab \in [Tabs -> Tab] /\ TypeOK
  BY DEF IInv, TypeOK
<1>2. CASE ReadConfig
  BY <1>1, <1>2, ConfigTypes, StoreTypes, PagesOnly DEF ReadConfig, TypeOK
<1>3. ASSUME NEW t \in Tabs, SaveConfig(t) PROVE IInv'
  <2>1. PICK enabled \in BOOLEAN, s \in Schedules, k \in Keeps :
          LET cfg == WithDue([Loaded EXCEPT !.enabled = enabled, !.sched = s, !.keep = k])
              r == [tab[t] EXCEPT !.cfg = cfg]
          IN /\ Store(cfg)
             /\ \E b \in Begin(r) : tab' = [tab EXCEPT ![t] = IF enabled /\ ~r.busy THEN b ELSE r]
    BY <1>3 DEF SaveConfig
  <2> DEFINE cfg == WithDue([Loaded EXCEPT !.enabled = enabled, !.sched = s, !.keep = k])
             r == [tab[t] EXCEPT !.cfg = cfg]
  <2>2. cfg \in Config
    <3>1. [Loaded EXCEPT !.enabled = enabled, !.sched = s, !.keep = k] \in Config
      BY <1>1, ConfigTypes DEF Config
    <3> QED BY <1>1, <3>1, ConfigTypes
  <2>3. Store(cfg) /\ \E b \in Begin(r) : tab' = [tab EXCEPT ![t] = IF enabled /\ ~r.busy THEN b ELSE r]
    BY <2>1
  <2> HIDE DEF cfg
  <2>4. r \in Tab
    BY <1>1, <2>2 DEF Tab
  <2> HIDE DEF r
  <2>5. tab' \in [Tabs -> Tab]
    BY <1>1, <2>3, <2>4, PageTypes
  <2> QED BY <1>1, <1>3, <2>2, <2>3, <2>5, StoreTypes, PagesOnly DEF SaveConfig, TypeOK
<1> QED BY <1>2, <1>3

\* A snapshot that ends, or whose page goes, leaves the files.
LEMMA ReloadStep ==
  ASSUME IInv, NEW t \in Tabs, Reload(t)
  PROVE  IInv'
<1>1. tab' \in [Tabs -> Tab] /\ trouble' \in 0..MaxTrouble
  BY PageTypes, BoundAssumption DEF IInv, TypeOK, Reload, Trouble, Page, Tab
<1>2. op' \in Op \cup {None}
  BY DEF IInv, TypeOK, Reload, Op
<1>3. /\ op' = None <=> op = None
      /\ op # None => op'.stage = op.stage /\ op'.kind = op.kind /\ op'.pcOnly = op.pcOnly
  BY NoneAssumption DEF IInv, TypeOK, Reload, Op
<1> QED BY <1>1, <1>2, <1>3 DEF IInv, TypeOK, Ages, Stages, Fresh, Reload

-----------------------------------------------------------------------------
(* The steps of a snapshot.                                                 *)

LEMMA ReceiveStep ==
  ASSUME IInv, NEW t \in Tabs, Receive(t) \/ ReceiveOther(t)
  PROVE  IInv'
<1>1. Loaded \in Config
  BY ConfigTypes DEF IInv
<1>2. op' \in Op /\ op'.stage \in {"file", "config"} /\ (op'.stage = "config" => op'.pcOnly /\ op'.kind = "auto")
      /\ (op'.stage = "file" => ~op'.pcOnly /\ made < MaxMade)
  <2>1. CASE Receive(t)
    BY <1>1, <2>1 DEF Receive, Op, Kinds, IInv, TypeOK, Tab
  <2>2. CASE ReceiveOther(t)
    BY <1>1, <2>2 DEF ReceiveOther, Op, Kinds
  <2> QED BY <2>1, <2>2
<1>3. tab' \in [Tabs -> Tab]
  <2>1. [tab[t] EXCEPT !.pc = "wait"] \in Tab
    BY DEF IInv, TypeOK, Tab
  <2> QED BY <2>1 DEF Receive, ReceiveOther, IInv, TypeOK
<1>4. UNCHANGED <<now, config, files, made, trouble>>
  BY DEF Receive, ReceiveOther
<1>5. Stages' /\ Fresh'
  BY <1>2, <1>4 DEF Stages, Fresh
<1> HIDE DEF Receive, ReceiveOther
<1> QED BY <1>2, <1>3, <1>4, <1>5 DEF IInv, TypeOK, Ages

\* The next file: newer than the others.
LEMMA NextFile ==
  ASSUME IInv, op # None, made < MaxMade, NEW whole \in BOOLEAN,
         made' = made + 1, files' = files \cup {NewFile(made + 1, whole)}
  PROVE  /\ files' \subseteq File /\ \A f, g \in files' : f.name = g.name => f = g
         /\ IsFiniteSet(files') /\ made' \in 0..MaxMade /\ Ages'
         /\ whole => \E f \in files' : f.name = made' /\ f.name # 0 /\ f.whole /\ f.kind = op.kind
<1> DEFINE f0 == NewFile(made + 1, whole)
<1>1. made \in Nat /\ made' \in 1..MaxMade /\ op.kind \in Kinds
  BY BoundAssumption DEF IInv, TypeOK, Op
<1>2. f0 \in File /\ f0.name = made' /\ f0.mtime = made' /\ f0.whole = whole /\ f0.kind = op.kind
  BY <1>1 DEF NewFile, File
<1> HIDE DEF f0
<1>3. \A f \in files : f \in File /\ f.name \in Nat /\ f.mtime \in Nat /\ f.name <= made /\ f.mtime <= made
                       /\ (f.name # 0 => f.mtime = f.name)
  BY BoundAssumption DEF IInv, TypeOK, Ages, File
<1>4. files' = files \cup {f0}
  BY DEF f0
<1>5. IsFiniteSet(files')
  BY <1>4, FS_AddElement DEF IInv
<1>6. files' \subseteq File /\ \A f, g \in files' : f.name = g.name => f = g
  <2>1. \A f, g \in files : f.name = g.name => f = g
    BY DEF IInv, TypeOK
  <2>2. \A f \in files : f.name # f0.name
    BY <1>1, <1>2, <1>3
  <2> QED BY <1>2, <1>3, <1>4, <2>1, <2>2
<1>7. Ages'
  BY <1>1, <1>2, <1>3, <1>4 DEF Ages
<1> QED BY <1>1, <1>2, <1>4, <1>5, <1>6, <1>7

LEMMA WriteFileStep ==
  ASSUME IInv, WriteFile
  PROVE  IInv'
<1>1. op \in Op /\ op # None /\ op.stage = "file" /\ made < MaxMade /\ made \in Nat
  BY DEF WriteFile, IInv, TypeOK, Stages
<1>2. UNCHANGED <<now, config, tab>> /\ trouble' \in 0..MaxTrouble
  <2>1. UNCHANGED <<now, config, tab>>
    BY DEF WriteFile
  <2>2. trouble' = trouble \/ Trouble
    BY DEF WriteFile
  <2> QED BY <2>1, <2>2, BoundAssumption DEF Trouble, IInv, TypeOK
<1>3. CASE ~op.cfg.path
  <2>1. op' \in Op /\ op'.stage = "reply" /\ UNCHANGED <<files, made>>
    BY <1>1, <1>3 DEF WriteFile, Op
  <2> QED BY <1>2, <2>1 DEF IInv, TypeOK, Ages, Stages, Fresh
<1>4. CASE op.cfg.path
  <2>1. made' = made + 1 /\ made' \in 1..MaxMade
    BY <1>1, <1>4, BoundAssumption DEF WriteFile
  <2>2. CASE files' = files \cup {NewFile(made + 1, TRUE)} /\ op' = [op EXCEPT !.stage = "latest"]
    <3>1. op' \in Op /\ op'.stage = "latest" /\ op'.kind = op.kind
      BY <1>1, <2>1, <2>2 DEF Op
    <3>2. /\ files' \subseteq File /\ \A f, g \in files' : f.name = g.name => f = g
          /\ IsFiniteSet(files') /\ made' \in 0..MaxMade /\ Ages'
          /\ \E f \in files' : f.name = made' /\ f.name # 0 /\ f.whole /\ f.kind = op.kind
      BY <1>1, <2>1, <2>2, NextFile
    <3>3. Stages' /\ Fresh'
      BY <3>1, <3>2 DEF Stages, Fresh
    <3> QED BY <1>2, <3>1, <3>2, <3>3 DEF IInv, TypeOK
  <2>3. CASE files' \in {files, files \cup {NewFile(made + 1, FALSE)}} /\ op' = [op EXCEPT !.stage = "reply", !.ok = FALSE]
    <3>1. op' \in Op /\ op'.stage = "reply"
      BY <1>1, <2>3 DEF Op
    <3>2. /\ files' \subseteq File /\ \A f, g \in files' : f.name = g.name => f = g
          /\ IsFiniteSet(files') /\ made' \in 0..MaxMade /\ Ages'
      <4>1. CASE files' = files
        BY <1>1, <2>1, <4>1, BoundAssumption DEF IInv, TypeOK, Ages, File
      <4>2. CASE files' = files \cup {NewFile(made + 1, FALSE)}
        BY <1>1, <2>1, <4>2, NextFile
      <4> QED BY <2>3, <4>1, <4>2
    <3>3. Stages' /\ Fresh'
      BY <3>1 DEF Stages, Fresh
    <3> QED BY <1>2, <3>1, <3>2, <3>3 DEF IInv, TypeOK
  <2> QED BY <1>1, <1>4, <2>2, <2>3 DEF WriteFile
<1> QED BY <1>3, <1>4

\* latest.json is replaced; the other files stay.
LEMMA Latest ==
  ASSUME IInv, op # None, NEW whole \in BOOLEAN, made' = made,
         files' = {f \in files : f.name # 0} \cup {[NewFile(0, whole) EXCEPT !.mtime = made]}
  PROVE  /\ files' \subseteq File /\ \A f, g \in files' : f.name = g.name => f = g
         /\ IsFiniteSet(files') /\ Ages'
<1> DEFINE f0 == [NewFile(0, whole) EXCEPT !.mtime = made]
           old == {f \in files : f.name # 0}
<1>1. made \in Nat /\ made \in 0..MaxMade /\ op.kind \in Kinds
  BY BoundAssumption DEF IInv, TypeOK, Op
<1>2. f0 \in File /\ f0.name = 0 /\ f0.mtime = made
  BY <1>1, BoundAssumption DEF NewFile, File
<1>3. files' = old \cup {f0}
  OBVIOUS
<1> HIDE DEF f0
<1>4. IsFiniteSet(files')
  <2>1. IsFiniteSet(old)
    BY FS_Subset DEF IInv
  <2> QED BY <1>3, <2>1, FS_AddElement
<1>5. files' \subseteq File /\ \A f, g \in files' : f.name = g.name => f = g
  BY <1>2, <1>3 DEF IInv, TypeOK
<1>6. Ages'
  BY <1>1, <1>2, <1>3 DEF Ages, IInv
<1> QED BY <1>4, <1>5, <1>6

LEMMA WriteLatestStep ==
  ASSUME IInv, WriteLatest
  PROVE  IInv'
<1>1. op \in Op /\ op # None /\ op.stage = "latest"
  BY DEF WriteLatest, IInv, TypeOK
<1>2. UNCHANGED <<now, config, made, tab>> /\ trouble' \in 0..MaxTrouble
  BY BoundAssumption DEF WriteLatest, Trouble, IInv, TypeOK
<1>3. PICK whole \in BOOLEAN :
        files' = {f \in files : f.name # 0} \cup {[NewFile(0, whole) EXCEPT !.mtime = made]}
  BY DEF WriteLatest
<1>4. files' \subseteq File /\ (\A f, g \in files' : f.name = g.name => f = g) /\ IsFiniteSet(files') /\ Ages'
  BY <1>1, <1>2, <1>3, Latest
<1>5. op' \in Op /\ op'.kind = op.kind /\ op'.pcOnly = op.pcOnly
      /\ (op'.stage = "reply" \/ (op'.stage = "config" /\ op.kind = "auto"))
  BY <1>1 DEF WriteLatest, Op
<1>6. Stages' /\ Fresh'
  <2>1. ~op.pcOnly => \E f \in files' : f.name = made /\ f.name # 0 /\ f.whole /\ f.kind = op.kind
    BY <1>1, <1>3 DEF IInv, Fresh
  <2> QED BY <1>2, <1>5, <2>1 DEF Stages, Fresh
<1> QED BY <1>2, <1>4, <1>5, <1>6 DEF IInv, TypeOK

LEMMA RecordStep ==
  ASSUME IInv, Record
  PROVE  IInv'
<1>1. op \in Op /\ op # None /\ op.stage = "config" /\ op.kind = "auto" /\ TypeOK
  BY DEF Record, IInv, TypeOK, Stages
<1> DEFINE cfg == [op.cfg EXCEPT !.last = now, !.due = NextDue(op.cfg.sched, now)]
<1>2. cfg \in Config
  <2>1. op.cfg \in Config /\ now \in 0..MaxNow
    BY <1>1 DEF Op, TypeOK
  <2>2. NextDue(op.cfg.sched, now) \in Int
    <3>1. op.cfg.sched \in Schedule /\ now \in Int
      BY <2>1, ScheduleAssumption, BoundAssumption DEF Config
    <3> QED BY <3>1, NextDueInt
  <2> QED BY <2>1, <2>2 DEF Config
<1>3. /\ Store(cfg) /\ UNCHANGED <<now, files, made, tab>>
      /\ op' = [op EXCEPT !.cfg = cfg, !.stage = IF op.pcOnly THEN "reply" ELSE "prune"]
  BY DEF Record
<1> HIDE DEF cfg
<1>4. op' \in Op /\ op'.kind = "auto" /\ op'.pcOnly = op.pcOnly
      /\ op'.stage = (IF op.pcOnly THEN "reply" ELSE "prune")
  BY <1>1, <1>2, <1>3 DEF Op
<1>5. Stages' /\ Fresh'
  BY <1>1, <1>3, <1>4 DEF IInv, Stages, Fresh
<1> QED BY <1>1, <1>2, <1>3, <1>4, <1>5, StoreTypes DEF IInv, TypeOK, Ages

\* Fewer files are fine.
LEMMA FewerFiles ==
  ASSUME IInv, made' = made, files' \subseteq files
  PROVE  /\ files' \subseteq File /\ \A f, g \in files' : f.name = g.name => f = g
         /\ IsFiniteSet(files') /\ Ages'
BY FS_Subset DEF IInv, TypeOK, Ages

LEMMA PruneStep ==
  ASSUME IInv, Prune
  PROVE  IInv'
<1>1. op \in Op /\ op # None /\ TypeOK
  BY DEF Prune, IInv, TypeOK
<1>2. UNCHANGED <<now, config, made, tab>> /\ files' \subseteq files
  BY DEF Prune
<1>3. trouble' \in 0..MaxTrouble
  <2>1. trouble' = trouble \/ Trouble
    BY DEF Prune
  <2> QED BY <1>1, <2>1, BoundAssumption DEF Trouble, TypeOK
<1>4. op' \in Op /\ op'.stage = "reply"
  BY <1>1 DEF Prune, Op
<1>5. Stages' /\ Fresh'
  BY <1>4 DEF Stages, Fresh
<1> QED BY <1>1, <1>2, <1>3, <1>4, <1>5, FewerFiles DEF IInv, TypeOK

LEMMA ReplyStep ==
  ASSUME IInv, Reply
  PROVE  IInv'
<1>1. op \in Op /\ op # None /\ tab \in [Tabs -> Tab] /\ trouble \in 0..MaxTrouble
  BY DEF Reply, IInv, TypeOK
<1>2. op' = None /\ UNCHANGED <<now, config, files, made>>
  BY DEF Reply
<1>3. tab' \in [Tabs -> Tab]
  <2>1. CASE op.tab = None
    BY <1>1, <2>1 DEF Reply
  <2>2. CASE op.tab # None
    <3>1. op.tab \in Tabs
      BY <1>1, <2>2 DEF Op
    <3>2. Answered(tab[op.tab]) \in Tab /\ Failed(tab[op.tab]) \in Tab
      BY <1>1, <3>1, AnsweredType, PageTypes
    <3>3. \/ tab' = [tab EXCEPT ![op.tab] = Answered(tab[op.tab])]
          \/ tab' = [tab EXCEPT ![op.tab] = Failed(tab[op.tab])]
          \/ tab' = tab
      BY <1>1, <2>2, <3>1 DEF Reply
    <3> QED BY <1>1, <3>1, <3>2, <3>3
  <2> QED BY <2>1, <2>2
<1>4. trouble' \in 0..MaxTrouble
  <2>1. trouble' = trouble \/ Trouble
    BY DEF Reply
  <2> QED BY <1>1, <2>1, BoundAssumption DEF Trouble
<1> QED BY <1>2, <1>3, <1>4 DEF IInv, TypeOK, Ages, Stages, Fresh

\* What a crash leaves of the files and the configuration.
LEMMA CrashEffect ==
  ASSUME Crash
  PROVE  \/ /\ op.stage = "file" /\ made' = made + 1 /\ UNCHANGED config
            /\ files' = files \cup {NewFile(made + 1, FALSE)}
         \/ /\ UNCHANGED <<made, config>>
            /\ files' = {f \in files : f.name # 0} \cup {[NewFile(0, FALSE) EXCEPT !.mtime = made]}
         \/ /\ op.stage = "prune" /\ UNCHANGED <<made, config>>
            /\ \E gone \in SUBSET Doomed(op.cfg) : files' = files \ gone
         \/ UNCHANGED <<made, files>> /\ config' \in {config, None}
<1>1. CASE op.stage = "file" /\ op.cfg.path
  BY <1>1 DEF Crash
<1>2. CASE op.stage = "latest"
  BY <1>2 DEF Crash
<1>3. CASE op.stage = "config"
  BY <1>3 DEF Crash
<1>4. CASE op.stage = "prune"
  BY <1>4 DEF Crash
<1>5. CASE ~(op.stage = "file" /\ op.cfg.path) /\ op.stage \notin {"latest", "config", "prune"}
  BY <1>5 DEF Crash
<1> QED BY <1>1, <1>2, <1>3, <1>4, <1>5

LEMMA CrashStep ==
  ASSUME IInv, Crash
  PROVE  IInv'
<1>1. op \in Op /\ op # None /\ tab \in [Tabs -> Tab] /\ TypeOK
  BY DEF Crash, IInv, TypeOK
<1>2. op' = None /\ now' = now /\ trouble' \in 0..MaxTrouble
  <2>1. op' = None /\ now' = now /\ Trouble
    BY DEF Crash
  <2> QED BY <1>1, <2>1, BoundAssumption DEF Trouble, TypeOK
<1>3. tab' \in [Tabs -> Tab]
  <2>1. op.tab # None => op.tab \in Tabs /\ Failed(tab[op.tab]) \in Tab
    BY <1>1, PageTypes DEF Op
  <2>2. tab' = IF op.tab # None /\ op.kind = "auto" THEN [tab EXCEPT ![op.tab] = Failed(tab[op.tab])] ELSE tab
    BY DEF Crash
  <2> QED BY <1>1, <2>1, <2>2
<1>4. config' \in Config \cup {None}
  BY <1>1, CrashEffect DEF TypeOK
<1>5. /\ files' \subseteq File /\ \A f, g \in files' : f.name = g.name => f = g
      /\ IsFiniteSet(files') /\ made' \in 0..MaxMade /\ Ages'
  <2>1. CASE op.stage = "file" /\ made' = made + 1 /\ files' = files \cup {NewFile(made + 1, FALSE)}
    <3>1. made < MaxMade
      BY <1>1, <2>1 DEF IInv, Stages
    <3> QED BY <1>1, <2>1, <3>1, NextFile
  <2>2. CASE made' = made /\ files' = {f \in files : f.name # 0} \cup {[NewFile(0, FALSE) EXCEPT !.mtime = made]}
    BY <1>1, <2>2, Latest DEF TypeOK
  <2>3. CASE made' = made /\ \E gone \in SUBSET Doomed(op.cfg) : files' = files \ gone
    <3>1. files' \subseteq files
      BY <2>3
    <3> QED BY <1>1, <2>3, <3>1, FewerFiles DEF TypeOK
  <2>4. CASE UNCHANGED <<made, files>>
    BY <1>1, <2>4 DEF IInv, TypeOK, Ages
  <2> QED BY <2>1, <2>2, <2>3, <2>4, CrashEffect
<1> QED BY <1>2, <1>3, <1>4, <1>5 DEF IInv, TypeOK, Stages, Fresh

-----------------------------------------------------------------------------
(* The invariant.                                                           *)

LEMMA InitInv == ASSUME Init PROVE IInv
<1>1. PICK s \in Schedules, k \in Keeps, enabled, path \in BOOLEAN :
        config = [DefaultConfig EXCEPT !.path = path, !.enabled = enabled, !.sched = s, !.keep = k]
  BY DEF Init
<1>2. config \in Config
  <2>1. DefaultConfig \in Config
    <3>1. (CHOOSE c \in Schedules : c.kind = "every") \in Schedules /\ (CHOOSE c \in Keeps : TRUE) \in Keeps
      BY DefaultAssumption
    <3> QED BY <3>1 DEF DefaultConfig, Config
  <2> QED BY <1>1, <2>1 DEF Config
<1>3. TypeOK
  BY <1>2, PageTypes, BoundAssumption DEF Init, TypeOK, Page, Tab
<1> QED BY <1>3, FS_EmptySet DEF Init, IInv, Ages, Stages, Fresh

LEMMA StepInv == ASSUME IInv, [Next]_vars PROVE IInv'
<1>1. CASE Advance
  BY <1>1, BoundAssumption, PagesOnly DEF Advance, IInv, TypeOK
<1>2. CASE ReadConfig \/ \E t \in Tabs : SaveConfig(t)
  BY <1>2, ConfigSteps
<1>3. CASE Server
  BY <1>3, WriteFileStep, WriteLatestStep, RecordStep, PruneStep, ReplyStep DEF Server
<1>4. CASE Crash
  BY <1>4, CrashStep
<1>5. CASE \E t \in Tabs : Tick(t) \/ Render(t) \/ LoseList(t) \/ LosePost(t)
  BY <1>5, PageSteps
<1>6. CASE \E t \in Tabs : Reload(t)
  BY <1>6, ReloadStep
<1>7. CASE \E t \in Tabs : Receive(t) \/ ReceiveOther(t)
  BY <1>7, ReceiveStep
<1>8. CASE UNCHANGED vars
  BY <1>8, PagesOnly DEF vars, IInv, TypeOK
<1> QED BY <1>1, <1>2, <1>3, <1>4, <1>5, <1>6, <1>7, <1>8 DEF Next

LEMMA Invariance == Spec => []IInv
BY InitInv, StepInv, PTL DEF Spec

\* The types hold (backup.rs, backup.js): a name stands for one file, whatever is cut
\* short or overwritten.
THEOREM TypeCorrect == Spec => []TypeOK
<1>1. IInv => TypeOK
  BY DEF IInv
<1> QED BY <1>1, Invariance, PTL

\* The configuration's next and last scheduled times are exact at every moment
\* (due_next, backup.rs:447-459).
THEOREM ScheduleExactHolds == Spec => []ScheduleExact
<1>1. ASSUME IInv PROVE ScheduleExact
  <2>1. Loaded.sched \in Schedule /\ now \in Int
    BY <1>1, ConfigTypes, ScheduleAssumption, BoundAssumption DEF IInv, TypeOK, Config
  <2> QED BY <2>1, SchedulesExact DEF ScheduleExact
<1> QED BY <1>1, Invariance, PTL

-----------------------------------------------------------------------------
(* The last complete automatic backup.                                      *)

\* A file with enough older ones is not among the n oldest.
LEMMA NotOldest ==
  ASSUME NEW fs, IsFiniteSet(fs), NEW n \in Int, NEW f0,
         NEW older \in SUBSET fs, Cardinality(older) >= n,
         \A g \in older : g.mtime < f0.mtime
  PROVE  f0 \notin Oldest(fs, n)
<1> DEFINE before == {g \in fs : g.mtime < f0.mtime \/ (g.mtime = f0.mtime /\ g.name > f0.name)}
<1>1. older \subseteq before /\ before \subseteq fs
  OBVIOUS
<1>2. IsFiniteSet(before)
  BY <1>1, FS_Subset
<1>3. Cardinality(before) >= Cardinality(older) /\ Cardinality(before) \in Nat /\ Cardinality(older) \in Nat
  <2>1. IsFiniteSet(older)
    BY FS_Subset
  <2> QED BY <1>1, <1>2, <2>1, FS_Subset, FS_CardinalityType
<1>4. ~(Cardinality(before) < n)
  BY <1>3
<1> HIDE DEF before
<1>5. f0 \in Oldest(fs, n) => Cardinality(before) < n
  BY DEF Oldest, before
<1> QED BY <1>4, <1>5

\* A pruning keeps the file it was written for: one automatic backup is kept at least,
\* and the cap leaves room for latest.json and one more.
LEMMA NewestKept ==
  ASSUME IInv, op # None, op.stage = "prune"
  PROVE  \E f \in Usable : f \notin Doomed(op.cfg)
<1>1. op \in Op /\ op.kind = "auto" /\ ~op.pcOnly /\ TypeOK /\ IsFiniteSet(files)
  BY DEF IInv, TypeOK, Stages
<1>2. PICK f0 \in files : f0.name = made /\ f0.name # 0 /\ f0.whole /\ f0.kind = op.kind
  BY DEF IInv, Fresh, Stages
<1>3. \A f \in files : f.name \in Nat /\ f.mtime \in Nat /\ f.mtime <= made /\ (f.name # 0 => f.mtime = f.name)
  BY <1>1, BoundAssumption DEF IInv, TypeOK, Ages, File
<1>4. \A f \in files : f.name # 0 /\ f # f0 => f.mtime < f0.mtime
  BY <1>1, <1>2, <1>3 DEF TypeOK
<1> DEFINE autos == {f \in files : f.kind = "auto" /\ f.name # 0}
<1>5. IsFiniteSet(autos) /\ f0 \in autos /\ Cardinality(autos) \in Nat /\ Cardinality(files) \in Nat
  BY <1>1, <1>2, FS_Subset, FS_CardinalityType
<1>6. f0 \notin Oldest(autos, Cardinality(autos) - op.cfg.keep)
  <2>1. op.cfg.keep \in Nat \ {0}
    BY <1>1, ScheduleAssumption DEF Op, Config
  <2>2. Cardinality(autos \ {f0}) = Cardinality(autos) - 1
    BY <1>5, FS_RemoveElement
  <2>3. \A g \in autos \ {f0} : g.mtime < f0.mtime
    BY <1>4
  <2> HIDE DEF autos
  <2>4. Cardinality(autos \ {f0}) >= Cardinality(autos) - op.cfg.keep /\ Cardinality(autos) - op.cfg.keep \in Int
    BY <1>5, <2>1, <2>2
  <2> QED BY <1>5, <2>3, <2>4, NotOldest
<1>7. f0 \notin Oldest(files, Cardinality(files) - MaxFiles)
  <2> DEFINE rest == {f \in files : f.name # 0} \ {f0}
  <2>1. Cardinality(rest) >= Cardinality(files) - 2
    <3> DEFINE named == {f \in files : f.name # 0}
    <3>1. IsFiniteSet(named) /\ f0 \in named /\ Cardinality(named) \in Nat
      BY <1>1, <1>2, FS_Subset, FS_CardinalityType
    <3>2. Cardinality(rest) = Cardinality(named) - 1
      BY <3>1, FS_RemoveElement
    <3>3. Cardinality(named) >= Cardinality(files) - 1
      <4>1. CASE \E f \in files : f.name = 0
        <5>1. PICK l \in files : l.name = 0
          BY <4>1
        <5>2. named = files \ {l}
          BY <1>1, <5>1 DEF TypeOK
        <5>3. Cardinality(files \ {l}) = Cardinality(files) - 1
          BY <1>1, <5>1, FS_RemoveElement
        <5> HIDE DEF named
        <5> QED BY <1>5, <5>2, <5>3
      <4>2. CASE \A f \in files : f.name # 0
        <5>1. named = files
          BY <4>2
        <5> HIDE DEF named
        <5> QED BY <1>5, <5>1
      <4> QED BY <4>1, <4>2
    <3> HIDE DEF named, rest
    <3> QED BY <1>5, <3>1, <3>2, <3>3
  <2>2. rest \subseteq files /\ \A g \in rest : g.mtime < f0.mtime
    BY <1>4
  <2>3. IsFiniteSet(rest) /\ Cardinality(rest) \in Nat
    BY <1>1, <2>2, FS_Subset, FS_CardinalityType
  <2> HIDE DEF rest
  <2>4. Cardinality(rest) >= Cardinality(files) - MaxFiles /\ Cardinality(files) - MaxFiles \in Int
    BY <1>5, <2>1, <2>3, CapAssumption
  <2> QED BY <1>1, <2>2, <2>4, NotOldest
<1>8. f0 \in Usable
  BY <1>1, <1>2 DEF Usable
<1>9. Doomed(op.cfg) = Oldest(autos, Cardinality(autos) - op.cfg.keep) \cup Oldest(files, Cardinality(files) - MaxFiles)
  BY DEF Doomed
<1> HIDE DEF autos
<1> QED BY <1>6, <1>7, <1>8, <1>9

\* Every step but a removal leaves the named files.
LEMMA NamedStay ==
  ASSUME [Next]_vars
  PROVE  \/ \A f \in files : f.name # 0 => f \in files'
         \/ op # None /\ op.stage = "prune" /\ \E gone \in SUBSET Doomed(op.cfg) : files' = files \ gone
<1>1. CASE WriteFile
  BY <1>1 DEF WriteFile
<1>2. CASE WriteLatest
  BY <1>2 DEF WriteLatest
<1>3. CASE Prune
  BY <1>3 DEF Prune
<1>4. CASE Crash
  <2>1. op # None
    BY <1>4 DEF Crash
  <2> QED BY <1>4, <2>1, CrashEffect
<1>5. CASE Record \/ Reply \/ Advance \/ ReadConfig
  BY <1>5 DEF Record, Reply, Advance, ReadConfig
<1>6. ASSUME NEW t \in Tabs, Tick(t) \/ Render(t) \/ LoseList(t) \/ LosePost(t) \/ Reload(t)
                              \/ SaveConfig(t) \/ Receive(t) \/ ReceiveOther(t)
      PROVE  files' = files
  BY <1>6 DEF Tick, Render, LoseList, LosePost, Reload, SaveConfig, Receive, ReceiveOther
<1>7. CASE UNCHANGED vars
  BY <1>7 DEF vars
<1> QED BY <1>1, <1>2, <1>3, <1>4, <1>5, <1>6, <1>7 DEF Next, Server

\* Once the folder has a complete automatic backup it always has one: neither pruning,
\* errors nor a crash remove the last (prune, write_snapshot; backup.rs:284-344).
THEOREM OneIsLeftHolds == Spec => OneIsLeft
<1>1. ASSUME IInv, [Next]_vars, Usable # {} PROVE Usable' # {}
  <2>1. CASE \A f \in files : f.name # 0 => f \in files'
    BY <1>1, <2>1 DEF Usable
  <2>2. CASE op # None /\ op.stage = "prune" /\ \E gone \in SUBSET Doomed(op.cfg) : files' = files \ gone
    <3>1. PICK f \in Usable : f \notin Doomed(op.cfg)
      BY <1>1, <2>2, NewestKept
    <3>2. f \in files'
      BY <2>2, <3>1 DEF Usable
    <3> QED BY <3>1, <3>2 DEF Usable
  <2> QED BY <1>1, <2>1, <2>2, NamedStay
<1>2. IInv /\ [Next]_vars => [Usable # {} => Usable' # {}]_vars
  BY <1>1
<1> QED BY <1>2, Invariance, PTL DEF Spec, OneIsLeft

-----------------------------------------------------------------------------
(* The cap.                                                                 *)

\* The files of a set that come before one of them.
Earlier(fs, f) == {g \in fs : g.mtime < f.mtime \/ (g.mtime = f.mtime /\ g.name > f.name)}

\* Of two files with different names one comes before the other, and with it all that come
\* before it.
LEMMA RankGrows ==
  ASSUME NEW fs, IsFiniteSet(fs), \A f \in fs : f.name \in Nat /\ f.mtime \in Nat,
         NEW f \in fs, NEW g \in fs, g \in Earlier(fs, f)
  PROVE  Cardinality(Earlier(fs, g)) < Cardinality(Earlier(fs, f))
<1>1. Earlier(fs, g) \cup {g} \subseteq Earlier(fs, f) /\ g \notin Earlier(fs, g)
  BY DEF Earlier
<1>2. IsFiniteSet(Earlier(fs, g)) /\ IsFiniteSet(Earlier(fs, f))
  BY FS_Subset DEF Earlier
<1>3. /\ IsFiniteSet(Earlier(fs, g) \cup {g})
      /\ Cardinality(Earlier(fs, g) \cup {g}) = Cardinality(Earlier(fs, g)) + 1
  BY <1>1, <1>2, FS_AddElement
<1>4. /\ Cardinality(Earlier(fs, g)) \in Nat /\ Cardinality(Earlier(fs, f)) \in Nat
      /\ Cardinality(Earlier(fs, g) \cup {g}) <= Cardinality(Earlier(fs, f))
  BY <1>1, <1>2, <1>3, FS_Subset, FS_CardinalityType
<1> QED BY <1>3, <1>4

\* Without its n oldest files a folder has n fewer.
LEMMA OldestGone ==
  ASSUME NEW fs, IsFiniteSet(fs), NEW n \in Nat, n <= Cardinality(fs),
         \A f \in fs : f.name \in Nat /\ f.mtime \in Nat,
         \A f, g \in fs : f.name = g.name => f = g
  PROVE  /\ IsFiniteSet(fs \ Oldest(fs, n))
         /\ Cardinality(fs \ Oldest(fs, n)) <= Cardinality(fs) - n
<1> DEFINE K == fs \ Oldest(fs, n)
           c == Cardinality(fs)
           rank == [f \in K |-> Cardinality(Earlier(fs, f))]
<1>1. c \in Nat /\ IsFiniteSet(K)
  BY FS_CardinalityType, FS_Subset
<1>2. ASSUME NEW f \in K PROVE rank[f] \in n .. c - 1
  <2>1. Earlier(fs, f) \subseteq fs \ {f} /\ f \in fs
    BY DEF Earlier
  <2>2. IsFiniteSet(fs \ {f}) /\ Cardinality(fs \ {f}) = c - 1
    BY <2>1, FS_RemoveElement
  <2>3. Cardinality(Earlier(fs, f)) \in Nat /\ Cardinality(Earlier(fs, f)) <= c - 1
    BY <2>1, <2>2, FS_Subset, FS_CardinalityType
  <2>4. ~(Cardinality(Earlier(fs, f)) < n)
    BY DEF Oldest, Earlier
  <2> HIDE DEF c
  <2> QED BY <1>1, <2>3, <2>4
<1>3. ASSUME NEW f \in K, NEW g \in K, rank[f] = rank[g] PROVE f = g
  <2>1. f = g \/ f \in Earlier(fs, g) \/ g \in Earlier(fs, f)
    BY DEF Earlier
  <2>2. /\ f \in Earlier(fs, g) => Cardinality(Earlier(fs, f)) < Cardinality(Earlier(fs, g))
        /\ g \in Earlier(fs, f) => Cardinality(Earlier(fs, g)) < Cardinality(Earlier(fs, f))
    BY RankGrows
  <2>3. Cardinality(Earlier(fs, f)) \in Nat /\ Cardinality(Earlier(fs, f)) = Cardinality(Earlier(fs, g))
    BY <1>2, <1>3
  <2> QED BY <2>1, <2>2, <2>3
<1> HIDE DEF rank
<1>4. rank \in Injection(K, n .. c - 1)
  <2>1. rank \in [K -> n .. c - 1]
    BY <1>2 DEF rank
  <2> QED BY <1>3, <2>1 DEF Injection, IsInjective
<1>5. IsFiniteSet(n .. c - 1) /\ Cardinality(n .. c - 1) = c - n
  <2> HIDE DEF c
  <2>1. n \in Int /\ c - 1 \in Int
    BY <1>1
  <2>2. /\ IsFiniteSet(n .. c - 1)
        /\ Cardinality(n .. c - 1) = IF n > c - 1 THEN 0 ELSE (c - 1) - n + 1
    BY <2>1, FS_Interval
  <2>3. n <= c
    BY DEF c
  <2>4. (IF n > c - 1 THEN 0 ELSE (c - 1) - n + 1) = c - n
    BY <1>1, <2>3
  <2> QED BY <2>2, <2>4
<1>6. Cardinality(K) <= Cardinality(n .. c - 1)
  BY <1>4, <1>5, FS_Injection
<1> QED BY <1>1, <1>5, <1>6

\* A pruning that can remove what it means to leaves no more files than the cap, latest.json
\* and the copies of restores and imports counted (prune, backup.rs:300-344).
THEOREM CapKeptHolds == Spec => CapKept
<1>1. ASSUME IInv, Prune, trouble' = trouble PROVE Cardinality(files') <= MaxFiles
  <2>1. TypeOK /\ IsFiniteSet(files) /\ Cardinality(files) \in Nat /\ MaxFiles \in Nat
    BY <1>1, FS_CardinalityType, CapAssumption DEF IInv
  <2>2. /\ \A f \in files : f.name \in Nat /\ f.mtime \in Nat
        /\ \A f, g \in files : f.name = g.name => f = g
    BY <2>1, BoundAssumption DEF TypeOK, File
  <2>3. trouble \in Int /\ ~Trouble
    <3>1. trouble \in Int
      BY <2>1, BoundAssumption DEF TypeOK
    <3> QED BY <1>1, <3>1 DEF Trouble
  <2> DEFINE n == Cardinality(files) - MaxFiles
  <2>4. files' \subseteq files \ Oldest(files, n)
    BY <1>1, <2>3 DEF Prune, Doomed
  <2>5. CASE Cardinality(files) <= MaxFiles
    <3>1. Cardinality(files') <= Cardinality(files) /\ Cardinality(files') \in Nat
      BY <2>1, <2>4, FS_Subset, FS_CardinalityType
    <3> QED BY <2>1, <2>5, <3>1
  <2>6. CASE MaxFiles < Cardinality(files)
    <3>1. n \in Nat /\ n <= Cardinality(files)
      BY <2>1, <2>6
    <3>2. /\ IsFiniteSet(files \ Oldest(files, n))
          /\ Cardinality(files \ Oldest(files, n)) <= Cardinality(files) - n
      BY <2>1, <2>2, <3>1, OldestGone
    <3>3. /\ Cardinality(files') <= Cardinality(files \ Oldest(files, n))
          /\ Cardinality(files') \in Nat /\ Cardinality(files \ Oldest(files, n)) \in Nat
      BY <2>4, <3>2, FS_Subset, FS_CardinalityType
    <3> QED BY <2>1, <3>2, <3>3
  <2> QED BY <2>1, <2>5, <2>6
<1>2. IInv /\ [Next]_vars => [Prune /\ trouble' = trouble => Cardinality(files') <= MaxFiles]_vars
  BY <1>1
<1> QED BY <1>2, Invariance, PTL DEF Spec, CapKept
=============================================================================
