------------------------------ MODULE Backups ------------------------------
(***************************************************************************)
(* Backups: the store of the server (crates/server/src/backup.rs) and the  *)
(* pages that take automatic backups (static/backup.js).                   *)
(*                                                                         *)
(* Every handler of the server works under one lock, from the load of the  *)
(* configuration to its reply; each file it writes may be cut short by an  *)
(* error or by the end of the process.  A page works on the configuration  *)
(* of the last reply it got.                                               *)
(***************************************************************************)
EXTENDS BackupSchedule, FiniteSets

CONSTANTS
    Tabs,         \* open pages
    Schedules,    \* schedules an operator sets
    Keeps,        \* numbers of automatic backups to keep
    MaxFiles,     \* cap on the files of the folder (300)
    Ahead,        \* how far the pages' clocks are ahead of the server's, in units
    None,
    MaxNow,       \* bound: time
    MaxMade,      \* bound: snapshots written
    MaxTrouble    \* bound: errors, crashes, lost messages and reloads

ASSUME ScheduleAssumption == Schedules \subseteq Schedule /\ Keeps \subseteq Nat \ {0}
ASSUME DefaultAssumption == (\E s \in Schedules : s.kind = "every") /\ Keeps # {}
ASSUME CapAssumption == MaxFiles \in Nat /\ MaxFiles >= 2
ASSUME BoundAssumption == MaxNow \in Nat /\ MaxMade \in Nat /\ MaxTrouble \in Nat

VARIABLES
    now,       \* the time
    config,    \* backup_config.json, or None when it is missing or does not parse
    files,     \* the json files of the folder
    made,      \* snapshots written so far
    op,        \* the snapshot the server is working on, or None
    tab,       \* the pages
    trouble    \* what went wrong so far

vars == <<now, config, files, made, op, tab, trouble>>

-----------------------------------------------------------------------------
(* Files and configuration.                                                 *)

Kinds == {"auto", "pre_restore", "import"}

\* latest.json is file 0.  Modification times follow the order of the writes.
File == [name: 0..MaxMade, kind: Kinds, mtime: 0..MaxMade, whole: BOOLEAN]

Config == [path: BOOLEAN, enabled: BOOLEAN, sched: Schedules, keep: Keeps,
           last: 0..MaxNow \cup {None}, due: Int]

\* default_config names no folder and is disabled; its schedule is every 5 minutes.
DefaultConfig ==
    [path |-> FALSE, enabled |-> FALSE, sched |-> CHOOSE s \in Schedules : s.kind = "every",
     keep |-> CHOOSE k \in Keeps : TRUE, last |-> None, due |-> 0]

\* load_config
Loaded == IF config = None THEN DefaultConfig ELSE config

\* A scheduled time has passed since the last automatic backup.
Missed(cfg) ==
    cfg.enabled /\ (cfg.last # None => LastScheduled(cfg.sched, now) > cfg.last)

\* Mutant: nothing is caught up.
NextOnly(cfg) == NextDue(cfg.sched, now)

\* due_next: now, if a backup was missed.
DueNext(cfg) == IF Missed(cfg) THEN now ELSE NextDue(cfg.sched, now)

WithDue(cfg) == [cfg EXCEPT !.due = DueNext(cfg)]

\* The n oldest of some files.
Oldest(fs, n) ==
    {f \in fs : Cardinality({g \in fs : g.mtime < f.mtime \/ (g.mtime = f.mtime /\ g.name > f.name)}) < n}

\* Mutant: the folder is sorted the other way.
Newest(cfg) ==
    LET autos == {f \in files : f.kind = "auto" /\ f.name # 0} IN
    autos \ Oldest(autos, cfg.keep)

\* Mutant: only automatic backups count against the cap.
AutosOnly(cfg) ==
    LET autos == {f \in files : f.kind = "auto" /\ f.name # 0} IN
    Oldest(autos, Cardinality(autos) - cfg.keep) \cup Oldest(autos, Cardinality(autos) - MaxFiles)

\* prune: all but the newest automatic backups, and what was over the cap before.
Doomed(cfg) ==
    LET autos == {f \in files : f.kind = "auto" /\ f.name # 0} IN
    Oldest(autos, Cardinality(autos) - cfg.keep) \cup Oldest(files, Cardinality(files) - MaxFiles)

-----------------------------------------------------------------------------
(* Pages.                                                                   *)

\* cfg is _cfg, busy _busy; pcOnly: the folder on the PC took the backup.
Tab == [pc: {"load", "idle", "post", "wait"}, cfg: Config \cup {None}, busy: BOOLEAN,
        pcOnly: BOOLEAN]

Page == [pc |-> "load", cfg |-> None, busy |-> FALSE, pcOnly |-> FALSE]

Op == [tab: Tabs \cup {None}, kind: Kinds, pcOnly: BOOLEAN, cfg: Config,
       stage: {"file", "latest", "config", "prune", "reply"}, ok: BOOLEAN]

ASSUME NoneAssumption == None \notin Op

TypeOK ==
    /\ now \in 0..MaxNow
    /\ config \in Config \cup {None}
    /\ files \subseteq File /\ \A f, g \in files : f.name = g.name => f = g
    /\ made \in 0..MaxMade
    /\ op \in Op \cup {None}
    /\ tab \in [Tabs -> Tab]
    /\ trouble \in 0..MaxTrouble

Init ==
    /\ now = 0 /\ files = {} /\ made = 0 /\ op = None /\ trouble = 0
    /\ \E s \in Schedules, k \in Keeps, enabled, path \in BOOLEAN :
         config = [DefaultConfig EXCEPT !.path = path, !.enabled = enabled, !.sched = s, !.keep = k]
    /\ tab = [t \in Tabs |-> Page]

Advance == now < MaxNow /\ now' = now + 1 /\ UNCHANGED <<config, files, made, op, tab, trouble>>

\* Something goes wrong once more.
Trouble == trouble < MaxTrouble /\ trouble' = trouble + 1

\* autoBackup starts: a save to the folder on the PC succeeds, or the server is asked
\* to keep the file.
Begin(r) == {[r EXCEPT !.busy = TRUE, !.pc = "post", !.pcOnly = p] : p \in BOOLEAN}

\* tick: the page reads the server's clock time as one of its own.
Tick(t) ==
    LET r == tab[t] IN
    /\ r.pc = "idle" /\ r.cfg # None /\ ~r.busy /\ r.cfg.enabled
    /\ now >= r.cfg.due - Ahead
    /\ \E b \in Begin(r) : tab' = [tab EXCEPT ![t] = b]
    /\ UNCHANGED <<now, config, files, made, op, trouble>>

\* render takes the reply of /list (list_read), on load and whenever the operator looks.
Render(t) ==
    /\ op = None
    /\ tab' = [tab EXCEPT ![t].cfg = WithDue(Loaded), ![t].pc = IF @ = "load" THEN "idle" ELSE @]
    /\ UNCHANGED <<now, config, files, made, op, trouble>>

\* A list that cannot be read is not asked for again.
LoseList(t) ==
    /\ Trouble
    /\ tab[t].pc = "load"
    /\ tab' = [tab EXCEPT ![t].pc = "idle"]
    /\ UNCHANGED <<now, config, files, made, op>>

\* A page that has saved on the PC goes on; one that has not leaves _busy set.
Failed(r) == [r EXCEPT !.pc = "idle", !.busy = r.busy /\ ~r.pcOnly]

LosePost(t) ==
    /\ Trouble
    /\ tab[t].pc = "post"
    /\ tab' = [tab EXCEPT ![t] = Failed(@)]
    /\ UNCHANGED <<now, config, files, made, op>>

Reload(t) ==
    /\ Trouble
    /\ tab' = [tab EXCEPT ![t] = Page]
    /\ op' = IF op # None /\ op.tab = t THEN [op EXCEPT !.tab = None] ELSE op
    /\ UNCHANGED <<now, config, files, made>>

-----------------------------------------------------------------------------
(* The server.                                                              *)

\* save_config: an error, which nobody looks at, leaves the file before or one that
\* does not parse.
Store(cfg) ==
    \/ config' = cfg /\ UNCHANGED trouble
    \/ config' \in {config, None} /\ Trouble

\* config_read and config_write; a page whose new configuration is enabled starts a
\* backup at once, unless one is under way.
ReadConfig ==
    /\ op = None
    /\ Store(WithDue(Loaded))
    /\ UNCHANGED <<now, files, made, op, tab>>

SaveConfig(t) ==
    /\ op = None /\ tab[t].pc # "load"
    /\ \E enabled \in BOOLEAN, s \in Schedules, k \in Keeps :
        LET cfg == WithDue([Loaded EXCEPT !.enabled = enabled, !.sched = s, !.keep = k])
            r == [tab[t] EXCEPT !.cfg = cfg]
        IN /\ Store(cfg)
           /\ \E b \in Begin(r) : tab' = [tab EXCEPT ![t] = IF enabled /\ ~r.busy THEN b ELSE r]
    /\ UNCHANGED <<now, files, made, op>>

\* snapshot_write takes the lock for an automatic backup, ...
Receive(t) ==
    /\ op = None /\ tab[t].pc = "post"
    /\ tab[t].pcOnly \/ made < MaxMade
    /\ op' = [tab |-> t, kind |-> "auto", pcOnly |-> tab[t].pcOnly, cfg |-> Loaded,
              stage |-> IF tab[t].pcOnly THEN "config" ELSE "file", ok |-> TRUE]
    /\ tab' = [tab EXCEPT ![t].pc = "wait"]
    /\ UNCHANGED <<now, config, files, made, trouble>>

\* ... the safety copy of a restore, or import_payload's copy of an import.
ReceiveOther(t) ==
    /\ op = None /\ made < MaxMade
    /\ \E kind \in Kinds \ {"auto"} :
         op' = [tab |-> t, kind |-> kind, pcOnly |-> FALSE, cfg |-> Loaded,
                stage |-> "file", ok |-> TRUE]
    /\ UNCHANGED <<now, config, files, made, tab, trouble>>

NewFile(name, whole) ==
    [name |-> name, kind |-> op.kind, mtime |-> made + 1, whole |-> whole]

\* write_snapshot: without a folder, or when the write fails, that is the reply.
WriteFile ==
    /\ op # None /\ op.stage = "file"
    /\ IF ~op.cfg.path
       THEN op' = [op EXCEPT !.stage = "reply", !.ok = FALSE] /\ UNCHANGED <<files, made, trouble>>
       ELSE /\ made' = made + 1
            /\ \/ /\ files' = files \cup {NewFile(made + 1, TRUE)}
                  /\ op' = [op EXCEPT !.stage = "latest"]
                  /\ UNCHANGED trouble
               \/ /\ Trouble
                  /\ files' \in {files, files \cup {NewFile(made + 1, FALSE)}}
                  /\ op' = [op EXCEPT !.stage = "reply", !.ok = FALSE]
    /\ UNCHANGED <<now, config, tab>>

\* Mutant: the copy does not replace the one before.
WriteLatestBeside ==
    /\ op # None /\ op.stage = "latest"
    /\ files' = files \cup {[NewFile(0, TRUE) EXCEPT !.mtime = made]}
    /\ op' = [op EXCEPT !.stage = IF op.kind = "auto" THEN "config" ELSE "reply"]
    /\ UNCHANGED <<now, config, made, tab, trouble>>

\* latest.json is overwritten, "best effort".
WriteLatest ==
    /\ op # None /\ op.stage = "latest"
    /\ \E whole \in BOOLEAN :
        /\ IF whole THEN UNCHANGED trouble ELSE Trouble
        /\ files' = {f \in files : f.name # 0} \cup {[NewFile(0, whole) EXCEPT !.mtime = made]}
    /\ op' = [op EXCEPT !.stage = IF op.kind = "auto" THEN "config" ELSE "reply"]
    /\ UNCHANGED <<now, config, made, tab>>

\* An automatic backup is written down ...
Record ==
    /\ op # None /\ op.stage = "config"
    /\ LET cfg == [op.cfg EXCEPT !.last = now, !.due = NextDue(op.cfg.sched, now)] IN
       Store(cfg) /\ op' = [op EXCEPT !.cfg = cfg, !.stage = IF op.pcOnly THEN "reply" ELSE "prune"]
    /\ UNCHANGED <<now, files, made, tab>>

\* ... and older ones are removed, those that can be.
Prune ==
    /\ op # None /\ op.stage = "prune"
    /\ \/ files' = files \ Doomed(op.cfg) /\ UNCHANGED trouble
       \/ Trouble /\ \E gone \in SUBSET Doomed(op.cfg) : files' = files \ gone
    /\ op' = [op EXCEPT !.stage = "reply"]
    /\ UNCHANGED <<now, config, made, tab>>

\* The page takes the configuration of a successful reply; import's is ignored.
Answered(r) ==
    [(IF op.kind = "auto" THEN [r EXCEPT !.pc = "idle", !.busy = FALSE] ELSE r)
       EXCEPT !.cfg = IF op.ok /\ op.kind # "import" THEN op.cfg ELSE @]

Reply ==
    /\ op # None /\ op.stage = "reply"
    /\ \/ /\ tab' = IF op.tab = None THEN tab ELSE [tab EXCEPT ![op.tab] = Answered(@)]
          /\ UNCHANGED trouble
       \/ /\ Trouble /\ op.tab # None
          /\ tab' = IF op.kind = "auto" THEN [tab EXCEPT ![op.tab] = Failed(@)] ELSE tab
    /\ op' = None
    /\ UNCHANGED <<now, config, files, made>>

\* The process dies in a handler, in the middle of a write or among the removals, and
\* starts again.
Crash ==
    /\ Trouble /\ op # None
    /\ CASE op.stage = "file" /\ op.cfg.path ->
              /\ files' = files \cup {NewFile(made + 1, FALSE)} /\ made' = made + 1 /\ UNCHANGED config
         [] op.stage = "latest" ->
              /\ files' = {f \in files : f.name # 0} \cup {[NewFile(0, FALSE) EXCEPT !.mtime = made]}
              /\ UNCHANGED <<made, config>>
         [] op.stage = "config" -> config' = None /\ UNCHANGED <<made, files>>
         [] op.stage = "prune" ->
              /\ \E gone \in SUBSET Doomed(op.cfg) : files' = files \ gone
              /\ UNCHANGED <<made, config>>
         [] OTHER -> UNCHANGED <<files, made, config>>
    /\ tab' = IF op.tab # None /\ op.kind = "auto" THEN [tab EXCEPT ![op.tab] = Failed(@)] ELSE tab
    /\ op' = None
    /\ UNCHANGED now

Server == WriteFile \/ WriteLatest \/ Record \/ Prune \/ Reply

Next ==
    \/ Advance \/ ReadConfig \/ Server \/ Crash
    \/ \E t \in Tabs :
        \/ Tick(t) \/ Render(t) \/ LoseList(t) \/ LosePost(t) \/ Reload(t)
        \/ SaveConfig(t) \/ Receive(t) \/ ReceiveOther(t)

\* The server finishes what it began, a page asks for the list as it loads and its timer
\* keeps running.
Fairness ==
    /\ WF_vars(Server)
    /\ \A t \in Tabs : /\ WF_vars(tab[t].pc = "load" /\ Render(t))
                       /\ WF_vars(Tick(t)) /\ WF_vars(Receive(t))

Spec == Init /\ [][Next]_vars /\ Fairness

-----------------------------------------------------------------------------
(* What must hold.                                                          *)

\* Of the daily and weekly schedules: what the configuration is told to be next and
\* last are the scheduled times around now, with none between.
ScheduleExact == Exact(Loaded.sched, now)

\* An automatic backup a restore can use.
Usable == {f \in files : f.kind = "auto" /\ f.name # 0 /\ f.whole}

\* Once the folder has a complete automatic backup it always has one, whatever is
\* written, cut short or removed after it.
OneIsLeft == [][Usable # {} => Usable' # {}]_vars

\* A pruning whose removals succeed leaves no more files than the cap.
CapKept == [][Prune /\ trouble' = trouble => Cardinality(files') <= MaxFiles]_vars

\* A page that loads when a backup was missed takes it, unless something goes wrong after
\* that or there is no folder to write to.
CatchesUp ==
    \A t \in Tabs, n \in 0..MaxTrouble :
        (tab[t].pc = "load" /\ Missed(Loaded) /\ trouble = n) ~>
            (~Missed(Loaded) \/ ~Loaded.path \/ trouble > n \/ made = MaxMade)
=============================================================================
