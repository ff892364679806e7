----------------------------- MODULE MCBackups -----------------------------
(* A small instance of Backups: half days, and a week that begins again     *)
(* within the time of a run.                                                *)
EXTENDS Backups, TLC

Every(n) == [kind |-> "every", interval |-> n, at |-> 0, weekday |-> 0]
Friday == [kind |-> "weekly", interval |-> 1, at |-> 1, weekday |-> 4]

MCSchedules == {Every(2), Friday}

TabSymmetry == Permutations(Tabs)

=============================================================================
