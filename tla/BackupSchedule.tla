--------------------------- MODULE BackupSchedule ---------------------------
(* When a backup is due (crates/server/src/backup.rs).                      *)
(* Times are whole numbers of some unit that divides a day; day 0 is the    *)
(* first of January 1970, a Thursday.                                       *)
EXTENDS Integers

CONSTANT DayLen     \* units in a day

ASSUME DayAssumption == DayLen \in Nat \ {0}

\* The kinds "minute" and "hour" differ in the unit of the interval only.
Schedule == [kind: {"every", "daily", "weekly"}, interval: Nat \ {0},
             at: 0..(DayLen - 1), weekday: 0..6]

\* Monday is 0.
WeekdayOf(t) == (t \div DayLen + 3) % 7

DayStart(t) == (t \div DayLen) * DayLen

Week == 7 * DayLen

\* Mutant: a backup at the very moment of the schedule does not count.
AfterOrNow(cand, period, now) == IF cand < now THEN cand + period ELSE cand

\* A candidate that is not in the future moves on by a period ...
After(cand, period, now) == IF cand <= now THEN cand + period ELSE cand

\* ... and one that is in the future moves back.
Before(cand, period, now) == IF cand > now THEN cand - period ELSE cand

NextDue(s, now) ==
    CASE s.kind = "every" -> now + s.interval
      [] s.kind = "daily" -> After(DayStart(now) + s.at, DayLen, now)
      [] s.kind = "weekly" ->
           After(DayStart(now) + s.at + ((s.weekday - WeekdayOf(now)) % 7) * DayLen, Week, now)

LastScheduled(s, now) ==
    CASE s.kind = "every" -> now - s.interval
      [] s.kind = "daily" -> Before(DayStart(now) + s.at, DayLen, now)
      [] s.kind = "weekly" ->
           Before(DayStart(now) + s.at - ((WeekdayOf(now) - s.weekday) % 7) * DayLen, Week, now)

-----------------------------------------------------------------------------
(* The reference: what a daily or weekly schedule means.                    *)

Scheduled(s, t) ==
    /\ s.kind \in {"daily", "weekly"}
    /\ t % DayLen = s.at
    /\ s.kind = "weekly" => WeekdayOf(t) = s.weekday

\* Of the scheduled times, the first after now and the last up to now.
Exact(s, now) ==
    s.kind # "every" =>
        /\ Scheduled(s, NextDue(s, now)) /\ now < NextDue(s, now)
        /\ Scheduled(s, LastScheduled(s, now)) /\ LastScheduled(s, now) <= now
        /\ \A t \in (LastScheduled(s, now) + 1)..(NextDue(s, now) - 1) : ~Scheduled(s, t)
=============================================================================
