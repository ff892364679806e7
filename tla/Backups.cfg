CONSTANTS
    DayLen = 2
    Tabs = {t1}
    Schedules <- MCSchedules
    Keeps = {1}
    MaxFiles = 3
    Ahead = 1
    None = none
    MaxNow = 3
    MaxMade = 3
    MaxTrouble = 1
SPECIFICATION Spec
INVARIANTS TypeOK ScheduleExact
PROPERTIES OneIsLeft CapKept CatchesUp
