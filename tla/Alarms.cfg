SPECIFICATION MCSpec
CONSTANTS
    Device = {d1, d2}
    Threshold = {t1}
    Level = {l1}
    Check = {c1}
    Admin = {a1}
    MaxEdits = 2
    MaxCacheFaults = 1
    AlarmDevice = {d1}
    AlarmRule = {r1}
    Checker = {k1, k2}
    Interval = {1, 3}
    DefaultInterval = 1
    Window = 2
    DefaultTTL = 2
    MaxTTL = 3
    TTLFactor = 2
    PruneEvery = 2
    MaxLag = 1
    MaxChanges = 1
    MaxReadFaults = 1
    MaxRulesEvents = 2
    MaxAlarmEvents = 1
CHECK_DEADLOCK FALSE
INVARIANTS RulesSound AlarmsSound
PROPERTIES RulesConverge IntervalAdopted
