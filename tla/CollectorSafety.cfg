SPECIFICATION MCSpec
CONSTANTS
    Device = {d1, d2}
    Slot = {1, 2, 3}
    fast = fast
    slow = slow
    Config = {fast, slow}
    Interval <- MCInterval
    Worker = {w1, w2}
    MaxLimit = 2
    MaxStarts = 2
    MaxEdits = 1
    SerialLifecycle = FALSE
    Absent = Absent
    Disabled = Disabled
    NoTask = NoTask
    Idle = Idle
    Out = Out
ACTION_CONSTRAINT FewAtOnce
SYMMETRY Symmetry
INVARIANTS NoLostWakeup HeapHoldsCurrentOnly CollectedOnce NoTaskLost
PROPERTIES SlotsRespected
