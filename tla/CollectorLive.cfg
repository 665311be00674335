SPECIFICATION FairSpec
CONSTANTS
    Device = {1, 2}
    Slot = {1, 2}
    fast = fast
    slow = slow
    Config = {fast}
    Interval <- MCInterval
    Worker = {w1}
    MaxLimit = 1
    MaxStarts = 2
    MaxEdits = 1
    SerialLifecycle = TRUE
    Absent = Absent
    Disabled = Disabled
    NoTask = NoTask
    Idle = Idle
    Out = Out
PROPERTIES StopTerminates EnabledCollected DisabledReleased
