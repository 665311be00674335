SPECIFICATION MCSpec
CONSTANTS
    Source = {s1, s2}
    QueueCap = 1
    MaxBatch = 2
    SyncTrigger = 2
    MaxRows = 1
    Retain = 0
    MaxFaults = 1
    MaxReadings = 2
    MaxMishaps = 1
    MaxSec = 1
    Field = {1, 2}
    Asked = {{1}, {1, 2}}
    RowLimit = {3}
    CacheLimit = 1
    MaxSecond = 2
    MaxWrites = 3
    MaxQueries = 1
    MaxDeletes = 1
SYMMETRY Symmetry
\* The process ends when it is shut down, or dies.
CHECK_DEADLOCK FALSE
INVARIANTS NothingLost ShutdownPersists AnswersSound
