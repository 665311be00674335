SPECIFICATION Spec
CONSTANTS
    Setting <- MCSettings
    DevOf <- MCDevOf
    Cap = 2
    AlarmBatch = 1
    MaxMsg = 3
    MaxStarts = 1
\* The adapter ends with Close.
CHECK_DEADLOCK FALSE
INVARIANTS QueuesSound
PROPERTIES DrainedAtStop
