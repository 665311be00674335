SPECIFICATION FairSpec
CONSTANTS
    Setting <- Pandax
    DevOf <- MCDevOf
    Cap = 1
    AlarmBatch = 1
    MaxMsg = 1
    MaxStarts = 2
\* The adapter ends with Close.
CHECK_DEADLOCK FALSE
PROPERTIES LoopStops Delivered
