SPECIFICATION MCSpec
CONSTANTS
    NbId = {c1, c2}
    NbName = {n1, n2}
    NbRequest = {q1, q2}
    MaxRequests = 3
    MaxInitFaults = 1
    MaxDBFaults = 1
    MaxRestarts = 1
    MaxDisturbances = 2
    MaxDisturbed = 2
    FieldName = {"a", "b"}
    FieldKeys <- MCFieldKeys
    MaxPoints = 3
    BatchSize = 2
    ResRequest = {q1, q2}
    ResPath = {"p1"}
    DevicePath = "dev"
    MaxResEdits = 3
    MaxResFaults = 1
    RtRequest = {q1, q2}
    RtValue = {"v0", "v1"}
    Initially = "v0"
    BuiltIn = "v1"
    MaxRtRequests = 2
    MaxRebuilds = 1
    LookupName = {"t", "T"}
    Lower <- MCLower
    MaxLookupPoints = 2
    MaxAsked = 2
    MaxReadings = 2
    MaxItems = 2
    ConfigLine <- MCConfigLine
    MaxConfigLines = 4
    ConfigSetting <- MCSetting
    Default <- MCDefault
    Environment <- MCEnvironment
    Word = 32
    Counters0 <- MCCounters0
    Steps <- MCSteps
    StatsRequest = {r1}
    MaxStarts = 2
    MaxCollects = 2
    MaxSizeBytes = 4
    MaxBackups = 2
    LineSize = {2, 5}
    MaxLines = 5
    MaxLogFaults = 2
    MaxExits = 1
SYMMETRY MCSymmetry
CHECK_DEADLOCK FALSE
INVARIANTS AdaptersFollow ConnectionFollowsRow SettingsFollow BatchesSound LookupSound FileSound StatsSound
PROPERTIES LogSound
