SPECIFICATION MCSpec
CONSTANTS
    DriverName = {"n1", "n2"}
    Candidates <- MCCandidates
    DriverRequest = {q1, q2}
    MaxDriverId = 2
    MaxUploads = 2
    MaxDriverRequests = 2
    MaxBindFaults = 1
    MaxCrashes = 2
    MaxStarts = 4
    LastDevice = 2
    KeyDriver = {v1, v2}
    ProductKey = {"k1", "k2"}
    Reader = {r1}
    MaxMeddling = 1
CHECK_DEADLOCK FALSE
INVARIANTS PluginsSound UpgradeSound KeysSound
PROPERTIES StartupComesUp DeviceServedInTheEnd KeysConvergeInTheEnd
