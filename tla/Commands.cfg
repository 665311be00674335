SPECIFICATION MCSpec
CONSTANTS
    IThings = {i1}
    Sagoo = {s1}
    PandaX = {p1}
    MaxFields = 2
    CommandCap = 2
    PullLimit = 2
    MaxMessages = 2
    MaxRemoved = 1
    Caller = {c1, c2}
    FailureThreshold = 2
    SuccessThreshold = 2
    FailureWindow = 2
    RecoveryTimeout = 1
    MaxResults = 4
    MaxTime = 4
    MaxResets = 1
CHECK_DEADLOCK FALSE
INVARIANTS AnswersTrue
PROPERTIES CommandsInOrder CommandsServed KeepsPromise
