SPECIFICATION FairSpec
CONSTANTS
    Nodes = {n1, n2}
    NoNode = NoNode
    kMaxConcurrentSessions = 1
    MaxRequests = 2
    MaxAnswers = 2
    MaxActivity = 1
    MaxLosses = 1
    MaxStops = 1
    WrongPasswords = TRUE
    SpawnFails = TRUE
INVARIANTS
    ProcessHasSession
    RunsAfterPassword
    EndIsReported
PROPERTIES
    ActiveIsNotTimedOut
    BothOrNeither
    SilentShellEnds
CHECK_DEADLOCK FALSE
