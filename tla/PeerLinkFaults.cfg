SPECIFICATION FairSpec
CONSTANTS
    Conns = {c1, c2}
    NoConn = NoConn
    MaxReconnectAttempts = 0
    MaxQueueSize = 1
    MaxDials = 1
    MaxBreaks = 1
    MaxRestarts = 1
    MaxMsgs = 0
    MaxOrphans = 0
    MaxAsks = 1
    Active = {1}
    LateTimers = {"dial"}
    Oversize = TRUE
INVARIANTS
    NoSocketLeaks
PROPERTIES
    SilentPathDetected
CHECK_DEADLOCK FALSE
