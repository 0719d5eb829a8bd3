SPECIFICATION Spec
CONSTANTS
    Conns = {c1, c2}
    NoConn = NoConn
    MaxReconnectAttempts = 0
    MaxQueueSize = 1
    MaxDials = 2
    MaxBreaks = 0
    MaxRestarts = 0
    MaxMsgs = 1
    MaxOrphans = 0
    MaxAsks = 1
    Active = {1, 2}
    LateTimers = {}
    Oversize = FALSE
SYMMETRY ConnSymmetry
INVARIANTS
    EveryRecordIsRead
    ConnectedMeansAccepted
    OneLinkUp
    DisconnectHitsOwnSocket
    AtMostOnce
CHECK_DEADLOCK FALSE
