SPECIFICATION Spec
CONSTANTS
    Conns = {c1, c2}
    NoConn = NoConn
    MaxReconnectAttempts = 1
    MaxQueueSize = 1
    MaxDials = 2
    MaxBreaks = 0
    MaxRestarts = 0
    MaxMsgs = 0
    MaxOrphans = 1
    MaxAsks = 1
    Active = {1}
    LateTimers = {"reconnect"}
    Oversize = FALSE
SYMMETRY ConnSymmetry
INVARIANTS
    LostPeerIsRedialled
CHECK_DEADLOCK FALSE
