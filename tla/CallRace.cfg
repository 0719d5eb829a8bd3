SPECIFICATION FairSpec
CONSTANTS
    Nodes = {n1, n2}
    NoNode = NoNode
    MaxCalls = 2
    MaxLosses = 0
    MediaFails = FALSE
    Preempt = TRUE
INVARIANTS
    CallerSharesTheCall
    NodeIsConsistent
PROPERTIES
    WaitingEnds
CHECK_DEADLOCK FALSE
