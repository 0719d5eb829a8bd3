SPECIFICATION Spec
CONSTANTS
    Nodes = {n1, n2}
    NoNode = NoNode
    MaxCalls = 3
    MaxLosses = 1
    MediaFails = TRUE
    Preempt = FALSE
INVARIANTS
    NodeIsConsistent
PROPERTIES
    CallsAreAgreed
CHECK_DEADLOCK FALSE
