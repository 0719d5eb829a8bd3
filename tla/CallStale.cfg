SPECIFICATION Spec
CONSTANTS
    Nodes = {n1, n2}
    NoNode = NoNode
    MaxCalls = 2
    MaxLosses = 0
    MediaFails = FALSE
    Preempt = TRUE
SYMMETRY NodeSymmetry
PROPERTIES
    StaleCallbackDropped
CHECK_DEADLOCK FALSE
