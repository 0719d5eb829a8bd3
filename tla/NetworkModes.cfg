SPECIFICATION Spec
CONSTANTS
    Nodes = {n1, n2}
    Self = n1
    kMaxRetries = 2
    MaxRuns = 2
    MaxDials = 2
    MaxFrames = 1
    MaxLosses = 2
INVARIANTS
    BothAreTold
    ResultsInOrder
PROPERTIES
    RelayReturns
    OfflineIsNoticed
    RunReports
CHECK_DEADLOCK FALSE
