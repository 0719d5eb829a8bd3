SPECIFICATION Spec
CONSTANTS
    Peers = {p1}
    PageSize = 1
    MaxSaves = 3
    MaxGroupRows = 1
    MaxFailures = 1
    MaxEnds = 1
INVARIANTS
    BlockedStaysBlocked
    DeliveredWasConfirmed
    PagingMissesNothing
CHECK_DEADLOCK FALSE
