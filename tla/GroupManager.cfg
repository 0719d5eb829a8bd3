SPECIFICATION FairSpec
CONSTANTS
    Groups = {g1}
    Messages = {m1}
    kMaxReconnAttempts = 1
    MaxJoins = 2
    MaxFaults = 3
    MaxStops = 1
INVARIANTS
    HandleIsOpen
    ShownIsSaved
    MembershipIsSaved
    OnlineMissesNothing
PROPERTIES
    LeaveLeaves
    JoinedGoesOnline
CHECK_DEADLOCK FALSE
