SPECIFICATION FairSpec
CONSTANTS
    FileSize = 5
    ChunkSize = 2
    Faults = TRUE
    MaxAccepts = 2
    MaxRejects = 1
    MaxPauses = 1
    MaxResumes = 1
    MaxLosses = 1
    MaxRestarts = 1
PROPERTIES
    DeliveryKept
    AcceptedEnds
    CancelEndsBoth
CHECK_DEADLOCK FALSE
