CONSTANTS
    NSectors = 5
    RecsPerSector = 2
    RunwayTarget = 2
    RunwayBootMin = 1
    ScanBack = 2
    QueueDepth = 2
    MaxDeleted = 1
    MagicMayBeBlank = FALSE
    MaxBurst = 2
    MaxRecords = 11
    MaxTrips = 1
    MaxEdits = 1
    MaxCuts = 2
    MaxWriteFaults = 0
    MaxEraseFaults = 0
SPECIFICATION FairSpec
INVARIANTS ScanFindsNewest SeqFollowsWrites
PROPERTIES EraseOnlyAhead RunwayRebuilt
CHECK_DEADLOCK FALSE
