CONSTANTS
    NSectors = 4
    RecsPerSector = 2
    RunwayTarget = 1
    RunwayBootMin = 1
    ScanBack = 2
    QueueDepth = 2
    MaxDeleted = 1
    MagicMayBeBlank = TRUE
    MaxBurst = 2
    MaxRecords = 9
    MaxTrips = 2
    MaxEdits = 0
    MaxCuts = 1
    MaxWriteFaults = 1
    MaxEraseFaults = 1
SPECIFICATION Spec
INVARIANTS RecentRecordsKept TripsInOrder
CHECK_DEADLOCK FALSE
