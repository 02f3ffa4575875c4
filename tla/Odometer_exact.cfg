CONSTANTS
    Slack = 0
    RestartM = 2
    AdoptStep = 1
    UptimeWidth = 100
    HasUptime = TRUE
    RawOdometers = {0, 3}
    Edits = {2}
    Steps = {1}
    QueueDepth = 2
    TornReads = FALSE
    Watched = TRUE
    MaxTotal = 20
    MaxUptime = 2
    MaxDist = 2
    MaxReboots = 1
    MaxEdits = 1
    MaxResets = 1
    MaxCuts = 1
    MaxFaults = 0
SPECIFICATION Spec
INVARIANTS TypeOK OdoExact EditReachesLog
CHECK_DEADLOCK FALSE
