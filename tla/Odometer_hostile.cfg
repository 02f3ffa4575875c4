CONSTANTS
    Slack = 0
    RestartM = 2
    AdoptStep = 1
    UptimeWidth = 3
    HasUptime = TRUE
    RawOdometers = {3}
    Edits = {2}
    Steps = {1}
    QueueDepth = 1
    TornReads = TRUE
    Watched = FALSE
    MaxTotal = 20
    MaxUptime = 2
    MaxDist = 2
    MaxReboots = 1
    MaxEdits = 0
    MaxResets = 0
    MaxCuts = 1
    MaxFaults = 1
SPECIFICATION FairSpec
PROPERTIES OdoNeverStepsBack DueCheckpointTaken
CHECK_DEADLOCK FALSE
