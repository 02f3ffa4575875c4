SPECIFICATION FairSpec
CHECK_DEADLOCK FALSE
CONSTANTS
    Sizes = {1, 2}
    Slot = 2
    MaxQueue = 2
    MaxBegins = 2
    MaxDrops = 1
    MaxOthers = 1
INVARIANTS BootedIsAnnounced WritesStayInStage StreamsFast
PROPERTIES SensorsComeBack PhoneIsAnswered
