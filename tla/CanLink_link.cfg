CONSTANTS
    RingLen = 3
    RxBuffers = 3
    Chunks = 1
    Ids = {1, 2}
    MaxPolls = 2
    MaxOthers = 1
    MaxRequests = 1
    MaxChanges = 1
    MaxBusOffs = 1
    MaxEvents = 3
SPECIFICATION FairSpec
INVARIANTS TypeOK FrameInUse WholePacketsDelivered DriverInstalledWhileUsed PollsOverlapOnlyWhenExcused
PROPERTIES BusRecovers
CHECK_DEADLOCK FALSE
