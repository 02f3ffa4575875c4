CONSTANTS
    old = old
    new = new
    Sensors = {old}
    NSlots = 2
    Adapter = 1
    MaxUi = 2
    MaxSleeps = 1
    MaxOta = 1
    MaxEvents = 2
SPECIFICATION FairSpec
PROPERTIES EverySensorLinked
CHECK_DEADLOCK FALSE
