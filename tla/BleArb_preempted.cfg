CONSTANTS
    old = old
    new = new
    Sensors = {old, new}
    NSlots = 2
    Adapter = 1
    MaxUi = 2
    MaxSleeps = 0
    MaxOta = 1
    MaxEvents = 2
SPECIFICATION Spec
INVARIANTS PendingIsReal ClientsAgreeWithRadio BothWaitingRotate ParkedIsQuiet
SYMMETRY SensorsSymmetric
CHECK_DEADLOCK FALSE
