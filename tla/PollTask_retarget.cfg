CONSTANTS
    MaxTaps = 1
    MaxEvents = 3
SPECIFICATION Spec
INVARIANT TargetChangeKeepsPolling
