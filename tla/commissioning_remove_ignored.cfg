SPECIFICATION Spec
CONSTANTS
    MaxIndex = 2
    SupportedFabrics = 2
    MaxNoc = 1
    MaxFailsafes = 2
    MaxFaults = 0
INVARIANT RemoveTakesEffect
CHECK_DEADLOCK FALSE
