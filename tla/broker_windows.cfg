SPECIFICATION Spec
CONSTANTS
    Sensors <- TwoEndpoints
    Values <- AboveAndBelowZero
    Intervals = {2, 3}
    MaxTime = 4
INVARIANTS AreaAccountedFor WindowBounded
CHECK_DEADLOCK FALSE
