SPECIFICATION FairSpec
CONSTANTS
    Key = {k1, k2}
    MaxRounds = 1
    MaxCalls = 3
    MaxFaults = 1
INVARIANTS TypeOK RemovalIsFinal FailureHasCause
PROPERTIES ImplementsStore EveryCallReturns
CHECK_DEADLOCK FALSE
