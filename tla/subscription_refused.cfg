SPECIFICATION FairSpec
CONSTANTS
    Attributes = {"first"}
    MaxVersion <- OneChange
    MaxEvents = 0
    OtherErrors = FALSE
PROPERTY CloseReturns
CHECK_DEADLOCK FALSE
