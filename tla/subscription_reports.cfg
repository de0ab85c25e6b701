SPECIFICATION FairSpec
CONSTANTS
    Attributes = {"first", "second"}
    MaxVersion <- Changes
    MaxEvents = 2
    OtherErrors = TRUE
INVARIANTS NothingLost EventsInOrder
PROPERTIES ChangesReported KeepsReporting
CHECK_DEADLOCK FALSE
