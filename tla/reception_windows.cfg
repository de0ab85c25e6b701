SPECIFICATION Spec
CONSTANTS
    MaxCounter = 14
    Window = 4
    HalfRange = 8
    RolloverAllowed = TRUE
    RolloverInfo = 1
    FirstCounters <- EveryVariant
    PeerMax = 14
    MaxSent = 12
    MaxDelay <- Delays
INVARIANTS
    DeliveredAtMostOnce NewestAccepted FreshLostOnlyByFullShift
CHECK_DEADLOCK FALSE
