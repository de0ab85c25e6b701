SPECIFICATION Spec
CONSTANTS
    Script <- StatusAfterReport
    MaxTransmissions = 3
    PromptSend = TRUE
    SendMayFail = FALSE
    Evictable <- Initiator
INVARIANTS
    TypeOK AckedWasReceived FailedAfterAllTransmissions
    LostOnlyWithoutAck
PROPERTY AckStopsRetransmission
CHECK_DEADLOCK FALSE
