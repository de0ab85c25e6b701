SPECIFICATION FairSpec
CONSTANTS
    Script <- RequestResponse
    MaxTransmissions = 2
    PromptSend = FALSE
    SendMayFail = TRUE
    Evictable <- Nobody
PROPERTIES SendSettles ClosedAtLast
CHECK_DEADLOCK FALSE
