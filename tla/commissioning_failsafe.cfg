SPECIFICATION Spec
CONSTANTS
    MaxIndex = 2
    SupportedFabrics = 2
    MaxNoc = 1
    MaxFailsafes = 2
    MaxFaults = 1
INVARIANTS
    TypeOK PendingHasFailsafe NeverLost NocSettled RemovedIsGone CommissionedAgrees
    FailsafeWatched NeverErased
CHECK_DEADLOCK FALSE
