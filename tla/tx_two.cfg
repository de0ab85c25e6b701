SPECIFICATION FairSpec
CONSTANTS
    Tx = {t1, t2}
    Resource = {r1, r2}
    NoTx = NoTx
    MaxChainedCommits = 2
    MaxPreCommitCycles = 2
    MaxOwnCommits = 1
    AwaitsCalls = TRUE
    PostCommitWrites = TRUE
INVARIANTS WritersHoldLocks NoLostUpdate AllOrNothing LeakOnlyAtCommitLimit
PROPERTY EveryTransactionEnds
CHECK_DEADLOCK FALSE
