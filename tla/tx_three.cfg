SPECIFICATION Spec
CONSTANTS
    Tx = {t1, t2, t3}
    Resource = {r1, r2, r3}
    NoTx = NoTx
    MaxChainedCommits = 1
    MaxPreCommitCycles = 1
    MaxOwnCommits = 0
    AwaitsCalls = TRUE
    PostCommitWrites = FALSE
SYMMETRY Symmetry
INVARIANT WaitGraphAcyclic
CHECK_DEADLOCK FALSE
