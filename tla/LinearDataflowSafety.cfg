SPECIFICATION Spec
CONSTANTS
    a = a
    b = b
    c = c
    Rows = {a, b, c}
    Plan <- FilterPlan
    Txns <- MCTxns
    BatchRows = 2
    TargetRows = 2
    HighChunks = 2
    LowChunks = 0
    MaxCommits = 3
    MaxLag = 3
    MaxBurst = 2
INVARIANT TypeOK
INVARIANT ViewConsistent
CHECK_DEADLOCK FALSE
