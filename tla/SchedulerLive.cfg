SPECIFICATION SchedSpec
CONSTANTS
    a = a
    b = b
    c = c
    Rows = {a, b, c}
    Plan <- FilterProjectPlan
    Txns <- FewTxns
    BatchRows = 1
    TargetRows = 2
    HighChunks = 2
    LowChunks = 1
    MaxCommits = 2
    MaxLag = 1
    MaxBurst = 1
INVARIANT StepsSucceed
PROPERTY Converges
CHECK_DEADLOCK FALSE
