SPECIFICATION Spec
CONSTANTS
    l1 = l1
    l2 = l2
    r1 = r1
    r2 = r2
    LeftRows = {l1, l2}
    RightRows = {r1, r2}
    Rows <- OutRows
    Truth <- MCTruth
    Inputs <- MCInputs
    Keyed = FALSE
    Kinds = {"inner", "left", "right", "full", "semi", "anti", "null_aware_anti"}
    BatchRows = 3
    TargetRows = 3
    Transitions = 8
    MaxLsn = 2
    MaxChunks = 4
INVARIANT JoinExact
INVARIANT TransitionsSucceed
INVARIANT FrontierCovers
INVARIANT ResultExact
INVARIANT SinkApplies
PROPERTY StepBounded
CHECK_DEADLOCK FALSE
