SPECIFICATION Spec
CONSTANTS
    r1 = r1
    r2 = r2
    r3 = r3
    Rows = {r1, r2, r3}
    Kinds = {"distinct", "aggregate", "global aggregate", "ties", "limit",
             "ties, single rows", "limit, single rows", "window", "global window"}
    Key <- MCKey
    Rank <- MCRank
    Inputs <- MCInputs
    Aggregates <- MCAggregates
    Project <- MCProject
    Limit = 2
    Offset = 1
    MaxWeight = 1
    Functions <- MCFunctions
    Argument <- MCArgument
    Frame <- MCFrame
    GlobalFunctions <- MCGlobalFunctions
    GlobalFrame <- MCGlobalFrame
    FoldItems = 2
    BatchRows = 2
    TargetRows = 2
    AdmissionCap = 4
    MaxLsn = 2
    MaxChunks = 4
INVARIANT Exact
INVARIANT PublishedRetractable
PROPERTY FrontiersPass
CHECK_DEADLOCK FALSE
