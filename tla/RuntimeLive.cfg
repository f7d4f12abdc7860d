SPECIFICATION FairSpec
CONSTANTS
    Txns = {t1, t2, t3}
    None = None
    MayAbort = TRUE
    Lifecycle = FALSE
    MaxCrashes = 2
    MaxReboots = 0
PROPERTY RuntimeReturns
CHECK_DEADLOCK FALSE
