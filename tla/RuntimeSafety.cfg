SPECIFICATION Spec
CONSTANTS
    Txns = {t1, t2, t3}
    None = None
    MayAbort = TRUE
    Lifecycle = TRUE
    MaxCrashes = 1
    MaxReboots = 1
SYMMETRY Symmetry
INVARIANT TypeOK
INVARIANT OwnerIsRuntime
INVARIANT NoStaleRuntime
INVARIANT RegistrationSafe
PROPERTY SlotDropSafe
CHECK_DEADLOCK FALSE
