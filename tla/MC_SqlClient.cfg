CONSTANTS
    p1 = p1
    p2 = p2
    p3 = p3
    k1 = k1
    NoProc = NoProc
    Proc <- MCProc
    Keys <- MCKeys
    MaxResets = 1
    MaxOps = 1
    TxModes = {TRUE, FALSE}
    Cancels = TRUE
    UseTempDir = FALSE
    NCFailures = {"closeErr", "removeErr", "touchErr", "openErr"}
SYMMETRY ProcSymmetry
SPECIFICATION Spec
INVARIANTS
    TypeOK
    LockReleasedOnReturn
    AckedWritesCommitted
PROPERTY
    StoreRefinement
    ConnStableUnderRLock
