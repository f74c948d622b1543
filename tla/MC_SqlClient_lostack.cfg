CONSTANTS
    p1 = p1
    p2 = p2
    p3 = p3
    k1 = k1
    NoProc = NoProc
    Proc <- MCProc
    Keys <- MCKeys
    MaxResets = 1
    MaxOps = 1
    TxModes = {TRUE}
    Cancels = FALSE
    UseTempDir = FALSE
    NCFailures = {}
SPECIFICATION Spec
SYMMETRY ProcSymmetry
INVARIANT
    AckedVisibleOnCurrentConn
