SPECIFICATION Spec
CONSTANTS
    p1 = p1
    p2 = p2
    alice = alice
    bob = bob
    Procs <- MCProcs
    Users <- MCUsers
    NoUser = NoUser
    NoHandler = NoHandler
    CfgQPS = 0
    CfgBurst = 0
    OptionLists <- MCOptionLists
    MaxCalls = 2
SYMMETRY MCSymmetry
INVARIANT OwnWarningHandler
\* The server may receive no further requests once every goroutine made its
\* calls, or NewFactory failed and the process exits.
CHECK_DEADLOCK FALSE
