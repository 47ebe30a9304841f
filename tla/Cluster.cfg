\* Two children at a time, four in all, each with up to two threads.
SPECIFICATION ClusterSpec
CONSTANTS
    w1 = w1
    w2 = w2
    w3 = w3
    w4 = w4
    None = None
    Worker = {w1, w2, w3, w4}
    MaxAssign = 3
    Limit = 2
    MaxPending = 3
    Threshold = 2
    AwaitOnline = TRUE
    SlowHandlers = TRUE
    ErrorHandled = TRUE
    ThreadLimit = 2
SYMMETRY Symmetry
INVARIANTS
    SecondThreadAfterTimeout
    OneAtATime
CHECK_DEADLOCK FALSE
