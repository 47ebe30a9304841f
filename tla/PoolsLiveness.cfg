\* One worker by the options, one more by the constructor, one respawned.
SPECIFICATION FairPoolSpec
CONSTANTS
    w1 = w1
    w2 = w2
    w3 = w3
    None = None
    Worker = {w1, w2, w3}
    MaxAssign = 2
    Limit = 1
    MaxPending = 2
    Threshold = 2
    AwaitOnline = FALSE
    SlowHandlers = TRUE
    ErrorHandled = TRUE
INVARIANTS
    PoolSize
PROPERTIES
    EverySettles
CHECK_DEADLOCK FALSE
