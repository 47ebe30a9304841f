\* Two workers at most by the options, three that can be created, three assignments.
SPECIFICATION PoolSpec
CONSTANTS
    w1 = w1
    w2 = w2
    w3 = w3
    None = None
    Worker = {w1, w2, w3}
    MaxAssign = 3
    Limit = 2
    MaxPending = 2
    Threshold = 2
    AwaitOnline = FALSE
    SlowHandlers = TRUE
    ErrorHandled = TRUE
SYMMETRY Symmetry
INVARIANTS
    TypeOK
    Accounted
    AnswerFate
    HeldOnce
    NoStranding
PROPERTY
    Contract
CHECK_DEADLOCK FALSE
