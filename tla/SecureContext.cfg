SPECIFICATION ContextSpec
CONSTANTS
    Retry = 1
    Minimum = 2
    MaxTimeout = 5
    MaxTime = 15
    MaxIssued = 3
INVARIANTS
    RenewalKeepsUp
    PairPresented
CHECK_DEADLOCK FALSE
