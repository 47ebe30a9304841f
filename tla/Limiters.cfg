\* One client, windows of three ticks, up to six requests in each.  The default
\* threshold of errors, a window of two ticks, an initial period of one.
SPECIFICATION LimiterSpec
CONSTANTS
    Client = {c1}
    c1 = c1
    Limit = 2
    WindowSize = 3
    MaxTime = 16
    MaxRequests = 6
    Threshold = 3
    WindowMs = 2
    InitPeriodMs = 1
    MaxErrors = 6
INVARIANTS
    FirstWindowExact
    HeavyClientWaits
    TerminatesOnBurst
    KeepsLatest
PROPERTIES
    NoFalseRefusal
    FloodRefused
    CountsAsInPool
CHECK_DEADLOCK FALSE
