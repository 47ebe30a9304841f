\* A page in a folder, asked for by two clients, in production and in development.
SPECIFICATION FairSpec
CONSTANTS
    Client = {c1, c2}
    Depth = 1
    MaxEdits = 1
INVARIANTS
    NothingStaleServed
    MissedOnlyIfGone
PROPERTY
    EveryRequestAnswered
CHECK_DEADLOCK FALSE
