SPECIFICATION Spec
CONSTANTS
    Request = {r1, r2, r3, r4}
INVARIANTS
    OnlineOnce
    NothingHangs
    OwnResponse
CHECK_DEADLOCK FALSE
