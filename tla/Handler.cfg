\* Production and development.
SPECIFICATION Spec
CONSTANTS
    Request = {r1, r2}
    Module = {m1}
    Unknown = Unknown
INVARIANTS
    OneResponse
    OwnWork
CHECK_DEADLOCK FALSE
