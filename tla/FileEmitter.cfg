SPECIFICATION Spec
CONSTANTS
    Emission = {e1, e2, e3}
    File <- MCFile
    Depth <- MCDepth
    Builds <- MCBuilds
SYMMETRY Symmetry
INVARIANTS
    FailsForOverlapOnly
PROPERTIES
    SoloIsExact
    LastIsComplete
CHECK_DEADLOCK FALSE
