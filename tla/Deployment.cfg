SPECIFICATION Spec
CONSTANTS
    Job = {j1, j2}
    Worker = {w1, w2}
    File <- MCManyFiles
    deployPaths <- MCManyPaths
    MaxDirectoryDepth = 2
    MaxHead = 2
    MaxKills = 2
INVARIANTS
    CrashOnlyByOverlapOrFailure
PROPERTIES
    SoloDeploys
    BackOnlyByOverlap
SYMMETRY Symmetry
CHECK_DEADLOCK FALSE
