\* One plugin with a file in a folder and one that is in none, or two plugins
\* that may build the same path.
SPECIFICATION PackageSpec
CONSTANTS
    File = {f1, f2}
    Nested = {f2}
    Caller = {c1, c2}
    Dev = TRUE
    MaxTime = 2
    MaxEdits = 2
    PluginDir = {p1, p2}
    Path = {x}
    None = None
    MaxChanges = 2
SYMMETRY Symmetry
INVARIANTS
    FreshUnlessRaced
    NothingOnlyWhileBuilding
    LostOnlyToAnother
CHECK_DEADLOCK FALSE
