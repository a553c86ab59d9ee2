CONSTANTS
    NLFiles = 2
    PerPage = 2
    PtiLen = 2
    Val = {a}
    Hole = Hole
    MaxXfer = 2
    Faults = {}
    Garbage = {0, 1}
    CrashInSync = FALSE
SPECIFICATION Spec
INVARIANT TableOwnsItsPages
CHECK_DEADLOCK FALSE
