CONSTANTS
    NLFiles = 2
    PerPage = 2
    PtiLen = 2
    Val = {a}
    Hole = Hole
    MaxXfer = 2
    Faults = {"write"}
    Garbage = {0}
    CrashInSync = FALSE
SPECIFICATION Spec
INVARIANTS TypeOK IndexHolds MapsAgree TableOwnsItsPages 
PROPERTY IsLightFiles
CHECK_DEADLOCK FALSE
