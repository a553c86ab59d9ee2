CONSTANTS
    NFiles = 2
    Lfile = {f, g, h}
    None = None
    User = {u, v}
    NFd = 4
    Program = {"popen", "purge", "lockout"}
    Faults = {"open", "close", "client"}
    MaxRef = 3
    MaxLocked = 1
    MaxLeaks = 1
    GoesOn = FALSE
SPECIFICATION Spec
INVARIANTS TypeOK HeldIsOpen SlotsOwnFiles CountsUsers LockedOut
PROPERTY EvictsOldest
CHECK_DEADLOCK FALSE
SYMMETRY Symmetry
