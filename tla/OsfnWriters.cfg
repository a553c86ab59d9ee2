SPECIFICATION Spec
CONSTANTS
    Proc = {a, b}
    LockPeriod = 2
    MinLeft = 1
    WaitPeriod = 1
    MaxDelay = 2
    Mortal = {}
    Removes = FALSE
INVARIANT OneWriter
