SPECIFICATION FairSpec
CONSTANTS
    MaxTask = 3
    PipeSize = 2
    MaxInterrupts = 3
    MaxStrikes = 4
    Flpr = TRUE
INVARIANTS TypeOK NoStandoff Quiet InStep 
PROPERTIES Returns
CHECK_DEADLOCK FALSE
