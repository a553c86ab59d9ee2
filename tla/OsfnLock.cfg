SPECIFICATION FairSpec
CONSTANTS
    Proc = {a, b}
    LockPeriod = 2
    MinLeft = 1
    WaitPeriod = 2
    MaxDelay = 3
    Mortal = {a}
    Removes = TRUE
INVARIANTS TypeOK ExclusiveUnlessForced
PROPERTIES SupersededStops Recovers
