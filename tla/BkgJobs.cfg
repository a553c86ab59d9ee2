SPECIFICATION FairSpec
CONSTANTS
    NBKG = 3
    MaxJobs = 2
    Pid = {1, 2}
    MaxWaits = 0
INVARIANTS TypeOK TablesAgree NoJobLost 
CHECK_DEADLOCK TRUE
PROPERTY WaitReturns
