SPECIFICATION FairSpec
CONSTANTS
    Callers = {c1}
    Worker = Worker
    Limit = 1
    Page = 1
    MaxRecords = 1
    Activities = {1}
    MaxFaults = 1
    MaxCrashes = 1
PROPERTIES Settles CatchUpEnds
CHECK_DEADLOCK FALSE
