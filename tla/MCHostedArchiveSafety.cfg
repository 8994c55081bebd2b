SPECIFICATION Spec
CONSTANTS
    Callers = {c1}
    Worker = Worker
    Limit = 4
    Page = 1
    MaxRecords = 2
    Activities = {2}
    MaxFaults = 1
    MaxCrashes = 1
INVARIANTS TypeOK AcknowledgedIsOnDisk ArchivedOnce NeverGap CatchUpIsConfirmed
CHECK_DEADLOCK FALSE
