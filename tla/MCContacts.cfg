SPECIFICATION FairSpec
CONSTANTS
    a = a
    b = b
    m1 = m1
    Nodes = {a, b}
    Messages = {m1}
    From <- FromOne
    To <- ToOne
    MaxPending = 1
    Batch = 1
    MaxFailures = 1
    MaxRestarts = 1
INVARIANTS MessageArchivedOnce DeliveredIsTrue AcceptedIsPending BlockedIsSilent FileReopens
CHECK_DEADLOCK FALSE
PROPERTIES AcceptedIsSettled
