\* One operation of each kind, asked for at most twice, with a reload and a lock.
SPECIFICATION FairSpec
CONSTANTS
    Sends = {s1}
    DialogJoins = {d1}
    NetJoins = {n1}
    MaxOperations = 1
    MaxAsks = 2
    MaxReloads = 1
    MaxLocks = 1
INVARIANTS UnconfirmedIsRecoverable ActsOnce
PROPERTIES PromiseIsKept OutcomeIsShown
CHECK_DEADLOCK FALSE
