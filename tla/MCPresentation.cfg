\* One window, every kind of change; the theorems are about any number.
SPECIFICATION FairSpec
CONSTANTS
    Viewers = {v1}
    Nobody = Nobody
    MaxService = 1
    MaxClient = 1
    MaxUnlocks = 1
    MaxLapses = 1
INVARIANTS AnswersAreFresh LockHidesContent
PROPERTIES ChangeIsReported
CHECK_DEADLOCK FALSE
