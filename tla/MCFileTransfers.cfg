\* Two files, one retry, uploads of one piece, three events.
SPECIFICATION FairSpec
CONSTANTS
    Files = {f1, f2}
    Poll = poll
    Loose = loose
    Job = job
    Retries = 1
    Pieces = 1
    MaxEvents = 3
INVARIANTS TypeOK PendingIsUnderway ListIsNewer
PROPERTIES SupersededIsNotSent StoppedSendsNothing ViewCatchesUp
CHECK_DEADLOCK FALSE
