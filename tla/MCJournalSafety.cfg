SPECIFICATION FairSpec
CONSTANTS
    Ids = {i1}
    Contents = {x, y}
    NoContent = NoContent
    Callers = {c1, c2}
    CommandIds = {}
    Limit = 2
    Retention = 2
    MaxTime = 2
    OutliveRetention = FALSE
INVARIANTS TypeOK EffectIsJournalled ToldIsDurable ToldIsTrue PausedIsQuiescent
PROPERTIES AdmissionReleased
