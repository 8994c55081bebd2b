SPECIFICATION Spec
CONSTANTS
    Ids = {i1}
    Contents = {x}
    NoContent = NoContent
    Callers = {c1}
    CommandIds = {}
    Limit = 1
    Retention = 1
    MaxTime = 0
    OutliveRetention = FALSE
INVARIANTS RefusedIsNotExecuted
