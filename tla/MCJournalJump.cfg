SPECIFICATION Spec
CONSTANTS
    Ids = {i1, i2}
    Contents = {x}
    NoContent = NoContent
    Callers = {c1, c2}
    CommandIds = {i2}
    Limit = 1
    Retention = 1
    MaxTime = 1
    OutliveRetention = TRUE
SYMMETRY Symmetry
INVARIANTS AtMostOnce
