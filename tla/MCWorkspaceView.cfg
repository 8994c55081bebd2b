\* Two conversations of one message each, one to a page; three events.
SPECIFICATION Spec
CONSTANTS
    Convs = {a, b}
    None = None
    Watch = watch
    Background = back
    UserTasks = {u1}
    PageSize = 1
    OldMessages = 1
    MaxArrivals = 1
    MaxEvents = 3
INVARIANTS LockedIsBlank LoadedIsContiguous
SYMMETRY Symmetry
PROPERTIES TailNeverRegresses
CHECK_DEADLOCK FALSE
