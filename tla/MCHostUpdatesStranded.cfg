SPECIFICATION FairSpec
CONSTANTS
    Views = {v1, v2}
    Releases = {r1}
    Gates = {main, network}
    Main = main
    NoOwner = NoOwner
    MaxWork = 1
    MaxUnlocks = 1
    MaxTimeouts = 1
PROPERTIES ClosedViewReleases
CHECK_DEADLOCK FALSE
