SPECIFICATION FairSpec
CONSTANTS
    MaxAsks = 1
    MaxCalls = 1
    MaxTotal = 1
    WatchedCalls = 0
    MaxModes = 0
    MaxStops = 0
    Capacity = 1
    StopsWatched = FALSE
    Tabs = {}
    CallKinds <- MCShell
INVARIANTS KillTakesChildren
CHECK_DEADLOCK FALSE
