SPECIFICATION FairSpec
CONSTANTS
    MaxAsks = 2
    MaxCalls = 2
    MaxTotal = 2
    WatchedCalls = 1
    MaxModes = 1
    MaxStops = 1
    Capacity = 1
    StopsWatched = FALSE
    Tabs = {t1}
    CallKinds <- MCCalls
INVARIANTS AskIsAdmitted CardIsOwn EveryCardSettles PlanRefuses 
PROPERTIES StopEndsTurn
CHECK_DEADLOCK FALSE
