SPECIFICATION Spec
CONSTANTS
    Clients = {a1}
    Topics = {1}
    Settings = {1}
    MaxRequests = 3
    MaxCalls = 2
    MaxNotes = 1
    MaxFaults = 1
    MaxExpiries = 1
    CanRetry = TRUE
INVARIANTS RetryIsRebuilt
CHECK_DEADLOCK FALSE
