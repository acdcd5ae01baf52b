SPECIFICATION FairSpec
CONSTANTS
    Callers = {c1}
    Listeners = {}
    Reader = reader
    MaxPrompts = 2
    MaxTurns = 2
    MaxSends = 3
    MaxCalls = 2
    CanImage = TRUE
    CanCancel = TRUE
INVARIANTS SendableWithoutImages
PROPERTIES SessionSpec CancelledReturns
CHECK_DEADLOCK FALSE
