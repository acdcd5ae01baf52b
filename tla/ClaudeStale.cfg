SPECIFICATION Spec
CONSTANTS
    Callers = {c1}
    Listeners = {}
    Reader = reader
    MaxPrompts = 2
    LastTurn = 2
    MaxSaid = 0
    MaxAsks = 0
    CanCancel = TRUE
    CanInterrupt = FALSE
    CanExit = FALSE
    CanTooLong = FALSE
    MaxLines = 2
INVARIANTS ResultMatches
CHECK_DEADLOCK FALSE
