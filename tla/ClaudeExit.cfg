SPECIFICATION FairSpec
CONSTANTS
    Callers = {c1}
    Listeners = {}
    Reader = reader
    MaxPrompts = 1
    LastTurn = 1
    MaxSaid = 0
    MaxAsks = 0
    CanCancel = FALSE
    CanInterrupt = FALSE
    CanExit = TRUE
    CanTooLong = FALSE
    MaxLines = 2
PROPERTIES ExitEndsPrompt
CHECK_DEADLOCK FALSE
