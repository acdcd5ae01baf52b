SPECIFICATION Spec
CONSTANTS
    Callers = {c1, c2}
    Listeners = {l1}
    Reader = reader
    MaxPrompts = 2
    LastTurn = 2
    MaxSaid = 1
    MaxAsks = 0
    CanCancel = FALSE
    CanInterrupt = TRUE
    CanExit = TRUE
    CanTooLong = TRUE
    MaxLines = 1
SYMMETRY Symmetry
INVARIANTS TextComplete
PROPERTIES NoTextAfterTurnEvent
CHECK_DEADLOCK FALSE
