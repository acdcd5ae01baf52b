SPECIFICATION AttentiveSpec
CONSTANTS
    Callers = {c1}
    Listeners = {}
    Reader = reader
    MaxPrompts = 2
    LastTurn = 2
    MaxSaid = 0
    MaxAsks = 1
    CanCancel = TRUE
    CanInterrupt = FALSE
    CanExit = FALSE
    CanTooLong = FALSE
    MaxLines = 2
INVARIANTS WaiterNotForgotten MatchesUntilAbandoned NoFriendlyFire ResultUsedOnce
PROPERTIES SessionSpec PromptReturns AbandonedTurnStops
CHECK_DEADLOCK FALSE
