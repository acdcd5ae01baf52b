SPECIFICATION MCSpec
CONSTANTS
    Requesters = {r1, r2}
    MaxTick = 3
    MaxControls = 1
    FineClock = TRUE
INVARIANTS ReplyIsOwn EntryIsLive
           HistoriesFound CallsAnswered RequestsFaithful DiffFaithful FilesSafe OfferedToolsRun
PROPERTIES RequestReturns
CHECK_DEADLOCK FALSE
