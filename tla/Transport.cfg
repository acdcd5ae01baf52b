SPECIFICATION AttentiveSpec
CONSTANTS
    Writers = {w1, w2}
    Closers = {k1, k2}
    Nobody = nobody
    Lines = {a}
    Frames = {f, g}
    ErrFrame = err
    StdinCap = 1
    StdoutCap = 2
    FrameCap = 1
    CanExit = TRUE
    CanCut = TRUE
    CanTooLong = TRUE
INVARIANTS NoWriteAfterClose ReapedAfterRead
PROPERTIES CloseCompletes ImplementsDuplex
CHECK_DEADLOCK FALSE
