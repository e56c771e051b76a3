SPECIFICATION FairSpec
CONSTANTS
    c1 = c1
    c2 = c2
    a1 = a1
    w1 = w1
    None = None
    Conn = {c1, c2}
    Fd = {1}
    Acceptor = {a1}
    Worker = {w1}
    Leavers = {c1}
    MaxCmds = 1
    MaxEvents = 1
    Stops = TRUE
    CtlMayFail = TRUE
INVARIANT NothingLeaks
PROPERTIES StopEnds Answered
CHECK_DEADLOCK FALSE
