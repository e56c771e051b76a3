SPECIFICATION FairSpec
CONSTANTS
    c1 = c1
    c2 = c2
    None = None
    Conn = {c1, c2}
    Fd = {1, 2}
    Leavers = {c1}
    MaxCmds = 2
    Stops = TRUE
    CtlMayFail = TRUE
INVARIANTS NoFault AnswersSafe
PROPERTIES StopEnds Answered
CHECK_DEADLOCK FALSE
