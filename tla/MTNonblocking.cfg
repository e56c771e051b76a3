SPECIFICATION Spec
CONSTANTS
    c1 = c1
    c2 = c2
    a1 = a1
    a2 = a2
    w1 = w1
    w2 = w2
    None = None
    Conn = {c1, c2}
    Fd = {1, 2}
    Acceptor = {a1, a2}
    Worker = {w1, w2}
    Leavers = {c1}
    MaxCmds = 2
    MaxEvents = 2
    Stops = FALSE
    CtlMayFail = FALSE
SYMMETRY Symmetry
INVARIANTS OneHandler AnswersSafe FaultNeedsReuse
CHECK_DEADLOCK FALSE
