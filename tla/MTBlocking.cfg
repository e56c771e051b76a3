SPECIFICATION FairSpec
CONSTANTS
    c1 = c1
    c2 = c2
    c3 = c3
    f1 = f1
    f2 = f2
    f3 = f3
    Conn = {c1, c2, c3}
    Fd = {f1, f2, f3}
    None = None
    MaxConnections = 2
    MaxLate = 2
INVARIANTS RegistryExact FdOwnership LateOnce JoinLeavesOne TerminateExplained
PROPERTIES StopsCleanly
CHECK_DEADLOCK FALSE
