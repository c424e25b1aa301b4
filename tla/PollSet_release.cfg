SPECIFICATION Spec
CONSTANTS
    c1 = c1
    c2 = c2
    m1 = m1
    Conns <- OneConn
    ModList <- OneModule
    Listen = Listen
    Free = Free
    None = None
    MaxFail = 2
    MaxLeaks = 0
    MaxFd = 4
INVARIANT SessionsReleased
CHECK_DEADLOCK FALSE
