SPECIFICATION Spec
CONSTANTS
    c1 = c1
    c2 = c2
    m1 = m1
    Conns <- TwoConns
    ModList <- OneModule
    Listen = Listen
    Free = Free
    None = None
    MaxFail = 2
    MaxLeaks = 1
    MaxFd = 6
INVARIANTS NeverBlocks PollsWhatIsOpen EveryFdIsOwned
PROPERTY EveryClientIsHeard
CHECK_DEADLOCK FALSE
