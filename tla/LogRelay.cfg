SPECIFICATION Spec
CONSTANTS
    m1 = m1
    m2 = m2
    ModList <- TwoModules
    BufLen = 2
    PipeCap = 2
    MaxSaid <- Sizes
    BreakAt <- Early
    MaxRestarts = 1
INVARIANTS Relayed Attributed BurstsBreak
PROPERTY Drained
CHECK_DEADLOCK FALSE
