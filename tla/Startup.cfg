SPECIFICATION Spec
CONSTANTS
    m1 = m1
    m2 = m2
    m3 = m3
    Managers <- ThreeStarts
    NoOne = NoOne
    MaxLines = 2
INVARIANTS NamesTheServer LogIsItsOwn
PROPERTY OneServer
CHECK_DEADLOCK FALSE
