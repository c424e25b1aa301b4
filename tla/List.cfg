SPECIFICATION Spec
CONSTANTS
    h1 = h1
    h2 = h2
    a = a
    b = b
    c = c
    Heads <- TwoHeads
    Entries <- ThreeEntries
    Null = Null
INVARIANTS Rings PredicatesTell VisitsAll
PROPERTY ImplementsRows
CHECK_DEADLOCK FALSE
