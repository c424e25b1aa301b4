SPECIFICATION Spec
CONSTANTS
    p1 = p1
    p2 = p2
    Pages <- TwoPages
    Nothing = Nothing
    SockCap = 1
    MaxChat = 3
    Quotes = {1}
    MaxMoves = 1
INVARIANTS PagesMissNothing ChatIsRelayed
PROPERTIES ListsGoForward PagesAreCurrent PagesAreForgotten
CHECK_DEADLOCK FALSE
