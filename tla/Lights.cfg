SPECIFICATION Spec
CONSTANTS
    Pages = {p1, p2}
    None = None
    MaxClicks = 3
PROPERTY Settles
CHECK_DEADLOCK FALSE
