SPECIFICATION Spec
CONSTANTS
    NumMods = 1
    Pids = {p1, p2}
    NoPid = NoPid
    MaxFail = 2
    MaxRequests = 1
    StartLists <- OneStart
    ArgLists <- OneArg
PROPERTY RestartOnlyTheDead
CHECK_DEADLOCK FALSE
