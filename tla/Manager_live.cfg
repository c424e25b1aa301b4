SPECIFICATION Spec
CONSTANTS
    NumMods = 1
    Pids = {p1, p2}
    NoPid = NoPid
    MaxFail = 2
    MaxRequests = 2
    StartLists <- OneStart
    ArgLists <- OneArg
PROPERTIES ModulesEnd Supervised
CHECK_DEADLOCK FALSE
