SPECIFICATION Spec
CONSTANTS
    NumMods = 2
    Pids = {p1, p2, p3}
    NoPid = NoPid
    MaxFail = 2
    MaxRequests = 1
    StartLists <- MCStartLists
    ArgLists <- MCArgLists
SYMMETRY Symmetry
INVARIANTS TypeOK RunningIsOurs KillsOwnChild NoStrayChild DeathsNotMissed DeadIsHandled ShutdownLeavesNone
PROPERTIES SupervisedSafely
CHECK_DEADLOCK FALSE
