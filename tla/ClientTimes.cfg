SPECIFICATION Spec
CONSTANTS
    Ids <- OneClient
    Absent = Absent
    Sinces <- MCSinces
    Late <- Winter
    Day = 2
    MaxTime = 7
    MaxConn = 3
    MaxMissed = 3
INVARIANTS ProgramsAgree InventsNoTime WithinTheLogs
PROPERTY CreditsStays
CHECK_DEADLOCK FALSE
