SPECIFICATION Spec
CONSTANTS
    Clients = {c1, c2}
    NoClient = NoClient
    MaxCmdLen = 8
    HeaderSize = 2
    Lengths <- MCLengths
    MaxCalls = 2
INVARIANTS FitsBuffer NeverWaitsForBytes
PROPERTIES RunsWholeCommands Answers CallsReturn
CHECK_DEADLOCK FALSE
