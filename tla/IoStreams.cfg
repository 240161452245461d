SPECIFICATION FairSpec
CONSTANTS
    Winches = 1
    Input = 3
    Output = 2
    SocketCap = 1
    PipeCap = 1
INVARIANTS
    OutputComplete
    PacketsIntact
PROPERTIES
    OutputDrains
    ExitArrives
CHECK_DEADLOCK FALSE
