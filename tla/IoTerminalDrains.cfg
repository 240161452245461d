SPECIFICATION FairSpec
CONSTANTS
    Winches = 1
    Input = 5
    Output = 3
    SocketCap = 1
    PipeCap = 1
PROPERTY OutputAlwaysDrains
CHECK_DEADLOCK FALSE
