SPECIFICATION FairSpec
CONSTANTS
    INT = INT
    TERM = TERM
    HUP = HUP
    QUIT = QUIT
    Signals <- MCSignals
    Interrupt = INT
    MaxSignals = 2
    Jobs <- MCJobs
    NoPlan = NoPlan
INVARIANTS
    SignalsAreRelayed
    ChildIsAttended
    RefusedStartsNothing
    LoadersStayApart
    EndpointsAreTheVms
    CallersVariablesArrive
    DriversMatchTransport
PROPERTY LauncherEnds
CHECK_DEADLOCK FALSE
