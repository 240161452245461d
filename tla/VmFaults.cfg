SPECIFICATION FairRuntimeSpec
CONSTANTS
    Launchers = {l1, l2, l3}
    Environments <- MCEnvironments
    NoLauncher = NoLauncher
INVARIANTS
    OkMeansServed
    AnsweredIsJoined
    ColdStartIsShared
    FailedStartIsForgotten
    SessionHasServer
    NoServerIsLeft
PROPERTIES
    EnsureEnds
    BootIsDecided
CHECK_DEADLOCK FALSE
