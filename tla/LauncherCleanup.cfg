SPECIFICATION Spec
CONSTANTS
    INT = INT
    TERM = TERM
    HUP = HUP
    QUIT = QUIT
    Signals <- MCSignals
    Interrupt = INT
    MaxSignals = 1
    Jobs <- SingleSignal
    NoPlan = NoPlan
INVARIANT ScriptIsRemoved
CHECK_DEADLOCK FALSE
