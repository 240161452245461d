SPECIFICATION Spec
CONSTANTS
    Requests = {r1, r2}
    Probes = {}
    Pids = {p1, p2}
    NoReq = NoReq
    NoPid = NoPid
SYMMETRY Symmetry
INVARIANTS
    OnlyCancelledAreSignalled
    ExitIsFinal
    NoStrays
    NothingSurvives
CHECK_DEADLOCK FALSE
