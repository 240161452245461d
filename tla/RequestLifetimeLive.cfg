SPECIFICATION FairSpec
CONSTANTS
    Requests = {r1, q1}
    Probes = {q1}
    Pids = {p1, p2}
    NoReq = NoReq
    NoPid = NoPid
INVARIANTS
    TypeOK
    IInv
PROPERTIES
    GoneIsRetired
    GoneEndsThread
    SentIsHandled
    KeepsPromise
CHECK_DEADLOCK FALSE
