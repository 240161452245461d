SPECIFICATION Spec
CONSTANTS
    Clients = {c1, c2, c3}
    NPorts = 2
    NoClient = NoClient
SYMMETRY Symmetry
INVARIANTS
    PortIsExclusive
    NoPortMeansBusy
    StreamIsOwn
CHECK_DEADLOCK FALSE
