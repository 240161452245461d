SPECIFICATION Spec
CONSTANTS
    Clients = {c1, c2}
    NPorts = 2
    NoClient = NoClient
SYMMETRY Symmetry
INVARIANT
    StreamIsAlwaysOwn
CHECK_DEADLOCK FALSE
