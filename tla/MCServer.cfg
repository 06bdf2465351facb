SPECIFICATION ServerSpec
CONSTANTS
    c1 = c1
    c2 = c2
    NotInt = NotInt
    Environment <- MCEnvironment
    Conn = {c1, c2}
    MaxConns = 1
    MaxSignals = 2
CHECK_DEADLOCK FALSE
INVARIANTS
    ServerInv
    NoneCutShort
    NeverSilentlyStops
    ServesOnlyConfigured
    UserIsKnown
PROPERTIES
    NoStatementCut
    StopsWhenTold
