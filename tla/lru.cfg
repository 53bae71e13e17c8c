CONSTANTS
    Clients = {p1, p2}
    Keys = {k1, k2, k3}
    NoKey = NoKey
    Capacity = 2
    MaxNodes = 3
    IdleTimeout = 2
    MaxClock = 3
SPECIFICATION Spec
CHECK_DEADLOCK FALSE
SYMMETRY Symmetry
INVARIANT TypeOK
INVARIANT TapeWellFormed
INVARIANT LiveSessionsFirst
INVARIANT NoLostWakeup
PROPERTY RecencySpec
