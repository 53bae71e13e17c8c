CONSTANTS
    Clients = {p1}
    Keys = {k1}
    NoKey = NoKey
    Capacity = 2
    MaxNodes = 2
    IdleTimeout = 2
    MaxClock = 2
SPECIFICATION FairSpec
CHECK_DEADLOCK FALSE
PROPERTY EveryCallReturns
