CONSTANTS
    c1 = c1  c2 = c2  c3 = c3
    k1 = k1  k2 = k2
    Calls = {c1, c2, c3}
    Keys = {k1, k2}
    Key <- SameClient
    Scale = 2
    Capacity = 4
    RateNum = 3
    RateDen = 2
    MaxClock = 2
SPECIFICATION FairSpec
CHECK_DEADLOCK FALSE
INVARIANT TypeOK
INVARIANT TokensConserved
INVARIANT NoFalseDenial
INVARIANT SerialAdmissionBound
PROPERTY EveryCallDecided
