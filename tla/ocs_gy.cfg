CONSTANTS
    c1 = c1  c2 = c2  c3 = c3  c4 = c4
    s1 = s1  s2 = s2  ghost = ghost  x1 = x1  x2 = x2
    NoId = NoId
    NoSession = NoSession
    Calls = {c1, c2, c3}
    Subscribers = {s1, s2, ghost}
    Sessions = {x1, x2}
    Accounts = {s1, s2}
    InitialBalance <- MCBalance
    Offer <- GyOffer
    After <- NoOrder
SPECIFICATION Spec
CHECK_DEADLOCK FALSE
INVARIANT TypeOK
INVARIANT CreditNeverLost
INVARIANT NoOversell
PROPERTY ServiceSpec
