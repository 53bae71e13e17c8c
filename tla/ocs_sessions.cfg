CONSTANTS
    c1 = c1  c2 = c2  c3 = c3  c4 = c4
    s1 = s1  s2 = s2  ghost = ghost  x1 = x1  x2 = x2
    NoId = NoId
    NoSession = NoSession
    Calls = {c1, c2, c3, c4}
    Subscribers = {s1, s2, ghost}
    Sessions = {x1, x2, c1, c2, c3, c4}
    Accounts = {s1, s2}
    InitialBalance <- MCBalance
    Offer <- SessionsOffer
    After <- SessionsAfter
SPECIFICATION FairSpec
CHECK_DEADLOCK FALSE
INVARIANT CreditConserved
INVARIANT BooksSettle
PROPERTY LedgerSpec
PROPERTY EveryRequestAnswered
