CONSTANTS
    p1 = p1  p2 = p2  p3 = p3  k1 = k1  k2 = k2
    Pushes = {p1, p2, p3}
    Size <- Sizes
    Capacity = 2
    Consumers = {k1, k2}
    BatchSize <- Batches
SPECIFICATION FairSpec
CHECK_DEADLOCK FALSE
INVARIANT RecordsAccounted
INVARIANT AckCoversPack
INVARIANT BatchesShareOut
PROPERTY LogSpec
PROPERTY EveryPushEnds
