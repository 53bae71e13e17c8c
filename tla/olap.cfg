CONSTANTS
    Collectors = {c1}
    Lines = 2
    MaxBatches = 3
    Free = Free
SPECIFICATION FairSpec
CHECK_DEADLOCK FALSE
INVARIANT TypeOK
INVARIANT BatchesContiguous
INVARIANT CommittedIsWhole
PROPERTY BatchesSettle
