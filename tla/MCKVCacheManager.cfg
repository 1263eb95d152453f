CONSTANTS
    r1 = r1
    r2 = r2
    x = x
    y = y
    Request <- TwoRequests
    Content <- Contents
    NumBlocks = 4
    BlockSize = 1
    MaxBlocks = 2
    KVLoadFailures = TRUE
SPECIFICATION Spec
SYMMETRY Symmetry
INVARIANTS
    RefCountIsHolders
    FreeQueueIsUnreferenced
    CacheMapConsistent
    SharedOnlyWithSamePrefix
    NoError
