CONSTANTS
    t1 = t1
    t2 = t2
    p1 = p1
    p2 = p2
    Threads <- MCThreads
    Pages <- MCPages
    PageSize = 96
    UnitSize = 16
    HeaderFields = 12
    Sizes = {2, 4}
    MaxLive = 3
    LRU = LRU
    NULL = NULL

SPECIFICATION Spec

INVARIANT ListConsistent
