CONSTANTS
    t1 = t1
    t2 = t2
    p1 = p1
    p2 = p2
    Threads <- MCThreads
    Pages <- MCPages
    PageSize = 96
    UnitSize = 16
    HeaderFields = 12
    Sizes = {2, 4}
    MaxLive = 2
    LRU = LRU
    NULL = NULL

SPECIFICATION FairSpec

INVARIANT TypeOK
INVARIANT NoOverlap
INVARIANT BitmapFaithful
INVARIANT ExclusiveOwnership
INVARIANT SuperblockIndexedByLfb
INVARIANT ReclaimOnlyEmpty
INVARIANT EmptyPageOnlyInLru

PROPERTY GrabberEventuallyServed
PROPERTY TierRefinement
