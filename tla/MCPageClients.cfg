\* LP64 layout (offsetof(Region, data) = offsetof(Arena, first) = 16,
\* alignof(max_align_t) = 16, sizeof(ArrayHeader) = 16) and 4 KiB pages.
\* Arena: capacities below and above a page; sizes that fit a region, that
\* leave a tail within 16 bytes of the end (so an aligned start is past it)
\* and that need a region larger than new_region_capacity.  Array: items
\* of 8 bytes never outgrow the first page, items of 3000 bytes need an
\* mremap on every append.  Five pages: enough for the arena's two regions
\* and the array to sit next to each other and run out of room.
CONSTANTS
    PageSize = 4096
    NumPages = 5
    RegionHeader = 16
    ArenaOffset = 16
    MaxAlign = 16
    Capacities = {100, 5000}
    Sizes = {8, 4050, 5000}
    Alignments = {1, 16}
    MaxBlocks = 3
    HeaderSize = 16
    Lengths = {0, 1}
    ItemSizes = {8, 3000}
    Increments = {1, 2}
    MaxLength = 3
    NoArray = NoArray

SPECIFICATION Spec

\* abort() in mmarray_allocate / mmarray_grow ends the process
CHECK_DEADLOCK FALSE

INVARIANT TypeOK
INVARIANT BlocksDisjointAligned
INVARIANT NullOnlyWhenMapFails
INVARIANT PagesOwned
PROPERTY ArrayRefinement
