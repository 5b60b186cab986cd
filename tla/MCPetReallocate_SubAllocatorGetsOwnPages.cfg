\* UNIT_SIZE 2, pages of 8 bytes with a one-unit header: max_data_units is
\* 3, so 1 .. 4 bytes go to the bitmap tier and 5 or more are mapped.
\* Words of 4 bytes give cleanse a leading, a whole-word and a trailing part.
CONSTANTS
    i1 = i1
    i2 = i2
    Ids <- MCIds
    NULL = NULL
    UnitSize = 2
    PageSize = 8
    HeaderFields = 2
    WordBytes = 4
    Sizes = {1, 3, 4, 6, 11, 17}

SPECIFICATION Spec

\* abort() and the undefined ends of the D-to-T branch stop the process
CHECK_DEADLOCK FALSE

INVARIANT SubAllocatorGetsOwnPages
