\* Blocks of 2048 bytes on 4 KiB pages (LP64 layout): the header rounds up
\* to one block, so _init_fsb_arena computes one block per page, as it does
\* for every block size from 1366 to 2048 bytes.  A page is full as soon as
\* it is allocated from.
CONSTANTS
    p1 = p1
    p2 = p2
    p3 = p3
    Pages <- MCPages
    NULL = NULL
    PageSize = 4096
    PageHeader = 32
    WordBytes = 8
    WordWidth = 64
    BlockSize = 2048
    BlockAlignment = 8
SPECIFICATION Spec
\* abort() and a crash stop the process
CHECK_DEADLOCK FALSE
INVARIANT NoWildDereference
