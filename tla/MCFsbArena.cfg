\* The LP64 layout on 4 KiB pages: FsbaPageHeader is 32 bytes, a Word 8.
\* Blocks of 1024 bytes: _init_fsb_arena takes a one-word bitmap and a
\* 1024-byte header, so three blocks fit in a page.  Three pages: enough
\* for two full pages on one list, and for a third page when both are full.
CONSTANTS
    p1 = p1
    p2 = p2
    p3 = p3
    Pages <- MCPages
    NULL = NULL
    PageSize = 4096
    PageHeader = 32
    WordBytes = 8
    WordWidth = 64
    BlockSize = 1024
    BlockAlignment = 8
SPECIFICATION Spec
\* abort() and a crash stop the process
CHECK_DEADLOCK FALSE
INVARIANT PagesAccounted
