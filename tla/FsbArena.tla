------------------------------- MODULE FsbArena ------------------------------
(***************************************************************************)
(* The fixed-size block arena of src/src/fsb_arena.c.  Pages are model     *)
(* values; each keeps its header (num_free, the bitmap as the set of used  *)
(* block indices, and its next/prev links) in the functions below.  The    *)
(* arena is not locked: every call is one step of its single caller.       *)
(***************************************************************************)
EXTENDS Integers, FiniteSets, FiniteSetsExt

CONSTANTS
    Pages,          \* the page addresses mmap may return
    PageSize,       \* sys_page_size
    PageHeader,     \* sizeof(FsbaPageHeader), the bitmap's offset
    WordBytes,      \* sizeof(Word)
    WordWidth,      \* WORD_WIDTH
    BlockSize,      \* block_size passed to _init_fsb_arena: sizeof(T)
    BlockAlignment, \* block_alignment passed to it: alignof(T)
    NULL

ASSUME NULL \notin Pages

\* align_unsigned(v, a) of allocator.h
AlignUp(v, a) == ((v + a - 1) \div a) * a

\* arena->block_size: the larger of the block size and its alignment
FsbBlockSize == IF BlockSize < BlockAlignment THEN BlockAlignment ELSE BlockSize

\* header_size for a bitmap of k words: rounded up to a whole block
FsbHeaderSize(k) == AlignUp(PageHeader + WordBytes * k, FsbBlockSize)

\* the blocks that fit in a page after a header with k bitmap words
BlocksFor(k) == (PageSize - FsbHeaderSize(k)) \div FsbBlockSize

\* _init_fsb_arena's do-while loop: add a bitmap word while the blocks
\* that fit outnumber the bits
RECURSIVE BitmapWords(_)
BitmapWords(k) == IF BlocksFor(k) > k * WordWidth THEN BitmapWords(k + 1) ELSE k

\* _init_fsb_arena returns true: the block fits after a one-word header
\* (max_block_size is unsigned; the inputs keep it from wrapping)
InitSucceeds == FsbHeaderSize(1) <= PageSize /\ FsbBlockSize <= PageSize - FsbHeaderSize(1)

ASSUME InitSucceeds

\* arena->bitmap_size and arena->blocks_per_page
BitmapSize == BitmapWords(1)
BlocksPerPage == BlocksFor(BitmapSize)

\* the bits of the bitmap the allocation scan looks at
Bits == 0 .. BitmapSize * WordWidth - 1

VARIABLES
    links,      \* [nx, pv: page links; avail, full: arena list heads]
    mapped,     \* the pages currently mmapped
    numFree,    \* page->num_free
    used,       \* the set bits of page->bitmap
    held,       \* blocks the client holds, as <<page, index>>
    pc          \* "run", or how the process stopped: "abort", "crash"

vars == <<links, mapped, numFree, used, held, pc>>

\* add_to_list: insert page before the first one and make it the head
AddToList(L, f, p) ==
    LET h == L[f] IN
    IF h = NULL
    THEN [L EXCEPT !.nx[p] = p, !.pv[p] = p, ![f] = p]
    ELSE [L EXCEPT !.nx = [@ EXCEPT ![p] = h, ![L.pv[h]] = p],
                   !.pv = [@ EXCEPT ![p] = L.pv[h], ![h] = p],
                   ![f] = p]

\* delete_from_list: a page whose next and prev are equal is taken for the
\* last one and the list is emptied
DeleteFromList(L, f, p) ==
    IF L.nx[p] = L.pv[p]
    THEN [L EXCEPT ![f] = NULL]
    ELSE [L EXCEPT ![f] = IF @ = p THEN L.nx[p] ELSE @,
                   !.pv = [@ EXCEPT ![L.nx[p]] = L.pv[p]],
                   !.nx = [@ EXCEPT ![L.pv[p]] = L.nx[p]]]

\* the bitmap scan and the rest of fsb_arena_allocate on page p, whose
\* header (in L, nf, us) is already on the avail list: the first clear
\* bit of all bitmap_size words, whatever blocks_per_page is
TakeBlock(p, L, nf, us) ==
    \/ /\ Bits \ us[p] = {}
       /\ pc' = "abort"                     \* "FSB arena: bad bitmap"
       /\ UNCHANGED <<links, numFree, used, held>>
    \/ /\ Bits \ us[p] # {}
       /\ LET i == Min(Bits \ us[p])
              n == nf[p] - 1
          IN  /\ used' = [us EXCEPT ![p] = @ \cup {i}]
              /\ numFree' = [nf EXCEPT ![p] = n]
              /\ links' = IF n = 0
                          THEN AddToList(DeleteFromList(L, "avail", p), "full", p)
                          ELSE L
              /\ held' = held \cup {<<p, i>>}
       /\ UNCHANGED pc

\* fsb_arena_allocate: the head of avail_pages, or a fresh page
Allocate ==
    /\ pc = "run"
    /\ \/ /\ links.avail # NULL
          /\ TakeBlock(links.avail, links, numFree, used)
          /\ UNCHANGED mapped
       \/ /\ links.avail = NULL
          /\ \E p \in Pages \ mapped :
                /\ mapped' = mapped \cup {p}
                /\ TakeBlock(p, AddToList(links, "avail", p),
                             [numFree EXCEPT ![p] = BlocksPerPage],
                             [used EXCEPT ![p] = {}])
       \/ /\ links.avail = NULL
          /\ UNCHANGED vars                 \* mmap failed: nullptr

\* fsb_arena_release of a block the client holds
Release(b) ==
    LET p == b[1]
        n == numFree[p] + 1
        list == links.avail
    IN  /\ pc = "run"
        /\ held' = held \ {b}
        /\ used' = [used EXCEPT ![p] = @ \ {b[2]}]
        /\ numFree' = [numFree EXCEPT ![p] = n]
        /\ \/ /\ n = BlocksPerPage
              /\ list = NULL
              /\ pc' = "crash"              \* list->next on nullptr
              /\ UNCHANGED <<links, mapped>>
           \/ /\ n = BlocksPerPage
              /\ list # NULL
              /\ links.nx[list] # links.pv[list]
              /\ links' = DeleteFromList(links, "avail", p)
              /\ mapped' = mapped \ {p}      \* free_page
              /\ UNCHANGED pc
           \/ /\ n = BlocksPerPage
              /\ list # NULL
              /\ links.nx[list] = links.pv[list]
              /\ UNCHANGED <<links, mapped, pc>>
           \/ /\ n # BlocksPerPage
              /\ n = 1
              /\ links' = AddToList(DeleteFromList(links, "full", p), "avail", p)
              /\ UNCHANGED <<mapped, pc>>
           \/ /\ n # BlocksPerPage
              /\ n # 1
              /\ UNCHANGED <<links, mapped, pc>>

\* destroy_fsb_arena: each loop frees `page` and reads page->next again, so
\* a list of more than one page reads an unmapped header
Destroy ==
    LET Single(h) == IF h = NULL THEN TRUE ELSE links.nx[h] = h IN
    /\ pc = "run"
    /\ \/ /\ Single(links.avail) /\ Single(links.full)
          /\ mapped' = mapped \ {links.avail, links.full}
          /\ links' = [links EXCEPT !.avail = NULL, !.full = NULL]
          /\ held' = {}
          /\ UNCHANGED <<numFree, used, pc>>
       \/ /\ ~(Single(links.avail) /\ Single(links.full))
          /\ pc' = "crash"
          /\ UNCHANGED <<links, mapped, numFree, used, held>>

-----------------------------------------------------------------------------

\* _init_fsb_arena, which succeeded (InitSucceeds): both lists empty, no
\* page mapped
Init ==
    /\ links = [nx |-> [p \in Pages |-> NULL], pv |-> [p \in Pages |-> NULL],
                avail |-> NULL, full |-> NULL]
    /\ mapped = {}
    /\ numFree = [p \in Pages |-> 0]
    /\ used = [p \in Pages |-> {}]
    /\ held = {}
    /\ pc = "run"

Next ==
    \/ Allocate
    \/ \E b \in held : Release(b)
    \/ Destroy

Spec == Init /\ [][Next]_vars

-----------------------------------------------------------------------------
(* Properties                                                              *)

TypeOK ==
    /\ links.avail \in Pages \cup {NULL}
    /\ links.full \in Pages \cup {NULL}
    /\ links.nx \in [Pages -> Pages \cup {NULL}]
    /\ links.pv \in [Pages -> Pages \cup {NULL}]
    /\ mapped \subseteq Pages
    /\ numFree \in [Pages -> 0 .. BlocksPerPage]
    /\ used \in [Pages -> SUBSET Bits]
    /\ held \subseteq Pages \X Bits
    /\ pc \in {"run", "abort", "crash"}

\* the pages reached from list head h by following next
RECURSIVE Reach(_, _)
Reach(h, seen) ==
    IF h = NULL \/ h \in seen THEN seen ELSE Reach(links.nx[h], seen \cup {h})

\* The arena's lists keep track of its pages (fsb_arena.h: avail_pages is
\* the list of pages with free blocks, full_pages the list of full ones):
\* after any sequence of fsb_arena_allocate and fsb_arena_release, the pages
\* on avail_pages are the mapped pages with a free block and those on
\* full_pages the mapped pages without one, so no page is lost to the
\* arena and no unmapped page is handed out.
PagesAccounted ==
    pc = "run" =>
        /\ Reach(links.avail, {}) = {p \in mapped : numFree[p] > 0}
        /\ Reach(links.full, {}) = {p \in mapped : numFree[p] = 0}

\* fsb_arena_release and destroy_fsb_arena only follow pointers to pages
\* the arena has mapped: releasing a block the client holds, or destroying
\* the arena, never reads a header through nullptr or after munmap.
NoWildDereference == pc # "crash"

====
