----------------------------- MODULE PageClients ------------------------------
(***************************************************************************)
(* The linear arena (Arena) and the growable array (MMArray) in one        *)
(* process.  Both take their memory straight from the page primitive      *)
(* (mmap, mremap, munmap), so they share the one address space `mapped`:   *)
(* an mmap of either lands only on pages neither holds, an mremap of the   *)
(* array may move it next to or between the arena's regions, and a         *)
(* munmap of either unmaps whatever pages the length it passes covers.     *)
(* The client interleaves calls to the two freely; the process stops at    *)
(* the array's abort().                                                    *)
(***************************************************************************)
CONSTANTS
    PageSize, NumPages,
    RegionHeader, ArenaOffset, MaxAlign, Capacities, Sizes, Alignments, MaxBlocks,
    HeaderSize, Lengths, ItemSizes, Increments, MaxLength, NoArray

VARIABLES
    mapped,                             \* shared: the pages mmapped
    regions, nrc, blocks, ret,          \* the arena
    array, data, written, pc            \* the array

arenaVars == <<regions, nrc, blocks, ret>>
arrayVars == <<array, data, written, pc>>
vars == <<mapped, arenaVars, arrayVars>>

A == INSTANCE Arena
M == INSTANCE MMArray

Init == A!Init /\ M!MMInit

Next ==
    /\ pc = "run"
    /\ \/ A!Next /\ UNCHANGED arrayVars
       \/ M!MMNext /\ UNCHANGED arenaVars

Spec == Init /\ [][Next]_vars

-----------------------------------------------------------------------------
(* Properties                                                              *)

\* Every variable keeps its type; in particular the capacity mmarray_allocate
\* and mmarray_grow compute from calc_memsize, (memsize - sizeof(ArrayHeader))
\* / item_size, stays a natural number (the unsigned subtraction never wraps).
TypeOK == A!TypeOK /\ M!MMTypeOK

\* _arena_alloc and _arena_fit hand out aligned, disjoint blocks inside
\* live regions (see Arena), while the array moves around them.
BlocksDisjointAligned == A!BlocksDisjointAligned

\* _arena_alloc and _arena_fit return nullptr only when mmap failed.
NullOnlyWhenMapFails == A!NullOnlyWhenMapFails

\* Every mapped page belongs to exactly one object, and every object's
\* pages are mapped: the lengths delete_arena passes to munmap cover the
\* arena's mappings and nothing else, and the old size mmarray_grow passes
\* to mremap is the array's real mapping, so no page is leaked and no
\* object loses a page to another's munmap or mremap.
PagesOwned ==
    /\ mapped = A!Footprint \cup M!MMFootprint
    /\ A!Footprint \cap M!MMFootprint = {}

\* The array keeps its items and appends at its end (see MMArray) while
\* the arena maps and unmaps pages around it.
ArrayRefinement == M!ArrayRefinement

====
