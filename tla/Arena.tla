-------------------------------- MODULE Arena ---------------------------------
(***************************************************************************)
(* The linear (bump) arena of src/src/arena.c.  The arena is one mmap      *)
(* mapping that embeds the first region; every further region is a        *)
(* mapping of its own, appended to the singly linked list that `last`      *)
(* ends.  A region hands out bytes from `tail` upwards.  The arena is not  *)
(* locked: each API call is one step of its single caller.                 *)
(*                                                                         *)
(* The list is a sequence: new_region_alloc is the only code that links a  *)
(* region, and it sets last->next and last together, so `last` is always   *)
(* the end of the sequence.  Addresses are integers; the address space is  *)
(* NumPages pages from 0.                                                  *)
(***************************************************************************)
EXTENDS Integers, Sequences, FiniteSets, FiniteSetsExt

CONSTANTS
    PageSize,       \* sys_page_size
    RegionHeader,   \* REGION_HEADER_SIZE = offsetof(Region, data)
    ArenaOffset,    \* offsetof(Arena, first)
    MaxAlign,       \* alignof(max_align_t)
    NumPages,       \* bound: pages of address space mmap can hand out
    Capacities,     \* capacities passed to create_arena / set_region_capacity
    Sizes,          \* sizes passed to _arena_alloc / _arena_fit
    Alignments,     \* alignments passed to them: powers of two <= MaxAlign
    MaxBlocks       \* bound: blocks the client takes before delete_arena

ASSUME /\ Sizes \subseteq Nat \ {0}
       /\ Alignments \subseteq {2^k : k \in 0 .. MaxAlign} \cap 1 .. MaxAlign

\* ARENA_HEADER_SIZE
ArenaHeader == ArenaOffset + RegionHeader

\* align_unsigned(v, a) and align_unsigned_to_page(v) of allocator.h
AlignUp(v, a) == ((v + a - 1) \div a) * a
AlignToPage(v) == AlignUp(v, PageSize)

VARIABLES
    regions,    \* the region list from &arena->first: [at, base, tail, capacity]
    nrc,        \* arena->new_region_capacity
    mapped,     \* the pages currently mmapped
    blocks,     \* blocks handed to the client: [addr, size, align]
    ret         \* the last call's result and whether its mmap failed

vars == <<regions, nrc, mapped, blocks, ret>>

\* the pages of the mapping [base, base + len), as munmap rounds len up
PagesOf(base, len) == (base \div PageSize) .. ((base + len - 1) \div PageSize)

\* the page runs alloc_mem(len) may get from mmap: len is a page multiple
FreeRuns(len) ==
    {p \in 0 .. NumPages - len \div PageSize :
        PagesOf(p * PageSize, len) \cap mapped = {}}

StartNoAlign(r, al) == r.tail

\* the offset region_alloc would return: the aligned start of free space
Start(r, al) == AlignUp(r.tail + RegionHeader, al) - RegionHeader

\* region_alloc succeeds: neither of its early returns is taken
Fits(r, size, al) ==
    /\ Start(r, al) < r.capacity
    /\ size <= r.capacity - Start(r, al)

\* region_alloc on regions[i], which fits: the block at data[start]
Take(i, size, al) ==
    LET r == regions[i]
        s == Start(r, al)
    IN  /\ regions' = [regions EXCEPT ![i].tail = s + size]
        /\ blocks' = blocks \cup {[addr |-> r.at + RegionHeader + s,
                                   size |-> size, align |-> al]}
        /\ ret' = [res |-> "ok", mapFailed |-> FALSE]
        /\ UNCHANGED <<nrc, mapped>>

\* alloc_mem failed: perror and nullptr
MapFailed ==
    /\ ret' = [res |-> "null", mapFailed |-> TRUE]
    /\ UNCHANGED <<regions, nrc, mapped, blocks>>

RegionCapacityNrc(size) == nrc

\* the capacity new_region_alloc asks create_region for
RegionCapacity(size) == Max({size, nrc})

\* new_region_alloc: create_region(max(size, new_region_capacity)), link it
\* as the last region, then region_alloc from it
NewRegionAlloc(size, al) ==
    LET mem == AlignToPage(RegionCapacity(size) + RegionHeader) IN
    \/ MapFailed
    \/ \E p \in FreeRuns(mem) :
         LET r == [at |-> p * PageSize, base |-> p * PageSize,
                   tail |-> 0, capacity |-> mem - RegionHeader]
         IN  /\ mapped' = mapped \cup PagesOf(p * PageSize, mem)
             /\ UNCHANGED nrc
             /\ IF Fits(r, size, al)
                THEN /\ regions' = Append(regions, [r EXCEPT !.tail = Start(r, al) + size])
                     /\ blocks' = blocks \cup {[addr |-> r.at + RegionHeader + Start(r, al),
                                                size |-> size, align |-> al]}
                     /\ ret' = [res |-> "ok", mapFailed |-> FALSE]
                ELSE /\ regions' = Append(regions, r)
                     /\ UNCHANGED blocks
                     /\ ret' = [res |-> "null", mapFailed |-> FALSE]

-----------------------------------------------------------------------------

\* create_arena(capacity): one mapping holding the header and first region
CreateArena(c) ==
    LET mem == AlignToPage(c + ArenaHeader) IN
    /\ regions = <<>>
    /\ \/ MapFailed
       \/ \E p \in FreeRuns(mem) :
            /\ regions' = <<[at |-> p * PageSize + ArenaOffset, base |-> p * PageSize,
                             tail |-> 0, capacity |-> mem - ArenaHeader]>>
            /\ nrc' = c
            /\ mapped' = mapped \cup PagesOf(p * PageSize, mem)
            /\ ret' = [res |-> "ok", mapFailed |-> FALSE]
            /\ UNCHANGED blocks

\* set_region_capacity
SetRegionCapacity(c) ==
    /\ regions # <<>>
    /\ nrc' = c
    /\ UNCHANGED <<regions, mapped, blocks, ret>>

\* _arena_alloc: region_alloc on the last region, else new_region_alloc
ArenaAlloc(size, al) ==
    /\ regions # <<>>
    /\ Cardinality(blocks) < MaxBlocks
    /\ \/ /\ Fits(regions[Len(regions)], size, al)
          /\ Take(Len(regions), size, al)
       \/ /\ ~Fits(regions[Len(regions)], size, al)
          /\ NewRegionAlloc(size, al)

\* _arena_fit: the first region, from &arena->first, that region_alloc
\* succeeds on, else new_region_alloc
ArenaFit(size, al) ==
    LET fitting == {i \in DOMAIN regions : Fits(regions[i], size, al)} IN
    /\ regions # <<>>
    /\ Cardinality(blocks) < MaxBlocks
    /\ \/ /\ fitting # {}
          /\ Take(Min(fitting), size, al)
       \/ /\ fitting = {}
          /\ NewRegionAlloc(size, al)

\* the length free_arena (i = 1) or free_region passes to munmap
FreeLen(i) ==
    IF i = 1 THEN regions[i].capacity + ArenaHeader
    ELSE regions[i].capacity + RegionHeader

FreedSkipLast == DOMAIN regions \ {Len(regions)}

\* the regions delete_arena frees: first.next up to the end, then the arena
Freed == DOMAIN regions

\* delete_arena: munmap every region and the arena; the client's blocks die
\* with them
DeleteArena ==
    /\ regions # <<>>
    /\ mapped' = mapped \ UNION {PagesOf(regions[i].base, FreeLen(i)) : i \in Freed}
    /\ regions' = <<>>
    /\ blocks' = {}
    /\ ret' = [res |-> "none", mapFailed |-> FALSE]
    /\ UNCHANGED nrc

-----------------------------------------------------------------------------

Init ==
    /\ regions = <<>>
    /\ nrc = 0
    /\ mapped = {}
    /\ blocks = {}
    /\ ret = [res |-> "none", mapFailed |-> FALSE]

Next ==
    \/ \E c \in Capacities : CreateArena(c) \/ SetRegionCapacity(c)
    \/ \E s \in Sizes, a \in Alignments : ArenaAlloc(s, a) \/ ArenaFit(s, a)
    \/ DeleteArena

Spec == Init /\ [][Next]_vars

-----------------------------------------------------------------------------
(* Properties                                                              *)

TypeOK ==
    /\ regions \in Seq([at : Nat, base : Nat, tail : Nat, capacity : Nat])
    /\ nrc \in Capacities \cup {0}
    /\ mapped \subseteq 0 .. NumPages - 1
    /\ blocks \subseteq [addr : Nat, size : Sizes, align : Alignments]
    /\ ret \in [res : {"none", "ok", "null"}, mapFailed : BOOLEAN]

\* the data area region_alloc hands out bytes of: [data, data + tail)
DataLo(r) == r.at + RegionHeader

\* Blocks handed out by _arena_alloc and _arena_fit (arena.h: "allocate
\* size bytes ... aligned at alignment boundary") are aligned as asked,
\* lie in the used part of a live region, and no two of them overlap,
\* whatever mix of alloc, fit and capacity changes produced them.
BlocksDisjointAligned ==
    /\ \A b \in blocks :
         /\ b.addr % b.align = 0
         /\ \E i \in DOMAIN regions :
              /\ DataLo(regions[i]) <= b.addr
              /\ b.addr + b.size <= DataLo(regions[i]) + regions[i].tail
    /\ \A b, c \in blocks :
         b # c => b.addr + b.size <= c.addr \/ c.addr + c.size <= b.addr

\* the pages the arena's mappings occupy, as free_region and free_arena
\* would unmap them
Footprint == UNION {PagesOf(regions[i].base, FreeLen(i)) : i \in DOMAIN regions}

\* _arena_alloc and _arena_fit return nullptr only when mmap failed
\* (arena.h: "If the last region has no space available, allocate new
\* region"): a new region is always large enough for the request.
NullOnlyWhenMapFails ==
    ret.res = "null" => ret.mapFailed

====
