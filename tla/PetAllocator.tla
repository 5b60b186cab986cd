---------------------------- MODULE PetAllocator ----------------------------
(***************************************************************************)
(* The bitmap sub-allocator of src/src/allocator_pet.c and its page        *)
(* handoff protocol, for several threads sharing one superblock.           *)
(*                                                                         *)
(* A data page (BmPageHeader) keeps a bitmap of allocated units and the    *)
(* links `list`, `next`, `prev` of a circular list.  The superblock is an  *)
(* array of list heads indexed by the page's longest free block (LFB);     *)
(* `lru_page` is one more list head.  A page whose `list` is null is owned *)
(* by the one thread that took it out of its list under the global mutex.  *)
(*                                                                         *)
(* Granularity: every step of a thread is one critical section of `lock`   *)
(* together with the unlocked work that follows it on the page the thread  *)
(* owns (bitmap scans and edits).  That work touches only the owned page,  *)
(* so merging it with the critical section adds no behaviour and hides     *)
(* none.  The munmap of a reclaimed page, done after the unlock, is a step *)
(* of its own.                                                             *)
(*                                                                         *)
(* Bitmaps are sets of allocated units; the scans find_free_block,         *)
(* find_longest_free_block and count_zero_bits are used by their meaning   *)
(* (FindFreeBlock, LongestFreeBlock, ZeroRun below).  Module BitmapScan    *)
(* checks the word-level code against these definitions.                   *)
(***************************************************************************)
EXTENDS Integers, FiniteSets, FiniteSetsExt

CONSTANTS
    Threads,        \* threads calling the allocator
    Pages,          \* addresses mmap may return for a data page
    PageSize,       \* sys_page_size
    UnitSize,       \* UNIT_SIZE
    HeaderFields,   \* offsetof(BmPageHeader, bitmap): list, next, prev
    Sizes,          \* block sizes (in units) the threads request
    MaxLive,        \* bound: at most this many blocks allocated at once
    LRU,            \* the list head `lru_page`
    NULL            \* nullptr

\* the page parameters _init computes
UnitsPerPage == PageSize \div UnitSize

HeaderUnits == (HeaderFields + UnitsPerPage \div 8 + UnitSize - 1) \div UnitSize

ASSUME HeaderUnits \in 1 .. UnitsPerPage - 2
ASSUME MaxLive \in Nat \ {0}

Units == 0 .. UnitsPerPage - 1
Header == 0 .. HeaderUnits - 1

\* max_data_units
MaxDataUnits == UnitsPerPage - HeaderUnits

ASSUME Sizes \subseteq 1 .. MaxDataUnits - 1

\* list heads: superblock[0 .. max_data_units] and lru_page
Slots == (0 .. MaxDataUnits) \cup {LRU}

VARIABLES
    mapped,     \* pages currently mmapped as data pages
    bitmap,     \* bitmap[p]: units of p whose bit is set
    links,      \* [head, list, next, prev]: superblock, lru_page and page links
    live,       \* blocks handed out and not yet released
    pc,         \* where each thread is
    op          \* each thread's operation and the page it works on

vars == <<mapped, bitmap, links, live, pc, op>>

Block == [page : Pages, off : Units, len : 1 .. MaxDataUnits]

BlockUnits(b) == b.off .. (b.off + b.len - 1)

NoOp == [kind |-> "none", k |-> 0, blk |-> NULL, page |-> NULL, reclaim |-> NULL]

-----------------------------------------------------------------------------
(* Bitmap meaning                                                          *)

\* units o .. o+n-1 all lie in the page and are clear
IsFree(bm, o, n) == \A i \in o .. (o + n - 1) : i \in Units /\ i \notin bm

\* mutation: a run one unit short of n is accepted
FindFreeBlockShort(bm, n) ==
    LET fits == {o \in HeaderUnits .. UnitsPerPage - n : IsFree(bm, o, n - 1)}
    IN  IF fits = {} THEN 0 ELSE Min(fits)

\* mutation: the scan returns the offset it stopped at, not 0, when no
\* run fits
FindFreeBlockEnd(bm, n) ==
    LET fits == {o \in HeaderUnits .. UnitsPerPage - 1 : IsFree(bm, o, n)}
    IN  IF fits = {} THEN UnitsPerPage ELSE Min(fits)

\* find_free_block: first offset of a free run of n units, or 0
FindFreeBlock(bm, n) ==
    LET fits == {o \in HeaderUnits .. UnitsPerPage - 1 : IsFree(bm, o, n)}
    IN  IF fits = {} THEN 0 ELSE Min(fits)

\* find_longest_free_block
LongestFreeBlock(bm) ==
    Max({n \in 0 .. MaxDataUnits : \E o \in Units : IsFree(bm, o, n)})

\* count_zero_bits(bm_page, o, limit) compared against the limit by bm_grow
ZeroRun(bm, o) == Max({n \in 0 .. UnitsPerPage - o : IsFree(bm, o, n)})

-----------------------------------------------------------------------------
(* Circular lists                                                          *)

\* add_to_list: append `p` before the head of list `s`
AddToList(L, s, p) ==
    LET first == L.head[s] IN
    IF first # NULL
    THEN [L EXCEPT !.prev[p] = L.prev[first],
                   !.next[p] = first,
                   !.next[L.prev[first]] = p,
                   !.prev[first] = p,
                   !.list[p] = s]
    ELSE [L EXCEPT !.head[s] = p, !.next[p] = p, !.prev[p] = p,
                   !.list[p] = s]

\* delete_from_list: the list is taken to hold one page when next = prev
DeleteFromList(L, p) ==
    LET s == L.list[p] IN
    IF L.next[p] = L.prev[p]
    THEN [L EXCEPT !.head[s] = NULL, !.list[p] = NULL]
    ELSE [L EXCEPT !.head[s] = IF @ = p THEN L.next[p] ELSE @,
                   !.prev[L.next[p]] = L.prev[p],
                   !.next[L.prev[p]] = L.next[p],
                   !.list[p] = NULL]

\* the pages reached from head[s] by following `next`
Ring(L, s) ==
    LET RECURSIVE Walk(_, _)
        Walk(p, n) == IF n = 0 THEN {} ELSE {p} \cup Walk(L.next[p], n - 1)
    IN  IF L.head[s] = NULL THEN {} ELSE Walk(L.head[s], Cardinality(Pages))

-----------------------------------------------------------------------------
(* Thread steps                                                            *)

\* page p is owned by t; block [p, off, k] of o's request is set in its bitmap
Claim(t, o, p, off) ==
    LET b == [page |-> p, off |-> off, len |-> o.k] IN
    /\ bitmap' = [bitmap EXCEPT ![p] = @ \cup BlockUnits(b)]
    /\ live' = live \cup {b}
    /\ op' = [op EXCEPT ![t] = [o EXCEPT !.blk = b, !.page = p]]
    /\ pc' = [pc EXCEPT ![t] = "unhand"]

\* the code aborts: a page of superblock[j], j >= k, has no free run of k
Abort(t) ==
    /\ pc' = [pc EXCEPT ![t] = "abort"]
    /\ UNCHANGED <<bitmap, live, op>>

\* find_available_page, LRU part: lru_page is detached, then searched
TakeLru(t, o) ==
    LET p   == links.head[LRU]
        off == FindFreeBlock(bitmap[p], o.k)
    IN  /\ links' = DeleteFromList(links, p)
        /\ \/ /\ off # 0
              /\ Claim(t, o, p, off)
           \/ /\ off = 0
              /\ pc' = [pc EXCEPT ![t] = "lru_to_superblock"]
              /\ op' = [op EXCEPT ![t] = [o EXCEPT !.page = p]]
              /\ UNCHANGED <<bitmap, live>>

\* mutation: the head of the superblock entry is used without
\* delete_from_list
ScanSuperblockNoDetach(t, L, o) ==
    LET js == {j \in o.k .. MaxDataUnits : L.head[j] # NULL} IN
    \/ /\ js # {}
       /\ LET p   == L.head[Min(js)]
              off == FindFreeBlock(bitmap[p], o.k)
          IN  /\ links' = L
              /\ IF off # 0 THEN Claim(t, o, p, off) ELSE Abort(t)
    \/ /\ js = {}
       /\ links' = L
       /\ pc' = [pc EXCEPT ![t] = "mmap"]
       /\ op' = [op EXCEPT ![t] = o]
       /\ UNCHANGED <<bitmap, live>>

\* find_available_page, superblock part: the first non-empty
\* superblock[k .. max_data_units] gives up its head
ScanSuperblock(t, L, o) ==
    LET js == {j \in o.k .. MaxDataUnits : L.head[j] # NULL} IN
    \/ /\ js # {}
       /\ LET p   == L.head[Min(js)]
              off == FindFreeBlock(bitmap[p], o.k)
          IN  /\ links' = DeleteFromList(L, p)
              /\ IF off # 0 THEN Claim(t, o, p, off) ELSE Abort(t)
    \/ /\ js = {}
       /\ links' = L
       /\ pc' = [pc EXCEPT ![t] = "mmap"]
       /\ op' = [op EXCEPT ![t] = o]
       /\ UNCHANGED <<bitmap, live>>

\* bm_allocate(k) calling find_available_page: first critical section
BmAllocate(t, k) ==
    LET o == [NoOp EXCEPT !.kind = "alloc", !.k = k] IN
    /\ pc[t] = "idle"
    /\ Cardinality(live) < MaxLive
    /\ \/ /\ links.head[LRU] # NULL
          /\ TakeLru(t, o)
       \/ /\ links.head[LRU] = NULL
          /\ ScanSuperblock(t, links, o)
    /\ UNCHANGED mapped

\* mutation: the LRU page that had no room for k units is filed under k - 1
\* instead of under its longest free block
LruToSuperblockGuessed(t) ==
    LET p == op[t].page IN
    /\ pc[t] = "lru_to_superblock"
    /\ links' = AddToList(links, op[t].k - 1, p)
    /\ pc' = [pc EXCEPT ![t] = "scan"]
    /\ op' = [op EXCEPT ![t].page = NULL]
    /\ UNCHANGED <<mapped, bitmap, live>>

\* find_available_page: add_to_superblock_entry(bm_page, lfb) for an LRU
\* page without room, then (new critical section) the superblock scan
LruToSuperblock(t) ==
    LET p == op[t].page IN
    /\ pc[t] = "lru_to_superblock"
    /\ links' = AddToList(links, LongestFreeBlock(bitmap[p]), p)
    /\ pc' = [pc EXCEPT ![t] = "scan"]
    /\ op' = [op EXCEPT ![t].page = NULL]
    /\ UNCHANGED <<mapped, bitmap, live>>

ScanAgain(t) ==
    /\ pc[t] = "scan"
    /\ ScanSuperblock(t, links, op[t])
    /\ UNCHANGED mapped

\* bm_allocate, no page found: call_mmap a fresh page, clear its bitmap,
\* set_bits(0, header + k); when mmap fails the result is nullptr
MapNewPage(t) ==
    /\ pc[t] = "mmap"
    /\ \/ \E p \in Pages \ mapped :
            LET b == [page |-> p, off |-> HeaderUnits, len |-> op[t].k] IN
            /\ mapped' = mapped \cup {p}
            /\ bitmap' = [bitmap EXCEPT ![p] = Header \cup BlockUnits(b)]
            /\ live' = live \cup {b}
            /\ links' = [links EXCEPT !.list[p] = NULL]
            /\ op' = [op EXCEPT ![t].blk = b, ![t].page = p]
            /\ pc' = [pc EXCEPT ![t] = "unhand"]
       \/ /\ mapped = Pages
          /\ pc' = [pc EXCEPT ![t] = "idle"]
          /\ op' = [op EXCEPT ![t] = NoOp]
          /\ UNCHANGED <<mapped, bitmap, live, links>>

\* unhand_page, under the lock: the old lru_page goes to superblock[lfb],
\* or is chosen for reclaim when it is empty; the page becomes lru_page
DisplaceLru(L, x) ==
    IF x # NULL /\ LongestFreeBlock(bitmap[x]) < MaxDataUnits
    THEN AddToList(L, LongestFreeBlock(bitmap[x]), x)
    ELSE L

\* mutation: an empty lru_page is never chosen for reclaim
ReclaimedNever(x) == NULL

\* mutation: reclaim threshold off by one
ReclaimedEarly(x) ==
    IF x # NULL /\ LongestFreeBlock(bitmap[x]) >= MaxDataUnits - 1 THEN x ELSE NULL

Reclaimed(x) ==
    IF x # NULL /\ LongestFreeBlock(bitmap[x]) >= MaxDataUnits THEN x ELSE NULL

UnhandPage(t) ==
    LET p  == op[t].page
        x  == links.head[LRU]
        L1 == DisplaceLru(links, x)
        r  == Reclaimed(x)
    IN  /\ pc[t] = "unhand"
        /\ links' = [L1 EXCEPT !.list[p] = LRU, !.head[LRU] = p,
                               !.next[p] = p, !.prev[p] = p]
        /\ pc' = [pc EXCEPT ![t] = IF r = NULL THEN "idle" ELSE "munmap"]
        /\ op' = [op EXCEPT ![t] = IF r = NULL THEN NoOp ELSE [@ EXCEPT !.reclaim = r]]
        /\ UNCHANGED <<mapped, bitmap, live>>

\* unhand_page after the unlock: call_munmap(page_to_reclaim)
UnmapReclaimed(t) ==
    /\ pc[t] = "munmap"
    /\ mapped' = mapped \ {op[t].reclaim}
    /\ pc' = [pc EXCEPT ![t] = "idle"]
    /\ op' = [op EXCEPT ![t] = NoOp]
    /\ UNCHANGED <<bitmap, live, links>>

\* blocks a thread is operating on is operating on
Busy == {op[u].blk : u \in Threads}

\* a thread calls bm_release, bm_shrink or bm_grow on a live block b
\* with new size n; the call starts with grab_page
BeginBlockOp(t, kind, b, n) ==
    /\ pc[t] = "idle"
    /\ pc' = [pc EXCEPT ![t] = "grab"]
    /\ op' = [op EXCEPT ![t] = [NoOp EXCEPT !.kind = kind, !.k = n,
                                              !.blk = b, !.page = b.page]]
    /\ UNCHANGED <<mapped, bitmap, links, live>>

\* grab_page: under the lock, a page found in some list is detached
GrabPage(t) ==
    LET p == op[t].page IN
    /\ pc[t] = "grab"
    /\ links.list[p] # NULL
    /\ links' = DeleteFromList(links, p)
    /\ pc' = [pc EXCEPT ![t] = "unhand"]

\* grab_page while another thread owns the page: unlock, thrd_yield, retry
GrabSpin(t) ==
    /\ pc[t] = "grab"
    /\ links.list[op[t].page] = NULL
    /\ UNCHANGED vars

\* bm_release: grab_page, clear_bits(offset, num_units), then unhand_page
BmRelease(t) ==
    LET b == op[t].blk IN
    /\ op[t].kind = "release"
    /\ GrabPage(t)
    /\ bitmap' = [bitmap EXCEPT ![b.page] = @ \ BlockUnits(b)]
    /\ live' = live \ {b}
    /\ op' = [op EXCEPT ![t].blk = NULL]
    /\ UNCHANGED mapped

\* mutation: the tail is cleared from one unit too far
BmShrinkLate(t) ==
    LET b == op[t].blk
        c == [b EXCEPT !.len = op[t].k]
    IN
    /\ op[t].kind = "shrink"
    /\ GrabPage(t)
    /\ bitmap' = [bitmap EXCEPT ![b.page] =
                     @ \ (BlockUnits(b) \ BlockUnits([c EXCEPT !.len = @ + 1]))]
    /\ live' = (live \ {b}) \cup {c}
    /\ op' = [op EXCEPT ![t].blk = c]
    /\ UNCHANGED mapped

\* bm_shrink: grab_page, clear the tail units, then unhand_page
BmShrink(t) ==
    LET b == op[t].blk
        c == [b EXCEPT !.len = op[t].k]
    IN
    /\ op[t].kind = "shrink"
    /\ GrabPage(t)
    /\ bitmap' = [bitmap EXCEPT ![b.page] = @ \ (BlockUnits(b) \ BlockUnits(c))]
    /\ live' = (live \ {b}) \cup {c}
    /\ op' = [op EXCEPT ![t].blk = c]
    /\ UNCHANGED mapped

\* mutation: bm_grow returns false without unhand_page
BmGrowNoUnhand(t) ==
    LET b == op[t].blk
        c == [b EXCEPT !.len = op[t].k]
        p == op[t].page
    IN
    /\ op[t].kind = "grow"
    /\ pc[t] = "grab"
    /\ links.list[p] # NULL
    /\ links' = DeleteFromList(links, p)
    /\ \/ /\ ZeroRun(bitmap[b.page], b.off + b.len) >= c.len - b.len
          /\ pc' = [pc EXCEPT ![t] = "unhand"]
          /\ bitmap' = [bitmap EXCEPT ![b.page] = @ \cup BlockUnits(c)]
          /\ live' = (live \ {b}) \cup {c}
          /\ op' = [op EXCEPT ![t].blk = c]
       \/ /\ ZeroRun(bitmap[b.page], b.off + b.len) < c.len - b.len
          /\ pc' = [pc EXCEPT ![t] = "idle"]
          /\ op' = [op EXCEPT ![t] = NoOp]
          /\ UNCHANGED <<bitmap, live>>
    /\ UNCHANGED mapped

\* mutation: bm_grow takes as many of the units after the block as are
\* free, up to the requested size, and reports success
BmGrowPartial(t) ==
    LET b == op[t].blk
        c == [b EXCEPT !.len = @ + Min({ZeroRun(bitmap[b.page], b.off + b.len),
                                         op[t].k - b.len})]
    IN
    /\ op[t].kind = "grow"
    /\ GrabPage(t)
    /\ bitmap' = [bitmap EXCEPT ![b.page] = @ \cup BlockUnits(c)]
    /\ live' = (live \ {b}) \cup {c}
    /\ op' = [op EXCEPT ![t].blk = c]
    /\ UNCHANGED mapped

\* bm_grow: grab_page; if count_zero_bits after the block reaches the
\* increment the bits are set, else the block must move; unhand_page
BmGrow(t) ==
    LET b == op[t].blk
        c == [b EXCEPT !.len = op[t].k]
    IN
    /\ op[t].kind = "grow"
    /\ GrabPage(t)
    /\ \/ /\ ZeroRun(bitmap[b.page], b.off + b.len) >= c.len - b.len
          /\ bitmap' = [bitmap EXCEPT ![b.page] = @ \cup BlockUnits(c)]
          /\ live' = (live \ {b}) \cup {c}
          /\ op' = [op EXCEPT ![t].blk = c]
       \/ /\ ZeroRun(bitmap[b.page], b.off + b.len) < c.len - b.len
          /\ UNCHANGED <<bitmap, live, op>>
    /\ UNCHANGED mapped

-----------------------------------------------------------------------------

\* the superblock _init obtains from call_mmap(sys_page_size, true): every
\* entry nullptr; on failure _init aborts before any call
EmptySuperblock == [s \in Slots |-> NULL]

Init ==
    /\ mapped = {}
    /\ bitmap = [p \in Pages |-> {}]
    /\ links = [head |-> EmptySuperblock,
                list |-> [p \in Pages |-> NULL],
                next |-> [p \in Pages |-> p],
                prev |-> [p \in Pages |-> p]]
    /\ live = {}
    /\ pc = [t \in Threads |-> "idle"]
    /\ op = [t \in Threads |-> NoOp]

Next ==
    \E t \in Threads :
        \/ \E k \in Sizes : BmAllocate(t, k)
        \/ LruToSuperblock(t)
        \/ ScanAgain(t)
        \/ MapNewPage(t)
        \/ UnhandPage(t)
        \/ UnmapReclaimed(t)
        \/ \E b \in live \ Busy :
              \/ BeginBlockOp(t, "release", b, 0)
              \/ \E n \in Sizes \cup {1} :
                    /\ n < b.len
                    /\ BeginBlockOp(t, "shrink", b, n)
              \/ \E n \in Sizes :
                    /\ n > b.len
                    /\ BeginBlockOp(t, "grow", b, n)
        \/ BmRelease(t)
        \/ BmShrink(t)
        \/ BmGrow(t)
        \/ GrabSpin(t)

\* every step of a thread that has started an operation is eventually taken
Fairness == \A t \in Threads :
    /\ WF_vars(LruToSuperblock(t) \/ ScanAgain(t) \/ MapNewPage(t))
    /\ WF_vars(UnhandPage(t) \/ UnmapReclaimed(t))
    /\ WF_vars(BmRelease(t) \/ BmShrink(t) \/ BmGrow(t))

Spec == Init /\ [][Next]_vars
FairSpec == Spec /\ Fairness

-----------------------------------------------------------------------------
(* Properties                                                              *)

TypeOK ==
    /\ mapped \subseteq Pages
    /\ bitmap \in [Pages -> SUBSET Units]
    /\ links.head \in [Slots -> Pages \cup {NULL}]
    /\ links.list \in [Pages -> Slots \cup {NULL}]
    /\ links.next \in [Pages -> Pages]
    /\ links.prev \in [Pages -> Pages]
    /\ live \subseteq Block
    /\ pc \in [Threads -> {"idle", "lru_to_superblock", "scan", "mmap",
                           "unhand", "munmap", "grab", "abort"}]

Owning == {"lru_to_superblock", "unhand"}

\* pages being unmapped after unhand_page chose them for reclaim
PendingReclaim == {op[t].reclaim : t \in {u \in Threads : pc[u] = "munmap"}}

\* Non-overlap (bm_allocate, bm_grow via find_free_block, count_zero_bits
\* and set_bits): live blocks lie in the payload of their page and no two
\* of them share a unit.
NoOverlap ==
    \A b \in live :
        /\ BlockUnits(b) \subseteq Units \ Header
        /\ \A c \in live : b # c /\ b.page = c.page =>
                BlockUnits(b) \cap BlockUnits(c) = {}

\* Bitmap faithfulness (set_bits and clear_bits of every operation): the
\* bits of a mapped page are exactly its header and its live blocks.
BitmapFaithful ==
    \A p \in mapped :
        bitmap[p] = Header \cup UNION {BlockUnits(b) : b \in {c \in live : c.page = p}}

\* The handoff protocol (grab_page, find_available_page, unhand_page): a
\* page a thread is editing has list = NULL, is reachable from no list
\* head, and no other thread holds it.
ExclusiveOwnership ==
    \A t \in Threads : pc[t] \in Owning =>
        LET p == op[t].page IN
        /\ links.list[p] = NULL
        /\ \A s \in Slots : p \notin Ring(links, s)
        /\ \A u \in Threads \ {t} : pc[u] \in Owning => op[u].page # p

\* Superblock indexing (unhand_page, find_available_page): every page on
\* the list superblock[j] has longest free block exactly j, so the check
\* that aborts find_available_page never fails.
SuperblockIndexedByLfb ==
    /\ \A j \in 0 .. MaxDataUnits : \A p \in Ring(links, j) :
          LongestFreeBlock(bitmap[p]) = j
    /\ \A t \in Threads : pc[t] # "abort"

\* Reclaim (unhand_page, call_munmap): a page chosen for munmap holds no
\* live block, and every live block is on a mapped page.
ReclaimOnlyEmpty ==
    \A b \in live : b.page \in mapped \ PendingReclaim

\* List structure (add_to_list, delete_from_list), as the spec states it:
\* a mapped page whose `list` names slot s is on the ring of head[s], and
\* every page on that ring names s.
ListConsistent ==
    \A s \in Slots : \A p \in mapped \ PendingReclaim :
        (p \in Ring(links, s)) <=> (links.list[p] = s)

\* No leak on round-trip (spec, property 5; unhand_page's reclaim of an
\* empty lru_page): whenever no thread is inside the allocator, a mapped
\* data page that holds no live block is lru_page, so after every block
\* is released at most one data page stays mapped.
EmptyPageOnlyInLru ==
    (\A t \in Threads : pc[t] = "idle") =>
        \A p \in mapped : (\E b \in live : b.page = p) \/ links.head[LRU] = p

\* grab_page spins on the promise that an owner hands its page back: a
\* thread waiting in grab_page eventually sees the page in some list.
GrabberEventuallyServed ==
    \A t \in Threads :
        pc[t] = "grab" ~> (pc[t] # "grab" \/ links.list[op[t].page] # NULL)

Tier == INSTANCE BitmapTier WITH blocks <- live

\* The bitmap tier keeps the contract the interface functions rely on
\* (bm_allocate, bm_grow, bm_shrink and bm_release as _allocate and
\* _reallocate call them, and as module PetReallocate abstracts them):
\* however the threads interleave, the live blocks change one at a time,
\* an allocation adds exactly the requested units and overlaps nothing,
\* a grow reaches the requested size in place or changes nothing, and a
\* shrink keeps the block's start.
TierRefinement == Tier!Spec

====
