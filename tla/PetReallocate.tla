---------------------------- MODULE PetReallocate ---------------------------
(***************************************************************************)
(* The interface functions of src/src/allocator_pet.c (_allocate,          *)
(* _release, _reallocate) with the page wrappers call_mmap, call_munmap,   *)
(* call_mremap and cleanse: the state machine that routes a block to the   *)
(* bitmap tier (fewer than max_data_units units) or to a direct mapping,   *)
(* and moves it between the tiers when it is reallocated.                  *)
(*                                                                         *)
(* One client holds one pointer slot, *addr_ptr, and the size it passes  *)
(* back to the allocator.  The bitmap tier is abstracted to its results:   *)
(* bm_allocate may fail (no page with room and mmap failing), bm_grow may  *)
(* fail (the units after the block are in use); its bitmap work is         *)
(* PetAllocator's.  An address is a tier and an id: a direct mapping is    *)
(* page aligned, a bitmap block never is (bm_page_by_addr(addr) == addr).  *)
(* Memory contents are tags: "d" the client wrote it, "0" zeroed, "?"      *)
(* whatever the memory held (dirty pages, freed units, stale bytes).       *)
(***************************************************************************)
EXTENDS Integers, Sequences, FiniteSets

CONSTANTS
    UnitSize,       \* UNIT_SIZE
    PageSize,       \* sys_page_size
    HeaderFields,   \* offsetof(BmPageHeader, bitmap)
    WordBytes,      \* sizeof(Word), the stride of cleanse
    Sizes,          \* byte counts the client passes
    Ids,            \* addresses available in each tier
    NULL            \* nullptr

UnitsPerPage == PageSize \div UnitSize

\* bm_page_header_size_in_units, as _init computes it
HeaderUnits == (HeaderFields + UnitsPerPage \div 8 + UnitSize - 1) \div UnitSize
MaxDataUnits == UnitsPerPage - HeaderUnits

ASSUME HeaderUnits \in 1 .. UnitsPerPage - 2
ASSUME Sizes \subseteq Nat

Addrs == {"sub", "direct"} \X Ids

\* addr == bm_page_by_addr(addr): the address is page aligned
IsDirect(a) == a[1] = "direct"

\* bytes_to_units
BytesToUnits(n) == (n + UnitSize - 1) \div UnitSize

\* align_unsigned_to_page (allocator.h)
AlignToPage(n) == ((n + PageSize - 1) \div PageSize) * PageSize

VARIABLES
    slot,   \* [addr, n]: the client's *addr_ptr and its size in bytes
    held,   \* reservations: [addr, extent], units (bitmap) or bytes (direct)
    data,   \* contents of bytes 0 .. n-1 of the client's block
    pc,     \* "idle", or how the process stopped: "abort", "hang", "ub"
    last    \* the last call: [call, ok, moved, clean]

vars == <<slot, held, data, pc, last>>

Tags == {"d", "0", "?"}

HeldAddrs == {h.addr : h \in held}

\* n bytes at a new place: the first m copied from d, the rest as found
Copy(d, m, n) == [i \in 1 .. n |-> IF i <= m THEN d[i] ELSE "?"]

-----------------------------------------------------------------------------
(* cleanse and the page wrappers                                           *)

\* the bytes cleansed in three phases: `lead` bytes up to a word boundary
\* from start, then `rest` bytes as whole words and, with tail = TRUE, the
\* bytes after the last word
Phases(start, lead, rest, tail) ==
    LET w == start + lead + (rest \div WordBytes) * WordBytes IN
    (start .. start + lead - 1) \cup (start + lead .. w - 1)
        \cup (IF tail THEN w .. w + (rest % WordBytes) - 1 ELSE {})

\* the leading bytes of cleanse: up to the next word boundary, at most
\* the length of the range
Lead(start, length) ==
    IF start % WordBytes = 0 THEN 0
    ELSE IF WordBytes - (start % WordBytes) > length THEN length
    ELSE WordBytes - (start % WordBytes)

Zeroed(d, Z) == [i \in DOMAIN d |-> IF i - 1 \in Z THEN "0" ELSE d[i]]

\* mutation: the trailing bytes after the last whole word are not cleared
CleanseNoTail(d, start, end) ==
    LET lead == Lead(start, end - start)
    IN  Zeroed(d, Phases(start, lead, end - start - lead, FALSE))

\* mutation: the leading bytes are not capped at the length of the range;
\* the unsigned length then wraps and the word loop runs to the end
CleanseLeadOverrun(d, start, end) ==
    LET lead == IF start % WordBytes = 0 THEN 0 ELSE WordBytes - (start % WordBytes)
        rest == IF end - start >= lead THEN end - start - lead ELSE Len(d)
    IN  Zeroed(d, Phases(start, lead, rest, TRUE))

\* cleanse(addr, start, end): bytes up to a word boundary, whole words,
\* then the remaining bytes
Cleanse(d, start, end) ==
    LET lead == Lead(start, end - start)
    IN  Zeroed(d, Phases(start, lead, end - start - lead, TRUE))

\* an unused address of the tier
FreeAddrs(tier) == ({tier} \X Ids) \ HeldAddrs

\* bm_allocate(k): a block of the bitmap tier, or NULL when no page has
\* room and call_mmap fails
BmAllocate(k) ==
    {[addr |-> NULL]} \cup {[addr |-> a, extent |-> k] : a \in FreeAddrs("sub")}

\* mutation: max_data_units units still go to the bitmap tier
AllocateAtBoundary(n) ==
    IF n = 0 THEN {[addr |-> NULL]}
    ELSE IF BytesToUnits(n) <= MaxDataUnits THEN BmAllocate(BytesToUnits(n))
    ELSE {[addr |-> NULL]} \cup
         {[addr |-> a, extent |-> AlignToPage(n)] : a \in FreeAddrs("direct")}

\* _allocate(n, clean): NULL for n = 0; bm_allocate for fewer than
\* max_data_units units, else call_mmap(align_unsigned_to_page(n)), which
\* may fail
Allocate(n) ==
    IF n = 0 THEN {[addr |-> NULL]}
    ELSE IF BytesToUnits(n) < MaxDataUnits THEN BmAllocate(BytesToUnits(n))
    ELSE {[addr |-> NULL]} \cup
         {[addr |-> a, extent |-> AlignToPage(n)] : a \in FreeAddrs("direct")}

\* the n bytes of a block r of _allocate: cleansed over its units
\* (bm_allocate) or its pages (call_mmap) when clean
AllocData(r, n, clean) ==
    LET span == IF IsDirect(r.addr) THEN r.extent ELSE r.extent * UnitSize
    IN  IF clean THEN Cleanse(Copy(<<>>, 0, n), 0, span) ELSE Copy(<<>>, 0, n)

\* _release(&a, n) of a held block: call_munmap(a, align(n)) of a direct
\* mapping (pages beyond align(n) stay mapped), or bm_release
ReleaseHeld(H, a, n) ==
    LET h == CHOOSE r \in H : r.addr = a IN
    IF IsDirect(a) /\ h.extent > AlignToPage(n)
    THEN (H \ {h}) \cup {[h EXCEPT !.extent = @ - AlignToPage(n)]}
    ELSE H \ {h}

Result(call, ok, moved, clean) ==
    last' = [call |-> call, ok |-> ok, moved |-> moved, clean |-> clean]

Stop(how) ==
    /\ pc' = how
    /\ last' = [call |-> "none", ok |-> FALSE, moved |-> FALSE, clean |-> FALSE]

\* mutation: the grown block is cleansed from its start
ResizedFromZero(d, n0, n1, clean) ==
    IF n1 > n0 /\ clean THEN Cleanse(Copy(d, n0, n1), 0, n1)
    ELSE Copy(d, IF n1 < n0 THEN n1 ELSE n0, n1)

\* the data of a block resized in place or moved from n0 to n1 bytes,
\* with the grown tail cleansed when clean
Resized(d, n0, n1, clean) ==
    IF n1 > n0 /\ clean THEN Cleanse(Copy(d, n0, n1), n0, n1)
    ELSE Copy(d, IF n1 < n0 THEN n1 ELSE n0, n1)

\* call_mremap(a, old, new, clean): the same pages keep their address;
\* growing, mremap(MREMAP_MAYMOVE) resizes in place (when the mapping is
\* exactly align(old)), moves the pages (what lay beyond align(old) stays
\* at the old place) or fails (NULL); shrinking, mremap(flags 0) unmaps
\* the pages past align(new) or fails (always for a size of 0), and the
\* address is returned
CallMremap(a, old, new, clean) ==
    LET oldSize == AlignToPage(old)
        newSize == AlignToPage(new)
        h       == CHOOSE r \in held : r.addr = a
        rest    == IF h.extent > oldSize
                   THEN {[h EXCEPT !.extent = @ - oldSize]} ELSE {}
        d       == Resized(data, old, new, clean)
    IN  IF newSize = oldSize
        THEN {[addr |-> a, held |-> held, data |-> d]}
        ELSE IF newSize > oldSize
        THEN {[addr |-> NULL]}
             \cup {[addr |-> a, data |-> d,
                    held |-> (held \ {h}) \cup {[h EXCEPT !.extent = newSize]}] :
                      x \in IF h.extent = oldSize THEN {h} ELSE {}}
             \cup {[addr |-> b, data |-> d,
                    held |-> (held \ {h}) \cup rest \cup {[addr |-> b, extent |-> newSize]}] :
                      b \in FreeAddrs("direct")}
        ELSE {[addr |-> a, held |-> held, data |-> Resized(data, old, new, FALSE)]}
             \cup {[addr |-> a, data |-> Resized(data, old, new, FALSE),
                    held |-> (held \ {h}) \cup {[h EXCEPT !.extent = @ - (oldSize - newSize)]}] :
                      x \in IF newSize > 0 THEN {h} ELSE {}}

-----------------------------------------------------------------------------
(* The calls of the client                                                   *)

\* the call ended with a block b of n bytes holding d in the slot
Keep(b, n, d) ==
    /\ slot' = [addr |-> b, n |-> n]
    /\ data' = d

Fail(clean) ==
    /\ Result("realloc", FALSE, FALSE, clean)
    /\ UNCHANGED <<slot, held, data, pc>>

\* allocate(n, clean) into the empty slot
AllocateCall(n, clean) ==
    /\ pc = "idle"
    /\ slot.addr = NULL
    /\ \E r \in Allocate(n) :
          \/ /\ r.addr = NULL
             /\ Result("alloc", FALSE, FALSE, clean)
             /\ UNCHANGED <<slot, held, data, pc>>
          \/ /\ r.addr # NULL
             /\ Keep(r.addr, n, AllocData(r, n, clean))
             /\ held' = held \cup {[addr |-> r.addr, extent |-> r.extent]}
             /\ Result("alloc", TRUE, TRUE, clean)
             /\ UNCHANGED pc

\* _release(&addr, n): a no-op for NULL, abort() for n = 0
ReleaseCall ==
    /\ pc = "idle"
    /\ \/ /\ slot.addr = NULL
          /\ Result("release", TRUE, FALSE, FALSE)
          /\ UNCHANGED <<slot, held, data, pc>>
       \/ /\ slot.addr # NULL
          /\ slot.n = 0
          /\ Stop("abort")
          /\ UNCHANGED <<slot, held, data>>
       \/ /\ slot.addr # NULL
          /\ slot.n > 0
          /\ held' = ReleaseHeld(held, slot.addr, slot.n)
          /\ Keep(NULL, 0, <<>>)
          /\ Result("release", TRUE, FALSE, FALSE)
          /\ UNCHANGED pc

\* the client fills its block
WriteCall ==
    /\ pc = "idle"
    /\ slot.addr # NULL
    /\ data # [i \in 1 .. slot.n |-> "d"]
    /\ data' = [i \in 1 .. slot.n |-> "d"]
    /\ Result("write", TRUE, FALSE, FALSE)
    /\ UNCHANGED <<slot, held, pc>>

\* mutation: the bits are cleared from the block's offset, not after it
SubResizeClearAll(old, new, clean) ==
    LET a == slot.addr
        h == CHOOSE r \in held : r.addr = a
        k == IF new < old THEN 0 ELSE BytesToUnits(new)
    IN  /\ held' = (held \ {h}) \cup {[h EXCEPT !.extent = k]}
        /\ Keep(a, new, Resized(data, old, new, clean))
        /\ Result("realloc", TRUE, FALSE, clean)
        /\ UNCHANGED pc

\* _reallocate, tier T to T: bm_shrink, or bm_grow, which either sets the
\* units after the block or fails and the block is moved (Relocate)
SubResize(old, new, clean) ==
    LET a == slot.addr
        h == CHOOSE r \in held : r.addr = a
        k == BytesToUnits(new)
    IN  /\ held' = (held \ {h}) \cup {[h EXCEPT !.extent = k]}
        /\ Keep(a, new, Resized(data, old, new, clean))
        /\ Result("realloc", TRUE, FALSE, clean)
        /\ UNCHANGED pc

\* _reallocate, "reallocate block": _allocate(new, false), memcpy(old),
\* _release(&addr, old) (abort() for old = 0), cleanse the tail if clean
Relocate(old, new, clean) ==
    \E r \in Allocate(new) :
        \/ /\ r.addr = NULL
           /\ Fail(clean)
        \/ /\ r.addr # NULL
           /\ old = 0
           /\ Stop("abort")
           /\ UNCHANGED <<slot, held, data>>
        \/ /\ r.addr # NULL
           /\ old > 0
           /\ held' = ReleaseHeld(held \cup {[addr |-> r.addr, extent |-> r.extent]},
                                  slot.addr, old)
           /\ Keep(r.addr, new, Resized(data, old, new, clean))
           /\ Result("realloc", TRUE, TRUE, clean)
           /\ UNCHANGED pc

\* _reallocate, "remap": call_mremap(addr, old, new, false); its result is
\* ignored and the address kept
Remap(old, new, clean) ==
    \E r \in CallMremap(slot.addr, old, new, FALSE) :
        /\ held' = r.held
        /\ Keep(slot.addr, new, r.data)
        /\ Result("realloc", TRUE, FALSE, clean)
        /\ UNCHANGED pc

\* _reallocate, tier D to T: bm_allocate(new units), memcpy(new), then
\* bm_release(bm_page, 0, new units) of the direct mapping; on NULL, remap.
\* grab_page then reads `list` from the first bytes of the mapping, which
\* are the client's data: zero makes it spin for ever, anything else is
\* used as a list pointer
DirectToSub(old, new, clean) ==
    \E r \in BmAllocate(BytesToUnits(new)) :
        \/ /\ r.addr = NULL
           /\ Remap(old, new, clean)
        \/ /\ r.addr # NULL
           /\ held' = held \cup {[addr |-> r.addr, extent |-> r.extent]}
           /\ \E how \in IF data[1] = "0" THEN {"hang"} ELSE {"hang", "ub"} :
                 Stop(how)
           /\ UNCHANGED <<slot, data>>

\* mutation: a grown mapping is always reported as moved
DirectGrowAlwaysMoved(old, new, clean) ==
    \E r \in CallMremap(slot.addr, old, new, clean) :
        \/ /\ r.addr = NULL
           /\ Fail(clean)
        \/ /\ r.addr # NULL
           /\ held' = r.held
           /\ Keep(r.addr, new, r.data)
           /\ Result("realloc", TRUE, TRUE, clean)
           /\ UNCHANGED pc

\* _reallocate, tier D to D grow: call_mremap(addr, old, new, clean)
DirectGrow(old, new, clean) ==
    \E r \in CallMremap(slot.addr, old, new, clean) :
        \/ /\ r.addr = NULL
           /\ Fail(clean)
        \/ /\ r.addr # NULL
           /\ held' = r.held
           /\ Keep(r.addr, new, r.data)
           /\ Result("realloc", TRUE, r.addr # slot.addr, clean)
           /\ UNCHANGED pc

\* the checks of _reallocate that end in abort(): the address is of the
\* wrong tier for its size
Misplaced(wantDirect) ==
    /\ IsDirect(slot.addr) # wantDirect
    /\ Stop("abort")
    /\ UNCHANGED <<slot, held, data>>

\* reallocate(&addr, old, new, clean, &moved), old being the client's size
ReallocateCall(new, clean) ==
    LET a    == slot.addr
        old  == slot.n
        kOld == BytesToUnits(old)
        kNew == BytesToUnits(new)
        m    == MaxDataUnits
    IN
    /\ pc = "idle"
    /\ \/ /\ old = new
          /\ Result("realloc", TRUE, FALSE, clean)
          /\ UNCHANGED <<slot, held, data, pc>>
       \/ /\ old # new
          /\ a = NULL
          /\ \/ /\ old # 0
                /\ Fail(clean)
             \/ /\ old = 0
                /\ \E r \in Allocate(new) :
                      \/ /\ r.addr = NULL
                         /\ Fail(clean)
                      \/ /\ r.addr # NULL
                         /\ held' = held \cup {[addr |-> r.addr, extent |-> r.extent]}
                         /\ Keep(r.addr, new, AllocData(r, new, clean))
                         /\ Result("realloc", TRUE, TRUE, clean)
                         /\ UNCHANGED pc
       \/ /\ old # new
          /\ a # NULL
          /\ \/ /\ old = 0 /\ new = 0
                /\ Fail(clean)
             \/ /\ kNew = kOld
                /\ Keep(a, new, Resized(data, old, new, clean))
                /\ Result("realloc", TRUE, FALSE, clean)
                /\ UNCHANGED <<held, pc>>
             \/ /\ kNew < kOld
                /\ kNew < m
                /\ kOld < m
                /\ \/ Misplaced(FALSE)
                   \/ /\ ~IsDirect(a)
                      /\ SubResize(old, new, clean)
             \/ /\ kNew < kOld
                /\ kNew < m
                /\ kOld >= m
                /\ \/ Misplaced(TRUE)
                   \/ /\ IsDirect(a)
                      /\ DirectToSub(old, new, clean)
             \/ /\ kNew < kOld
                /\ kNew >= m
                /\ \/ Misplaced(TRUE)
                   \/ /\ IsDirect(a)
                      /\ Remap(old, new, clean)
             \/ /\ kNew > kOld
                /\ kOld < m
                /\ kNew < m
                /\ \/ Misplaced(FALSE)
                   \/ /\ ~IsDirect(a)
                      /\ \/ SubResize(old, new, clean)
                         \/ Relocate(old, new, clean)
             \/ /\ kNew > kOld
                /\ kOld < m
                /\ kNew >= m
                /\ Relocate(old, new, clean)
             \/ /\ kNew > kOld
                /\ kOld >= m
                /\ \/ Misplaced(TRUE)
                   \/ /\ IsDirect(a)
                      /\ DirectGrow(old, new, clean)

-----------------------------------------------------------------------------

Init ==
    /\ slot = [addr |-> NULL, n |-> 0]
    /\ held = {}
    /\ data = <<>>
    /\ pc = "idle"
    /\ last = [call |-> "none", ok |-> FALSE, moved |-> FALSE, clean |-> FALSE]

Next ==
    \/ \E n \in Sizes, clean \in BOOLEAN : AllocateCall(n, clean)
    \/ \E n \in Sizes, clean \in BOOLEAN : ReallocateCall(n, clean)
    \/ ReleaseCall
    \/ WriteCall

Spec == Init /\ [][Next]_vars

-----------------------------------------------------------------------------
(* Properties                                                              *)

Calls == {"none", "alloc", "realloc", "release", "write"}

TypeOK ==
    /\ slot \in [addr : Addrs \cup {NULL}, n : Sizes \cup {0}]
    /\ held \subseteq [addr : {"sub"} \X Ids, extent : 0 .. MaxDataUnits - 1]
                      \cup [addr : {"direct"} \X Ids, extent : Nat \ {0}]
    /\ data \in Seq(Tags)
    /\ Len(data) = slot.n
    /\ pc \in {"idle", "abort", "hang", "ub"}
    /\ last \in [call : Calls, ok : BOOLEAN, moved : BOOLEAN, clean : BOOLEAN]

\* the successful call of the step
Succeeded(call) == last'.call = call /\ last'.ok

\* cleanse(addr, start, end) zeroes exactly the bytes [start, end): on the
\* client's block as it is, for every range of it, the leading bytes, the
\* word stride and the trailing bytes neither miss a byte of the range nor
\* touch one outside it.
CleanseExact ==
    \A start \in 0 .. Len(data) : \A end \in start .. Len(data) :
        Cleanse(data, start, end)
            = [i \in 1 .. Len(data) |-> IF i - 1 \in start .. end - 1 THEN "0" ELSE data[i]]

\* Reallocate preservation (every branch of _reallocate, memcpy counts,
\* mremap, cleanse offsets): after a successful reallocate the bytes
\* [0, min(old, new)) of the block are those of the old block.
ReallocPreserves ==
    [][Succeeded("realloc") =>
         \A i \in 1 .. Len(data') : i <= Len(data) => data'[i] = data[i]]_vars

\* Clean contract (_allocate, bm_allocate, call_mmap, bm_grow, call_mremap,
\* cleanse): after a successful allocate or reallocate with clean = true,
\* every byte past the old size reads as zero.
CleanContract ==
    [][(Succeeded("alloc") \/ Succeeded("realloc")) /\ last'.clean =>
         \A i \in 1 .. Len(data') : i > Len(data) => data'[i] = "0"]_vars

\* The moved flag (*addr_changed, set in five places of _reallocate): a
\* successful reallocate reports moved exactly when the pointer changed.
MovedMeansNewAddress ==
    [][Succeeded("realloc") => (last'.moved <=> slot'.addr # slot.addr)]_vars

\* The client's block stays reserved (_release, bm_shrink, call_mremap,
\* the release of the old block after a move): while the process runs, the
\* block in the slot is held by its tier, with exactly its units in the
\* bitmap tier and at least its pages when mapped directly.
ClientBlockHeld ==
    pc = "idle" /\ slot.addr # NULL =>
        \E h \in held :
            /\ h.addr = slot.addr
            /\ IsDirect(h.addr) => h.extent >= AlignToPage(slot.n)
            /\ ~IsDirect(h.addr) => h.extent = BytesToUnits(slot.n)

\* Tier routing (_release and the D-to-T branch of _reallocate): the
\* bitmap sub-allocator is only given pages it created, so grab_page never
\* reads client data as a page header.
SubAllocatorGetsOwnPages == pc \notin {"hang", "ub"}

\* A pointer the allocator returned is always accepted back: reallocate
\* and release of the client's block with its own size never abort().
NoAbortOnOwnPointer == pc # "abort"

\* No leak (spec, property 5): while the process runs, the only
\* reservation is the client's block, and releasing it with its size
\* frees all of it (call_munmap(addr, align(n)) covers the whole mapping).
NoLeak ==
    pc = "idle" =>
        held = IF slot.addr = NULL THEN {}
               ELSE {[addr |-> slot.addr,
                      extent |-> IF IsDirect(slot.addr) THEN AlignToPage(slot.n)
                                 ELSE BytesToUnits(slot.n)]}

====
