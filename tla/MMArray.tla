------------------------------- MODULE MMArray --------------------------------
(***************************************************************************)
(* The memory-mapped growable array of src/src/mmarray.c.  The array is    *)
(* one mapping whose first page starts with the ArrayHeader {capacity,     *)
(* length, item_size}; the items follow it.  The client holds the pointer  *)
(* to the items; get_array_header finds the header by rounding that        *)
(* pointer down to a page, which is the mapping's base.                    *)
(*                                                                         *)
(* `array` keeps the header fields together with the base and length of   *)
(* the mapping the kernel really holds (memsize), so that a size the code  *)
(* passes to mremap can be compared with it.  Items are the tokens the     *)
(* client appends; 0 is a byte of a fresh page.  mmap and mremap failures  *)
(* end in abort().                                                         *)
(***************************************************************************)
EXTENDS Integers, FiniteSets

CONSTANTS
    PageSize,       \* page_size = sysconf(_SC_PAGE_SIZE)
    HeaderSize,     \* sizeof(ArrayHeader)
    NumPages,       \* bound: pages of address space mmap can hand out
    Lengths,        \* lengths passed to mmarray_allocate
    ItemSizes,      \* item sizes passed to mmarray_allocate
    Increments,     \* increments passed to mmarray_grow
    MaxLength,      \* bound: the client stops growing at this length
    NoArray         \* the client holds no array yet

VARIABLES
    mapped,     \* the pages currently mmapped
    array,      \* NoArray, or [base, memsize, capacity, length, itemSize]
    data,       \* data[i]: item i of the array
    written,    \* items appended so far (the last token)
    pc          \* "run", or "abort" after perror and abort()

mmvars == <<array, data, written, pc>>

\* mutation: calc_memsize without sizeof(ArrayHeader)
CalcMemsizeNoHeader(capacity, itemSize) ==
    ((capacity * itemSize + PageSize - 1) \div PageSize) * PageSize

\* calc_memsize(capacity, item_size)
CalcMemsize(capacity, itemSize) ==
    ((HeaderSize + capacity * itemSize + PageSize - 1) \div PageSize) * PageSize

\* the capacity a mapping of memsize bytes holds:
\* (memsize - sizeof(ArrayHeader)) / item_size
CapacityOf(memsize, itemSize) == (memsize - HeaderSize) \div itemSize

\* the pages of the mapping [base, base + len)
MMPages(base, len) == (base \div PageSize) .. ((base + len - 1) \div PageSize)

\* bases mmap may return for len bytes
MMFree(len) ==
    {p * PageSize : p \in {q \in 0 .. NumPages - len \div PageSize :
                             MMPages(q * PageSize, len) \cap mapped = {}}}

\* bases mremap(base, old, new, MREMAP_MAYMOVE) may return: the same base
\* when the pages after the mapping are free, or a free run of new bytes
Remaps(base, old, new) ==
    {b \in {base} : /\ base + new <= NumPages * PageSize
                    /\ MMPages(base, new) \cap (mapped \ MMPages(base, old)) = {}}
    \cup MMFree(new)

Slots == 0 .. MaxLength - 1

-----------------------------------------------------------------------------

\* mmarray_allocate(length, item_size)
MMAllocate(len, isz) ==
    LET memsize == CalcMemsize(len, isz) IN
    /\ pc = "run"
    /\ array = NoArray
    /\ \/ /\ pc' = "abort"
          /\ UNCHANGED <<mapped, array, data, written>>
       \/ \E b \in MMFree(memsize) :
            /\ mapped' = mapped \cup MMPages(b, memsize)
            /\ array' = [base |-> b, memsize |-> memsize,
                         capacity |-> CapacityOf(memsize, isz),
                         length |-> len, itemSize |-> isz]
            /\ UNCHANGED <<data, written, pc>>

\* the size mmarray_grow tells mremap the mapping has
OldMemsize(a) == CalcMemsize(a.capacity, a.itemSize)

\* mmarray_grow(array, increment) on the array a, as array' and mapped'
GrowArray(a, inc) ==
    LET old == OldMemsize(a)
        new == CalcMemsize(a.length + inc, a.itemSize)
    IN  \/ /\ a.length + inc <= a.capacity
           /\ array' = [a EXCEPT !.length = @ + inc]
           /\ UNCHANGED <<mapped, pc>>
        \/ /\ a.length + inc > a.capacity
           /\ pc' = "abort"
           /\ UNCHANGED <<mapped, array>>
        \/ /\ a.length + inc > a.capacity
           /\ \E b \in Remaps(a.base, old, new) :
                /\ mapped' = (mapped \ MMPages(a.base, old)) \cup MMPages(b, new)
                /\ array' = [a EXCEPT !.base = b, !.memsize = new,
                                      !.capacity = CapacityOf(new, a.itemSize),
                                      !.length = @ + inc]
           /\ UNCHANGED pc

\* mmarray_grow
MMGrow(inc) ==
    /\ pc = "run"
    /\ array # NoArray
    /\ array.length + inc <= MaxLength
    /\ GrowArray(array, inc)
    /\ UNCHANGED <<data, written>>

AppendIndexAfterGrow(a) == a.length + 1

\* mmarray_append_item's index: mmarray_length(array) before the grow
AppendIndex(a) == a.length

\* mmarray_append_item: grow by one, then copy the item to the index
MMAppendItem ==
    LET index == AppendIndex(array) IN
    /\ pc = "run"
    /\ array # NoArray
    /\ array.length + 1 <= MaxLength
    /\ GrowArray(array, 1)
    /\ IF pc' = "run"
       THEN /\ written' = written + 1
            /\ data' = [data EXCEPT ![index] = written']
       ELSE UNCHANGED <<data, written>>

-----------------------------------------------------------------------------

MMInit ==
    /\ mapped = {}
    /\ array = NoArray
    /\ data = [i \in Slots |-> 0]
    /\ written = 0
    /\ pc = "run"

MMNext ==
    \/ \E len \in Lengths, isz \in ItemSizes : MMAllocate(len, isz)
    \/ \E inc \in Increments : MMGrow(inc)
    \/ MMAppendItem

MMSpec == MMInit /\ [][MMNext]_<<mapped, mmvars>>

-----------------------------------------------------------------------------
(* Properties                                                              *)

MMTypeOK ==
    /\ mapped \subseteq 0 .. NumPages - 1
    /\ array \in {NoArray} \cup
         [base : Nat, memsize : Nat, capacity : Nat, length : 0 .. MaxLength,
          itemSize : ItemSizes]
    /\ data \in [Slots -> 0 .. MaxLength]
    /\ written \in 0 .. MaxLength
    /\ pc \in {"run", "abort"}

\* the pages the array's mapping really occupies
MMFootprint == IF array = NoArray THEN {} ELSE MMPages(array.base, array.memsize)

Arr == INSTANCE GrowableArray
         WITH items <- IF array = NoArray THEN NoArray
                       ELSE [i \in 1 .. array.length |-> data[i - 1]]

\* mmarray.h: mmarray_grow and mmarray_append_item return the array
\* "reallocate[d] if necessary" with its items kept, and the appended item
\* at the end: under the mapping of the first `length` items to the
\* abstract sequence, the array implements GrowableArray whether or not a
\* step moves the mapping.
ArrayRefinement == Arr!Spec

====
