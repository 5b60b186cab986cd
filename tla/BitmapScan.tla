----------------------------- MODULE BitmapScan -----------------------------
(***************************************************************************)
(* The word-level bitmap primitives of src/src/allocator_pet.c:            *)
(* count_zero_bits, count_nonzero_bits, set_bits, clear_bits,              *)
(* find_free_block and find_longest_free_block, with count_trailing_zeros  *)
(* of src/src/word.h.  A bitmap is a function from word index to a Word,   *)
(* a natural number below 2^WordWidth; bit i is bit (i % W) of word i \ W. *)
(*                                                                         *)
(* The state is one page's bitmap, changed by set_bits and clear_bits on   *)
(* arbitrary payload ranges, as bm_allocate, bm_grow, bm_shrink and        *)
(* bm_release do.  In every reachable bitmap the scans are compared with   *)
(* their meaning over the set of clear units (the definitions PetAllocator *)
(* uses), and every possible edit with the range it was asked to edit.     *)
(***************************************************************************)
EXTENDS Integers, FiniteSets, FiniteSetsExt, Bitwise

CONSTANTS
    WordWidth,      \* WORD_WIDTH
    NumWords,       \* sys_page_size / UNIT_SIZE / WORD_WIDTH
    HeaderUnits     \* bm_page_header_size_in_units

UnitsPerPage == NumWords * WordWidth
MaxDataUnits == UnitsPerPage - HeaderUnits
WordMax == 2^WordWidth - 1
Words == 0 .. WordMax

\* UINT_MAX as the `limit` of find_free_block: larger than any run
\* (TLC integers stop at 2^31 - 1; any value above a page of units will do)
UintMax == 2147483647

ASSUME HeaderUnits \in 1 .. UnitsPerPage - 2

VARIABLE bm     \* bm_page->bitmap

\* bit i of the bitmap
Bit(b, i) == (b[i \div WordWidth] \div 2^(i % WordWidth)) % 2

\* the set of units whose bit is set
SetUnits(b) == {i \in 0 .. UnitsPerPage - 1 : Bit(b, i) = 1}

-----------------------------------------------------------------------------
(* The code                                                                *)

\* count_trailing_zeros (__builtin_ctz), called with w # 0
RECURSIVE CountTrailingZeros(_)
CountTrailingZeros(w) ==
    IF w % 2 = 1 THEN 0 ELSE 1 + CountTrailingZeros(w \div 2)

\* mutated count: the leading partial word is counted as a whole word
CountBitsFullLead(b, offset, limit, inv(_)) ==
    LET RECURSIVE WholeWords(_, _, _)
        WholeWords(ptr, off, count) ==
            IF off < UnitsPerPage /\ count < limit
            THEN IF inv(b[ptr]) # 0
                 THEN count + CountTrailingZeros(inv(b[ptr]))
                 ELSE WholeWords(ptr + 1, off + WordWidth, count + WordWidth)
            ELSE count
        bitIndex == offset % WordWidth
        ptr == offset \div WordWidth
        w == inv(b[ptr]) \div 2^bitIndex
    IN  IF bitIndex # 0
        THEN IF w # 0 THEN CountTrailingZeros(w)
             ELSE WholeWords(ptr + 1, offset + WordWidth - bitIndex, WordWidth)
        ELSE WholeWords(ptr, offset, 0)

\* count_zero_bits and count_nonzero_bits; inv(w) is the word as read
\* (identity, or ~w for count_nonzero_bits)
CountBits(b, offset, limit, inv(_)) ==
    LET RECURSIVE WholeWords(_, _, _)
        \* the "count zero words" loop from word `ptr`
        WholeWords(ptr, off, count) ==
            IF off < UnitsPerPage /\ count < limit
            THEN IF inv(b[ptr]) # 0
                 THEN count + CountTrailingZeros(inv(b[ptr]))
                 ELSE WholeWords(ptr + 1, off + WordWidth, count + WordWidth)
            ELSE count
        bitIndex == offset % WordWidth
        ptr == offset \div WordWidth
        w == inv(b[ptr]) \div 2^bitIndex
    IN  IF bitIndex # 0
        THEN IF w # 0 THEN CountTrailingZeros(w)
             ELSE WholeWords(ptr + 1, offset + WordWidth - bitIndex, WordWidth - bitIndex)
        ELSE WholeWords(ptr, offset, 0)

Same(w) == w
Complement(w) == WordMax - w

\* mutation: count_zero_bits counting its leading partial word as whole
CountZeroBitsFullLead(b, offset, limit) == CountBitsFullLead(b, offset, limit, Same)

CountZeroBits(b, offset, limit) == CountBits(b, offset, limit, Same)
CountNonzeroBits(b, offset, limit) == CountBits(b, offset, limit, Complement)

\* mutation: the mask is written ((Word) 1) << n
LowMaskNoDecrement(n) == 2^n

\* (((Word) 1) << n) - 1
LowMask(n) == 2^n - 1

\* set_bits and clear_bits: leading partial word, whole words, trailing
\* bits; put(w, mask) is w | mask or w & ~mask
EditBits(b, offset, length, put(_, _)) ==
    LET bitIndex == offset % WordWidth
        ptr0 == offset \div WordWidth
        numBits == IF length <= WordWidth - bitIndex THEN length
                   ELSE WordWidth - bitIndex
        \* bitmask after `&=` and `<<= bit_index`, truncated to a Word
        lead == ((IF length <= WordWidth - bitIndex THEN LowMask(length)
                  ELSE WordMax) * 2^bitIndex) % 2^WordWidth
        b1 == IF bitIndex # 0 THEN [b EXCEPT ![ptr0] = put(@, lead)] ELSE b
        ptr1 == IF bitIndex # 0 THEN ptr0 + 1 ELSE ptr0
        len1 == IF bitIndex # 0 THEN length - numBits ELSE length
        full == len1 \div WordWidth
        b2 == [i \in DOMAIN b1 |->
                 IF i \in ptr1 .. ptr1 + full - 1 THEN put(b1[i], WordMax) ELSE b1[i]]
        len2 == len1 % WordWidth
    IN  IF len2 # 0
        THEN [b2 EXCEPT ![ptr1 + full] = put(@, LowMask(len2))]
        ELSE b2

SetMask(w, m) == w | m
ClearMask(w, m) == w & (WordMax - m)

\* mutation: the mask is added to the word, not or-ed into it
AddMask(w, m) == w + m
SetBitsAdd(b, offset, length) == EditBits(b, offset, length, AddMask)

SetBits(b, offset, length) == EditBits(b, offset, length, SetMask)
ClearBits(b, offset, length) == EditBits(b, offset, length, ClearMask)

\* find_free_block: alternate zero runs and one runs from the header on
FindFreeBlock(b, blockSize) ==
    LET RECURSIVE Scan(_)
        Scan(offset) ==
            IF offset < UnitsPerPage
            THEN LET length == CountZeroBits(b, offset, blockSize) IN
                 IF length >= blockSize THEN offset
                 ELSE LET o == offset + length IN
                      Scan(o + CountNonzeroBits(b, o, UintMax))
            ELSE 0
    IN  Scan(HeaderUnits)

\* find_longest_free_block; n is unsigned: when a count exceeds it the C
\* loop wraps around, which is reported as -1
FindLongestFreeBlock(b) ==
    LET RECURSIVE Scan(_, _, _)
        Scan(offset, n, lfb) ==
            IF n = 0 THEN lfb
            ELSE LET z == CountZeroBits(b, offset, n)
                     o == offset + z
                     m == n - z
                     nz == CountNonzeroBits(b, o, m)
                 IN  IF z > n \/ nz > m THEN -1
                     ELSE Scan(o + nz, m - nz, IF z > lfb THEN z ELSE lfb)
    IN  Scan(HeaderUnits, MaxDataUnits, 0)

-----------------------------------------------------------------------------
(* The meaning (as in PetAllocator)                                        *)

Units == 0 .. UnitsPerPage - 1

IsFree(b, o, n) == \A i \in o .. (o + n - 1) : i \in Units /\ Bit(b, i) = 0

\* length of the run of clear bits from o
ZeroRun(b, o) == Max({n \in 0 .. UnitsPerPage - o : IsFree(b, o, n)})

\* length of the run of set bits from o
OneRun(b, o) ==
    Max({n \in 0 .. UnitsPerPage - o : \A i \in o .. (o + n - 1) : Bit(b, i) = 1})

FirstFit(b, n) ==
    LET fits == {o \in HeaderUnits .. UnitsPerPage - 1 : IsFree(b, o, n)}
    IN  IF fits = {} THEN 0 ELSE Min(fits)

LongestRun(b) ==
    Max({n \in 0 .. MaxDataUnits : \E o \in Units : IsFree(b, o, n)})

-----------------------------------------------------------------------------
(* A page's bitmap under a sequence of edits                               *)

Header == 0 .. HeaderUnits - 1

\* set_bits(bm_page, 0, header) on a cleared bitmap, as bm_allocate does
Init ==
    bm = SetBits([i \in 0 .. NumWords - 1 |-> 0], 0, HeaderUnits)

\* set_bits or clear_bits on a range of the payload
Edit(kind, o, n) ==
    bm' = IF kind = "set" THEN SetBits(bm, o, n) ELSE ClearBits(bm, o, n)

Next ==
    \E kind \in {"set", "clear"}, o \in HeaderUnits .. UnitsPerPage - 1 :
        \E n \in 0 .. UnitsPerPage - o : Edit(kind, o, n)

Spec == Init /\ [][Next]_bm

-----------------------------------------------------------------------------
(* Properties                                                              *)

TypeOK == bm \in [0 .. NumWords - 1 -> Words]

\* The scans (count_zero_bits, count_nonzero_bits, find_free_block,
\* find_longest_free_block) agree with their meaning on every reachable
\* bitmap: a count below the limit is the exact run, a count that reaches
\* the limit may overshoot it but never the run; find_free_block is first
\* fit for every request size and find_longest_free_block is the longest
\* clear run of the payload.
ScansMatchMeaning ==
    /\ \A o \in HeaderUnits .. UnitsPerPage, lim \in 1 .. UnitsPerPage :
          LET z == CountZeroBits(bm, o, lim)
              u == CountNonzeroBits(bm, o, lim)
          IN  /\ IF ZeroRun(bm, o) < lim THEN z = ZeroRun(bm, o)
                 ELSE lim <= z /\ z <= ZeroRun(bm, o)
              /\ IF OneRun(bm, o) < lim THEN u = OneRun(bm, o)
                 ELSE lim <= u /\ u <= OneRun(bm, o)
    /\ \A n \in 1 .. MaxDataUnits : FindFreeBlock(bm, n) = FirstFit(bm, n)
    /\ FindLongestFreeBlock(bm) = LongestRun(bm)

\* set_bits and clear_bits, from any reachable bitmap and for every range
\* of the payload, change exactly the bits of [off, off + len): the leading
\* partial word, the whole words and the trailing bits neither miss a bit
\* of the range nor touch one outside it.
EditsExact ==
    \A o \in HeaderUnits .. UnitsPerPage - 1 : \A n \in 0 .. UnitsPerPage - o :
        LET r == o .. (o + n - 1) IN
        /\ SetUnits(SetBits(bm, o, n)) = SetUnits(bm) \cup r
        /\ SetUnits(ClearBits(bm, o, n)) = SetUnits(bm) \ r
====
