----------------------------- MODULE BitmapTier -----------------------------
(***************************************************************************)
(* What the bitmap tier promises the interface functions of                *)
(* src/src/allocator_pet.c, and what module PetReallocate assumes of it:   *)
(* the set of blocks handed out changes one block at a time, atomically,   *)
(* whichever threads call in.                                              *)
(*                                                                         *)
(*   bm_allocate(k)   adds a block of exactly k units that overlaps none   *)
(*                    held, or returns nullptr (no change);                *)
(*   bm_grow          lengthens a block in place to the requested size     *)
(*                    over units no other block holds, or fails (no        *)
(*                    change) and the caller moves the block;              *)
(*   bm_shrink        shortens a block in place;                           *)
(*   bm_release       removes a block.                                     *)
(*                                                                         *)
(* A block is a page, a unit offset past the page header, and a length.    *)
(***************************************************************************)
EXTENDS Integers

CONSTANTS
    Pages,          \* addresses of data pages
    UnitsPerPage,   \* units_per_page
    HeaderUnits,    \* bm_page_header_size_in_units
    Sizes           \* the unit counts the callers request

VARIABLE blocks     \* the blocks handed out and not yet released

Payload == HeaderUnits .. UnitsPerPage - 1

Span(b) == b.off .. (b.off + b.len - 1)

\* block b lies in the payload and shares no unit with a held block other
\* than `except`
Clear(b, except) ==
    /\ Span(b) \subseteq Payload
    /\ \A c \in blocks \ {except} : c.page = b.page => Span(c) \cap Span(b) = {}

Allocate ==
    \E k \in Sizes, p \in Pages, o \in Payload :
        LET b == [page |-> p, off |-> o, len |-> k] IN
        /\ b \notin blocks
        /\ Clear(b, b)
        /\ blocks' = blocks \cup {b}

Grow ==
    \E b \in blocks, n \in Sizes :
        LET c == [b EXCEPT !.len = n] IN
        /\ n > b.len
        /\ Clear(c, b)
        /\ blocks' = (blocks \ {b}) \cup {c}

Shrink ==
    \E b \in blocks : \E n \in 1 .. b.len - 1 :
        blocks' = (blocks \ {b}) \cup {[b EXCEPT !.len = n]}

Release ==
    \E b \in blocks : blocks' = blocks \ {b}

Init == blocks = {}

Next == Allocate \/ Grow \/ Shrink \/ Release

Spec == Init /\ [][Next]_blocks

====
