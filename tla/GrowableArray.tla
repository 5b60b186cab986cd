---------------------------- MODULE GrowableArray ----------------------------
(***************************************************************************)
(* What mmarray.h promises of a growable array: mmarray_allocate creates   *)
(* an array of the desired length, mmarray_grow lengthens it keeping its   *)
(* items, and mmarray_append_item adds one item at the end.  Items are the *)
(* tokens the client appends: the k-th append passes token k.  Before the  *)
(* array is allocated `items` is NoArray.                                  *)
(***************************************************************************)
EXTENDS Naturals, Sequences, SequencesExt

CONSTANT NoArray

VARIABLES items, written

Init == items = NoArray /\ written = 0

Allocate ==
    /\ items = NoArray
    /\ items' \in Seq(Nat)
    /\ UNCHANGED written

Grow ==
    /\ items # NoArray
    /\ items' # NoArray
    /\ Len(items') > Len(items)
    /\ IsPrefix(items, items')
    /\ UNCHANGED written

AppendItem ==
    /\ items # NoArray
    /\ written' = written + 1
    /\ items' = Append(items, written')

Next == Allocate \/ Grow \/ AppendItem

Spec == Init /\ [][Next]_<<items, written>>

====
