------------------------------ MODULE ByteFifo ------------------------------
(***************************************************************************)
(* What the ring buffer of src/include/ringbuffer.h promises: a queue of   *)
(* bytes.  Initialisation opens an empty queue; a write appends bytes, a   *)
(* read takes the oldest bytes, as many as it returns, grow or shrink      *)
(* leave the queue as it is, and finalisation discards it.                 *)
(***************************************************************************)
EXTENDS Integers, Sequences, SequencesExt

VARIABLES
    q,      \* the bytes written and not yet read, oldest first
    out,    \* the bytes the last read returned
    open    \* the buffer is initialised and not finalised

Put == /\ open
       /\ IsPrefix(q, q')
       /\ UNCHANGED <<out, open>>

Get == /\ open
       /\ \E n \in 0 .. Len(q) :
             /\ out' = SubSeq(q, 1, n)
             /\ q' = SubSeq(q, n + 1, Len(q))
       /\ UNCHANGED open

Open == /\ ~open
        /\ open'
        /\ q' = <<>>
        /\ UNCHANGED out

Close == /\ open
         /\ ~open'
         /\ q' = <<>>
         /\ UNCHANGED out

Init == q = <<>> /\ out = <<>> /\ ~open

Next == Put \/ Get \/ Open \/ Close

Spec == Init /\ [][Next]_<<q, out, open>>

====
