------------------------------ MODULE RingBuffer -----------------------------
(***************************************************************************)
(* The ring buffer of src/src/ringbuffer_base.c and its locked wrappers in *)
(* src/src/ringbuffer_sync.c.  srb_read, srb_write, srb_grow and           *)
(* srb_shrink each run the base function under srb->lock, so each is one   *)
(* atomic step here, whichever thread calls it.  The buffer object is a   *)
(* SyncRingBuffer the client embeds or obtains from srb_create, or a plain *)
(* RingBuffer from create_ringbuffer.                                      *)
(*                                                                         *)
(* The buffer `data` of `size` bytes holds the bytes [head, tail), read    *)
(* cyclically.  Every byte the client writes is a fresh token 1, 2, ...;   *)
(* Junk stands for any byte it did not write (fresh pages, bytes outside   *)
(* the mapping).                                                           *)
(***************************************************************************)
EXTENDS Integers, Sequences

CONSTANTS
    PageSize,   \* sys_page_size
    MaxPages,   \* bound: the buffer never grows beyond this many pages
    MaxChunk,   \* bound: bytes per write, and buffer size per read
    MaxToken    \* bound: bytes written in a behaviour

ASSUME PageSize \in Nat \ {0} /\ MaxPages \in Nat \ {0}

Cells == 0 .. PageSize * MaxPages - 1

Junk == 0

\* align_unsigned(n, sys_page_size), with 0 taken as one page
PageRound(n) ==
    IF ((n + PageSize - 1) \div PageSize) * PageSize = 0 THEN PageSize
    ELSE ((n + PageSize - 1) \div PageSize) * PageSize

\* x & ~(sys_page_size - 1)
PageFloor(x) == (x \div PageSize) * PageSize

VARIABLES
    mem,        \* ringbuf->data[i]
    size,       \* ringbuf->size
    head,       \* ringbuf->head: the oldest byte
    tail,       \* ringbuf->tail: where the next write goes
    written,    \* bytes written so far (the last token)
    out,        \* the bytes the last read returned
    mapping,    \* ringbuf->data: "null", "failed" (MAP_FAILED) or "mapped"
    lock,       \* srb->lock has been initialised and not destroyed
    srb,        \* the buffer object: a SyncRingBuffer "embedded" in the client
                \* (srb_init, srb_fini), "none" / "heap" around srb_create and
                \* srb_delete, or a plain RingBuffer "rb_none" / "rb_heap"
                \* around create_ringbuffer and delete_ringbuffer
    pc          \* "run", "abort" after shrink_ringbuffer's abort(), or
                \* "ub" after srb_fini destroys what srb_init never created

vars == <<mem, size, head, tail, written, out, mapping, lock, srb, pc>>

\* byte i as a read sees it; outside the mapping it is whatever is there
At(i) == IF i \in 0 .. size - 1 THEN mem[i] ELSE Junk

\* n bytes from position lo
Slice(lo, n) == [i \in 1 .. n |-> At(lo + i - 1)]

\* the bytes s stored from position lo
Store(m, lo, s) ==
    [i \in DOMAIN m |-> IF i \in lo .. lo + Len(s) - 1 THEN s[i - lo + 1] ELSE m[i]]

\* the queued bytes: [head, tail), wrapping at size; none without a mapping
Contents ==
    IF mapping # "mapped" THEN <<>>
    ELSE IF head <= tail THEN Slice(head, tail - head)
    ELSE Slice(head, size - head) \o Slice(0, tail)

-----------------------------------------------------------------------------

\* write_ringbuffer(n bytes): fails unless n is less than the free space;
\* copies up to the end of the buffer, then from its start
Write(n) ==
    LET tailLen == IF head > tail THEN head - tail ELSE size - tail
        avail   == IF head > tail THEN tailLen ELSE head + tailLen
        toks    == [i \in 1 .. n |-> written + i]
    IN  /\ pc = "run"
        /\ written + n <= MaxToken
        /\ \/ /\ n >= avail
              /\ UNCHANGED vars
           \/ /\ n < avail
              /\ n < tailLen
              /\ mem' = Store(mem, tail, toks)
              /\ tail' = tail + n
              /\ written' = written + n
              /\ UNCHANGED <<size, head, out, pc>>
           \/ /\ n < avail
              /\ n >= tailLen
              /\ mem' = Store(Store(mem, tail, SubSeq(toks, 1, tailLen)),
                              0, SubSeq(toks, tailLen + 1, n))
              /\ tail' = n - tailLen
              /\ written' = written + n
              /\ UNCHANGED <<size, head, out, pc>>

\* read_ringbuffer(buffer of k bytes)
Read(k) ==
    LET upperLen == size - tail
        lowerLen == IF tail < k - upperLen THEN tail ELSE k - upperLen
        len      == IF tail - head <= k THEN tail - head ELSE k
    IN  /\ pc = "run"
        /\ \/ /\ head = tail
              /\ out' = <<>>
              /\ UNCHANGED head
           \/ /\ head < tail
              /\ out' = Slice(head, len)
              /\ head' = head + len
           \/ /\ head > tail
              /\ k <= upperLen
              /\ out' = Slice(head, k)
              /\ head' = IF k = upperLen THEN 0 ELSE head + upperLen
           \/ /\ head > tail
              /\ k > upperLen
              /\ out' = Slice(head, upperLen) \o Slice(0, lowerLen)
              /\ head' = lowerLen
        /\ UNCHANGED <<mem, size, tail, written, pc>>

\* grow_ringbuffer(n): mremap(MREMAP_MAYMOVE) to the rounded size, then the
\* upper part of wrapped data is moved to the new end
Grow(n) ==
    LET new    == PageRound(n)
        offset == new - size
    IN  /\ pc = "run"
        /\ new <= PageSize * MaxPages
        /\ \/ /\ new <= size
              /\ UNCHANGED vars
           \/ /\ new > size
              /\ UNCHANGED vars             \* mremap failed
           \/ /\ new > size
              /\ mem' = IF head > tail
                        THEN Store(mem, head + offset, Slice(head, size - head))
                        ELSE mem
              /\ head' = IF head > tail THEN head + offset ELSE head
              /\ size' = new
              /\ UNCHANGED <<tail, written, out, pc>>

\* the pages past new are unmapped; mapped again later they read as Junk
Unmap(m, new) == [i \in DOMAIN m |-> IF i < new THEN m[i] ELSE Junk]

\* shrink_ringbuffer(n): find the whole pages of free space, move the data
\* down over them, mremap to the larger of the rounded n and what is left
\* (abort() when mremap fails)
Shrink(n) ==
    LET req == PageRound(n)
        s   == IF head = tail THEN size - PageSize
               ELSE IF head > tail THEN PageFloor(head - tail - 1)
               ELSE PageFloor(head + size - tail - 1)
        m1  == IF head > tail THEN Store(mem, head - s, Slice(head, size - head))
               ELSE IF head < tail /\ head # 0 THEN Store(mem, 0, Slice(head, tail - head))
               ELSE mem
        h1  == IF head = tail THEN 0 ELSE IF head > tail THEN head - s ELSE 0
        t1  == IF head = tail THEN 0 ELSE IF head > tail THEN tail ELSE tail - head
        new == IF req < size - s THEN size - s ELSE req
    IN  /\ pc = "run"
        /\ \/ /\ req >= size
              /\ UNCHANGED vars
           \/ /\ req < size
              /\ s = 0
              /\ head' = IF head = tail THEN 0 ELSE head
              /\ tail' = IF head = tail THEN 0 ELSE tail
              /\ UNCHANGED <<mem, size, written, out, pc>>
           \/ /\ req < size
              /\ s # 0
              /\ \/ /\ mem' = Unmap(m1, new)
                    /\ size' = new
                    /\ UNCHANGED pc
                 \/ /\ mem' = m1
                    /\ pc' = "abort"         \* mremap failed
                    /\ UNCHANGED size
              /\ head' = h1
              /\ tail' = t1
              /\ UNCHANGED <<written, out>>

-----------------------------------------------------------------------------

\* init_ringbuffer(s): the size rounded up to whole pages (one page for 0)
\* and an mmap of it; on success an empty buffer over fresh zeroed pages,
\* on failure data is MAP_FAILED and head and tail are left as they were
InitRingbuffer(s, mapped) ==
    /\ size' = PageRound(s)
    /\ IF mapped THEN /\ mem' = [i \in Cells |-> Junk]
                      /\ head' = 0
                      /\ tail' = 0
       ELSE UNCHANGED <<mem, head, tail>>

\* fini_ringbuffer: munmap and data = nullptr
FiniRingbuffer == mapping' = "null"

\* srb_init(s) on a buffer without a mapping: init_ringbuffer, then
\* mtx_init and the two create_event calls; a failing mtx_init or
\* create_event ends in fini_ringbuffer, and when an event cannot be
\* created the mutex is left initialised (it is not destroyed)
SrbInit(s) ==
    /\ pc = "run"
    /\ mapping # "mapped"
    /\ \/ /\ InitRingbuffer(s, FALSE)
          /\ mapping' = "failed"
          /\ UNCHANGED lock
       \/ /\ InitRingbuffer(s, TRUE)
          /\ \/ FiniRingbuffer /\ UNCHANGED lock
             \/ FiniRingbuffer /\ lock' = TRUE
             \/ mapping' = "mapped" /\ lock' = TRUE
    /\ UNCHANGED <<written, out, pc>>

\* srb_fini: when data is not nullptr, mtx_destroy, delete_event twice and
\* fini_ringbuffer (munmap, data = nullptr); after an mmap failure data is
\* MAP_FAILED and the mutex and events were never created
SrbFini ==
    /\ pc = "run"
    /\ mapping # "null"
    /\ \/ /\ ~lock
          /\ pc' = "ub"
          /\ UNCHANGED <<mapping, lock>>
       \/ /\ lock
          /\ FiniRingbuffer
          /\ lock' = FALSE
          /\ UNCHANGED pc
    /\ UNCHANGED <<mem, size, head, tail, written, out>>

\* srb_create(s): allocate(sizeof(SyncRingBuffer), true) and srb_init on
\* the zeroed struct; when either fails the struct is released without
\* srb_fini and nullptr returned, which leaves no state behind, so only the
\* successful outcome is a step
SrbCreate(s) ==
    /\ srb = "none"
    /\ SrbInit(s)
    /\ mapping' = "mapped"
    /\ srb' = "heap"

\* srb_delete: srb_fini, then release of the struct
SrbDelete ==
    /\ srb = "heap"
    /\ SrbFini
    /\ srb' = "none"

\* create_ringbuffer(s): allocate(sizeof(RingBuffer), false) and
\* init_ringbuffer; on failure the struct is released and nullptr returned,
\* which leaves no state behind. A plain RingBuffer has no mutex.
CreateRingbuffer(s) ==
    /\ pc = "run"
    /\ srb = "rb_none"
    /\ InitRingbuffer(s, TRUE)
    /\ mapping' = "mapped"
    /\ srb' = "rb_heap"
    /\ UNCHANGED <<lock, written, out, pc>>

\* delete_ringbuffer: fini_ringbuffer, then release of the struct
DeleteRingbuffer ==
    /\ pc = "run"
    /\ srb = "rb_heap"
    /\ FiniRingbuffer
    /\ srb' = "rb_none"
    /\ UNCHANGED <<mem, size, head, tail, written, out, lock, pc>>

\* a zeroed SyncRingBuffer: one the client embeds in zeroed storage, or
\* none yet for a client of srb_create
Init ==
    /\ size = 0
    /\ mem = [i \in Cells |-> Junk]
    /\ head = 0
    /\ tail = 0
    /\ written = 0
    /\ out = <<>>
    /\ mapping = "null"
    /\ lock = FALSE
    /\ srb \in {"embedded", "none", "rb_none"}
    /\ pc = "run"

Next ==
    \/ /\ mapping = "mapped"
       /\ \/ \E n \in 1 .. MaxChunk : Write(n)
          \/ \E k \in 1 .. MaxChunk : Read(k)
          \/ \E n \in 1 .. PageSize * MaxPages : Grow(n)
          \/ \E n \in 1 .. PageSize * MaxPages : Shrink(n)
       /\ UNCHANGED <<mapping, lock, srb>>
    \/ /\ srb = "embedded"
       /\ \/ \E s \in 0 .. PageSize * MaxPages : SrbInit(s)
          \/ SrbFini
       /\ UNCHANGED srb
    \/ \E s \in 0 .. PageSize * MaxPages : SrbCreate(s)
    \/ SrbDelete
    \/ \E s \in 0 .. PageSize * MaxPages : CreateRingbuffer(s)
    \/ DeleteRingbuffer

Spec == Init /\ [][Next]_vars

-----------------------------------------------------------------------------
(* Properties                                                              *)

TypeOK ==
    /\ mem \in [Cells -> 0 .. MaxToken]
    /\ size \in {p * PageSize : p \in 0 .. MaxPages}
    /\ head \in 0 .. size
    /\ tail \in 0 .. size
    /\ written \in 0 .. MaxToken
    /\ out \in Seq(0 .. MaxToken)
    /\ mapping \in {"null", "failed", "mapped"}
    /\ lock \in BOOLEAN
    /\ srb \in {"embedded", "none", "heap", "rb_none", "rb_heap"}
    /\ pc \in {"run", "abort", "ub"}

Fifo == INSTANCE ByteFifo WITH q <- Contents, out <- out, open <- mapping = "mapped"

\* The ring buffer is a byte queue (ringbuffer.h: read "the data", write
\* "the data"): under the mapping of [head, tail) to the queue, every
\* write_ringbuffer appends, every read_ringbuffer returns the oldest bytes
\* and removes exactly those, grow and shrink keep the queue, and only
\* the init and fini or create and delete calls open and discard it.
FifoRefinement == Fifo!Spec

\* grow_ringbuffer and shrink_ringbuffer move data but never change it: a
\* step that resizes the buffer keeps the queued bytes as they were.
ResizeKeepsContents == [][size' # size => Contents' = Contents]_vars

====
