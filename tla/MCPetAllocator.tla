--------------------------- MODULE MCPetAllocator ---------------------------
(* Instantiation of PetAllocator for TLC: two threads, two page addresses *)
(* and 96-byte pages of 16-byte units with the ILP32 header fields (12     *)
(* bytes), for which _init computes 6 units per page, a 1-unit header and  *)
(* max_data_units = 5.                                                     *)
EXTENDS PetAllocator, TLC

CONSTANTS t1, t2, p1, p2

MCThreads == {t1, t2}

\* two addresses: enough for two pages to share a superblock entry and
\* for a thread to find mmap failing
MCPages == {p1, p2}

\* threads and page addresses are interchangeable (safety runs only)
MCSymmetry == Permutations(MCThreads) \cup Permutations(MCPages)
====
