# TLA+ models of libpussy

This directory holds TLA+ models of the allocators and buffers in
`src/src/`, checked with TLC. Every module is written from the C source.
`PROJECT.json` maps each definition to the lines it models (`map`). It also
lists the runs, the mutants that show each property can fail, the
disagreements the runs found (`findings`) and the hazards of the code.

## The system

- **Pet allocator** (`allocator_pet.c`) has two tiers.
  - Blocks of fewer than `max_data_units` units come from *bitmap pages*. A
    bitmap page is a page whose header holds a bitmap of used units and the
    links of a circular list.
  - Larger blocks are direct `mmap` mappings.
  - Free bitmap pages sit in the *superblock*: an array of list heads indexed
    by each page's longest free block (LFB). `lru_page` is a one-page list
    head of its own.
  - Threads share one mutex. A page whose `list` field is null is *owned* by
    the thread that detached it, and only that thread edits its bitmap.
  - `grab_page` spins until a page is back in some list. `unhand_page` files
    the previous LRU page under its LFB, or munmaps it after the unlock when
    it is empty.
  - On top of the tiers sit `_allocate`, `_release` and `_reallocate`, and the
    page wrappers `call_mmap`, `call_munmap`, `call_mremap` and `cleanse`.
- **Ring buffer** (`ringbuffer_base.c`) is a page-aligned buffer with `head`
  and `tail` indices. It is grown and shrunk with `mremap`.
  `ringbuffer_sync.c` wraps each operation in a mutex and signals events.
- **FSB arena** (`fsb_arena.c`) hands out blocks of one fixed size from pages
  with a bitmap header. Pages with a free block are on `avail_pages`; full
  pages are on `full_pages`.
- **Linear arena** (`arena.c`) is a singly linked list of regions. The
  arena's own mapping embeds the first region; every further region is a
  mapping of its own. A region hands out bytes from its `tail` upwards.
  `_arena_alloc` tries only the last region and `_arena_fit` tries every
  region. When they fail, `new_region_alloc` maps a region of
  `max(size, new_region_capacity)` bytes.
- **mm-array** (`mmarray.c`) is one mapping with an `ArrayHeader` at its base
  and the items after it. `mmarray_grow` resizes it with
  `mremap(MREMAP_MAYMOVE)`, and `mmarray_append_item` grows it by one item.
  The header is found again by rounding the client's pointer down to a page.
- The arena, the mm-array, the FSB arena and the ring buffer do not call
  the allocator. They call `mmap`, `mremap` and `munmap` directly, so they
  meet only in the process's address space.

## Modules

| module | models | state | actions |
|---|---|---|---|
| `BitmapScan` | `count_zero_bits`, `count_nonzero_bits`, `set_bits`, `clear_bits`, `find_free_block`, `find_longest_free_block`, `count_trailing_zeros` (word.h) | one page's bitmap as a function from word index to a Word | `Edit`: `set_bits`/`clear_bits` on any payload range |
| `BitmapTier` | the contract of `bm_allocate`, `bm_grow`, `bm_shrink`, `bm_release`: one block added, lengthened in place over free units, shortened or removed per step | `blocks` | `Allocate`, `Grow`, `Shrink`, `Release` |
| `PetAllocator` | page lists, handoff and `bm_*` operations, for threads sharing the superblock | `mapped`, `bitmap` (units in use per page), `links` (superblock and LRU heads; `list`, `next`, `prev` per page), `live` blocks, per-thread `pc` and `op` | one action per critical section: `BmAllocate`, `LruToSuperblock`, `ScanAgain`, `MapNewPage`, `UnhandPage`, `UnmapReclaimed`, `BeginBlockOp`, `BmRelease`, `BmShrink`, `BmGrow`, `GrabSpin` |
| `PetReallocate` | `_allocate`, `_release`, every branch of `_reallocate`, `call_mremap`, `cleanse` | the client's `slot` (address and size), `held` reservations, the block's bytes as tags, `pc`, the `last` call's result | `AllocateCall`, `ReallocateCall`, `ReleaseCall`, `WriteCall` |
| `RingBuffer` | `init/fini/create/delete/write/read/grow/shrink_ringbuffer`, `srb_init` with its failure paths, `srb_fini`, `srb_create`, `srb_delete`, and the other `srb_*` wrappers as atomic steps | `mem`, `size`, `head`, `tail`, tokens `written`, the last read's `out`, `mapping` (`data`: null, `MAP_FAILED` or mapped), `lock` (mutex initialised), the object `srb`, `pc` | `SrbInit`, `SrbFini`, `SrbCreate`, `SrbDelete`, `CreateRingbuffer`, `DeleteRingbuffer`, `Write`, `Read`, `Grow`, `Shrink` |
| `ByteFifo` | what `ringbuffer.h` promises: a byte queue that init opens and fini discards | `q`, `out`, `open` | `Open`, `Close`, `Put`, `Get` |
| `Arena` | `create_arena`, `delete_arena`, `set_region_capacity`, `_arena_alloc`, `_arena_fit`, `region_alloc`, `new_region_alloc`, `create_region`, `alloc_mem`, `free_arena`/`free_region` | `regions` (the list as a sequence of `[at, base, tail, capacity]`), `nrc` (`new_region_capacity`), `mapped` pages, the client's `blocks`, the last call's result `ret` | `CreateArena`, `SetRegionCapacity`, `ArenaAlloc`, `ArenaFit`, `DeleteArena` |
| `MMArray` | `mmarray_allocate`, `mmarray_grow`, `mmarray_append_item`, `calc_memsize` | `mapped` pages, `array` (header fields plus the mapping's real base and size), `data` items, tokens `written`, `pc` | `MMAllocate`, `MMGrow`, `MMAppendItem` |
| `GrowableArray` | what `mmarray.h` promises: an array that grows and keeps its items | `items`, `written` | `Allocate`, `Grow`, `AppendItem` |
| `PageClients` | an arena and an mm-array in one process | both modules' variables, with `mapped` shared | a step of either |
| `FsbArena` | `_init_fsb_arena`'s size computation and `bitmap_size` loop, `fsb_arena_allocate`, `fsb_arena_release`, `destroy_fsb_arena`, the list helpers | `links` (`avail`, `full` heads and per-page `nx`, `pv`), `mapped`, `numFree`, `used`, `held`, `pc` | `Allocate`, `Release`, `Destroy` |

`MCPetAllocator`, `MCPetReallocate`, `MCBitmapScan` and `MCFsbArena` give the
model values and sets to TLC. `RingBuffer` and `PageClients` take only integer
constants (and one model value), so their `.cfg` files instantiate them
directly.

### How the code maps to the model

- **PetAllocator steps.** A step is one critical section of `lock`, together
  with the unlocked bitmap work the thread then does on the page it owns.
  That work touches only the owned page, so merging it with the critical
  section adds no behaviour and hides none. The `munmap` of a reclaimed page
  comes after the unlock, so it is a separate step (`UnmapReclaimed`).
  `find_available_page` takes up to three critical sections, and each is a
  separate step:
  - taking the LRU page (`BmAllocate`/`TakeLru`);
  - `add_to_superblock_entry` (`LruToSuperblock`);
  - the superblock scan (`ScanAgain`).
- **Bitmaps and scans.** In PetAllocator a bitmap is the set of used units,
  and the scans are used by their meaning (first fit, longest run).
  BitmapScan checks that the word-level code computes exactly that meaning
  on every reachable bitmap.
- **PetReallocate abstractions.**
  - The bitmap tier is reduced to its outcomes: `bm_allocate` returns a fresh
    sub-tier address or NULL, and `bm_grow` succeeds or fails.
  - An address is a tier and an id. The tier stands for "page aligned or not",
    which is what `bm_page_by_addr(addr) == addr` tests.
  - Bytes are tags: `"d"` written by the client, `"0"` zeroed, `"?"` unknown.
  - `mremap` may grow a mapping in place, move it, or fail. A shrink may fail,
    and always fails for size 0.
  - The ends of the D→T branch are terminal states:
    - `"hang"`: `grab_page` spins for ever on a zero `list`;
    - `"ub"`: a client byte is used as a list pointer.
- **RingBuffer data.** Every byte written is a fresh token. `Junk` (0) is any
  byte the client did not write, including reads outside the mapping. Pages
  unmapped by a shrink read as `Junk` when they are mapped again.
- **RingBuffer lifecycle.** `srb` says which object the client holds:
  - a zeroed `SyncRingBuffer` it embeds and passes to `srb_init` and
    `srb_fini` (`"embedded"`);
  - one from `srb_create` and `srb_delete` (`"none"`, `"heap"`);
  - a plain `RingBuffer` from `create_ringbuffer` and `delete_ringbuffer`
    (`"rb_none"`, `"rb_heap"`).

  When a create fails, the struct is released and nullptr returned, which
  leaves no state, so only a successful create is a step. This is also why
  the `srb_fini` hazard below needs an embedded struct.
  `SrbInit` is one step with its four outcomes:
  `mmap` fails (`data` is `MAP_FAILED`), `mtx_init` fails, an event cannot
  be created (the mutex stays initialised), or success. The buffer
  operations are enabled only while `mapping = "mapped"`, and the queue
  `ByteFifo` is open exactly then.
- **Arena list.** `new_region_alloc` is the only code that links a region,
  and it sets `last->next` and `last` together. So the list is a sequence
  and `last` is its end. A block's address is
  `at + REGION_HEADER_SIZE + start`. Here `at` is the `Region` struct: the
  mapping's base for a new region, or `base + offsetof(Arena, first)` for
  the first region. Alignment is checked on that address.
- **Page primitive.** Addresses are integers and pages are numbered from 0.
  - `mmap` may fail at any call. Otherwise it returns any run of free pages.
  - `mremap(MREMAP_MAYMOVE)` grows in place when the next pages are free,
    moves to any free run, or fails. It moves only the old size it is
    given.
  - `munmap` unmaps every page that the range it is given touches.
- **mm-array.** `array.memsize` is the size the kernel really mapped, kept
  apart from the header's `capacity`. So a wrong old size passed to
  `mremap` shows as pages left behind or taken from a neighbour. Items are
  tokens: the k-th append writes token k. A failed `mmap` or `mremap` is
  `abort()` (`pc = "abort"`), which stops the whole process in
  `PageClients`.
- **FsbArena pages.** A page's header fields are functions over page ids.
  Release and destroy paths that dereference a null or unmapped page end in
  `pc = "crash"`.

## Runs

| run | cfg | expect | what it shows |
|---|---|---|---|
| petallocator | MCPetAllocator.cfg | pass | Two threads allocate, shrink, grow and release on two pages. The pages are 96 bytes of 16-byte units with 12 bytes of header fields, for which `_init` computes 6 units with 1 header unit, the sizes are 2 and 4, and at most 2 blocks are live. The run checks these invariants: <ul><li>live blocks are disjoint (`NoOverlap`);</li><li>each bitmap is exactly its header plus its live blocks (`BitmapFaithful`);</li><li>a page being edited is in no list and owned by no other thread (`ExclusiveOwnership`);</li><li>every page on `superblock[j]` has LFB j, so the abort in `find_available_page` is unreachable (`SuperblockIndexedByLfb`);</li><li>a page chosen for reclaim holds no live block (`ReclaimOnlyEmpty`);</li><li>when every thread is idle, a mapped page without a live block is `lru_page` (`EmptyPageOnlyInLru`): an empty page is never stranded in a superblock entry or outside every list, where nothing would unmap it.</li></ul> Under `FairSpec` it also checks `GrabberEventuallyServed` (a thread spinning in `grab_page` is eventually served) and `TierRefinement`: the `bm_*` steps of all threads implement `BitmapTier`, with the live blocks as the abstract `blocks`. This is the contract `PetReallocate` abstracts the tier to. About 117,000 distinct states in under three minutes. |
| petallocator_lists | MCPetAllocatorLists.cfg | violation | `ListConsistent`: `delete_from_list` empties a two-page list (finding). |
| bitmapscan | MCBitmapScan.cfg | pass | 4-bit words, 3 words per page. `ScansMatchMeaning`: every count, first fit and longest run is exact on every reachable bitmap. `EditsExact`: `set_bits` and `clear_bits` change exactly the requested range. |
| reallocate | MCPetReallocate.cfg | pass | 2-byte units, 8-byte pages, 4-byte words and sizes {0,1,3,4,6,11,17}. Properties: `CleanseExact`, `ClientBlockHeld`, `ReallocPreserves` (spec property 6), `CleanContract` (property 7) and `MovedMeansNewAddress`. Each holds up to the branches that end the process. Every error exit of `_reallocate` is the `error:` label, which changes nothing, so failure atomicity holds by construction and is not stated as a property. |
| realloc_d_to_t | MCPetReallocate_SubAllocatorGetsOwnPages.cfg | violation | The D→T shrink calls `bm_release` on a direct mapping. |
| realloc_fallback_abort | MCPetReallocate_NoAbortOnOwnPointer.cfg | violation | After the remap fallback, reallocating the returned pointer aborts. |
| realloc_shrink_leak | MCPetReallocate_NoLeak.cfg | violation | A failed `mremap` shrink leaks pages. |
| rb_read | MCRingBufferRead.cfg | violation | `FifoRefinement` fails. This property says the ring buffer implements `ByteFifo` when `[head, tail)` is read as the queue. `read_ringbuffer` uses `size - tail` where it means `size - head`. |
| rb_resize | MCRingBufferResize.cfg | violation | `ResizeKeepsContents` fails: `shrink_ringbuffer` leaves stale bytes inside the queue. |
| fsb_lists | MCFsbArena.cfg | violation | `PagesAccounted` fails: the FSB arena's `delete_from_list` has the same two-page bug. The trace fills two pages, which moves them to the full list, then releases from each so both return to the avail list and one deletion empties it. |
| fsb_one_block | MCFsbArena_OneBlock.cfg | violation | `NoWildDereference` fails. With one block per page, releasing a page's only block reads `avail_pages->next` through nullptr (finding). |
| page_clients | MCPageClients.cfg | pass | A linear arena and an mm-array share five 4 KiB pages. The run checks: <ul><li>`BlocksDisjointAligned`: arena blocks are aligned as asked, lie inside the used part of a live region, and are disjoint;</li><li>`NullOnlyWhenMapFails`: `_arena_alloc` and `_arena_fit` return nullptr only when `mmap` failed;</li><li>`PagesOwned`: every mapped page belongs to exactly one object, across `mremap` moves and `delete_arena`;</li><li>`ArrayRefinement`: the array implements `GrowableArray`;</li><li>`TypeOK`, which includes that the capacity computed from `calc_memsize` stays a natural number, so `memsize - sizeof(ArrayHeader)` never wraps, even for an array of length 0.</li></ul> About 711,000 distinct states. |

Every property of a passing run has a mutant in `PROJECT.json`. A mutant is a
plausible bug in the mapped code, and under it TLC finds the property violated.

### Bounds

- **PetAllocator.**
  - Two threads and two page addresses are the fewest that allow a grab
    spinning on an owned page and two pages in one superblock entry.
  - The page geometry is not a constant. `PageSize`, `UnitSize` and
    `HeaderFields` (`offsetof(BmPageHeader, bitmap)`) are, and
    `UnitsPerPage` and `HeaderUnits` are computed by `_init`'s formulas.
    A 96-byte page of 16-byte units with the ILP32 header fields (three
    4-byte pointers) gives 6 units with a 1-unit header. PetReallocate
    scales the same formula down to 2-byte units, 8-byte pages and 2 bytes
    of header fields.
  - Pages of 5 data units with sizes 2 and 4 allow full pages, partly free
    pages, grows that fit and grows that do not, and an empty LRU page that
    is reclaimed.
  - Two live blocks at a time are enough for every mutant of the safety
    properties to be caught. The run checks liveness too, so it uses no
    symmetry; it reaches about 117,000 distinct states in under three minutes.
- **BitmapScan.** Three 4-bit words put runs across word boundaries, starts
  inside a word, and ends at the last word.
- **PetReallocate.**
  - The sizes cover every branch of the decision table:
    - 1 and 3 bytes are the T tier; 6 and above are the D tier;
    - 4 bytes is the same unit count as 3;
    - 11 and 17 bytes make multi-page grows and shrinks;
    - 0 is the zero edge.
  - Two ids per tier let a relocation find a fresh address.
- **RingBuffer.**
  - Pages of 2 bytes exercise the page masks.
  - The read run uses 2 pages. With at most 2 pages a shrink cannot leave a
    gap, so a departure from the queue there can only come from `Read`.
  - The resize run uses 4 pages, which allows whole free pages between tail
    and head.
- **FsbArena.**
  - The constants are the inputs of `_init_fsb_arena` on LP64: 4 KiB pages,
    a 32-byte page header, 8-byte 64-bit bitmap words and 8-byte
    alignment. `BlocksPerPage` is not a constant: the module computes it
    with the code's `bitmap_size` loop (`BitmapWords`, a recursive
    operator), and `ASSUME InitSucceeds` keeps to the inputs for which
    `_init_fsb_arena` returns true.
  - The list run uses 1024-byte blocks, which gives 3 blocks per page;
    three pages put two pages on one list.
  - The one-block run uses 2048-byte blocks, which gives 1 block per page.
- **PageClients.** The constants are the real LP64 layout: 4 KiB pages, and
  `REGION_HEADER_SIZE`, `offsetof(Arena, first)`, `alignof(max_align_t)` and
  `sizeof(ArrayHeader)` all 16.
  - Arena capacities of 100 and 5000 bytes give one-page and two-page
    regions.
  - Size 4050 leaves a tail within 16 bytes of the end of a first region, so
    a 16-aligned start lands at or past `capacity` (the first early return
    of `region_alloc`).
  - Size 5000 needs a region larger than `new_region_capacity`.
  - Three blocks allow a `fit` back into an earlier region after
    `_arena_alloc` opened a new one.
  - Array items of 8 bytes never outgrow the first page. Items of 3000
    bytes make an append `mremap` the array, either in place or moved past
    an arena region.
  - Five pages let the arena and the array sit side by side and run out of
    room, so `mmap` and `mremap` also fail for lack of space.

### Fairness

- Only the `petallocator` run uses fairness, through `FairSpec`.
- Every thread has weak fairness on the steps it takes on a page it owns or
  has detached: the rest of `find_available_page`, `unhand_page` and its
  munmap, and the body of `bm_release`, `bm_shrink` and `bm_grow`. These run
  without waiting on anyone once their lock is free, so a scheduler that
  keeps running a thread justifies weak fairness.
- The spin in `grab_page` gets no fairness. Nothing in the code promises a
  spinner the lock (spec section 5: "no guarantee of FIFO fairness"). The
  property only claims that the page becomes available, which depends on
  the owner alone.

### Deadlock

- PetReallocate, RingBuffer, FsbArena and PageClients runs set
  `CHECK_DEADLOCK FALSE`. Their terminal states are `abort()`, a crash or
  the undefined ends, and each of these stops the process.
- The PetAllocator runs check deadlock.

## What is not modelled, and why

- **Diagnostics.** `dump`, `dump_bm_page`, `dump_bitmap`, `print_msg`, the
  TRACE output and the `stats` counters write to stderr or keep relaxed
  counters that nothing reads back.
- **Start-up failures.** `_init`'s parameters are computed as the code
  computes them (see Bounds), and its superblock is the all-nullptr `Init`.
  A failing superblock `mmap` aborts before any call, so it leaves no
  behaviour to check. A failing `mtx_init(&lock, mtx_plain)` is only
  logged, but a plain mutex cannot fail to initialise on the supported
  platform. `sys_page_size` is the `PageSize` constant.
- **Ring buffer events.** The events of the synchronized ring buffer
  (`sync.h`) are not in this repository, so the blocking waits are not
  modelled. `srb_init` creating them, and failing to, is. The struct
  allocation in `create`/`delete` is not modelled either.
- **Ring buffer lifecycle without a run.** `srb_fini` tests `data` against
  nullptr, but after a failed `mmap` in `init_ringbuffer` `data` is
  `MAP_FAILED`. A `srb_fini` after a failed `srb_init` then destroys a
  mutex and events that were never created (`SrbFini` moves `pc` to
  `"ub"`). Both RingBuffer runs are violation runs of the read and shrink
  findings, which any bound that wraps the buffer meets first, so no
  checked property states this. It is a hazard at `ringbuffer_sync.c:29`.
- **FSB sizes that wrap.** For a block larger than a page,
  `sys_page_size - header_size` wraps as `unsigned`, the size check passes,
  and the loop ends with 8192 bitmap words and 524279 blocks per page for
  8192-byte blocks. TLC cannot hold 2^32, so the FSB runs keep to sizes
  `_init_fsb_arena` accepts; this is a hazard at `fsb_arena.c:67`.
- **Output.** `arena_print` and `dump_fsb_arena` only print.
- **Read-only calls.** `mmarray_length` and `mmarray_capacity` only read the
  header.
- **Unsigned width.** TLC's integers are 32-bit signed and cannot hold
  2^32. So the wrap of `unsigned` sums and products in `arena.c` and
  `mmarray.c`, which happens only for sizes near 4 GiB, is not modelled.
  `PROJECT.json` lists these as hazards.
- **Arena preconditions.** Inputs satisfy the asserts of `region_alloc`:
  sizes are greater than 0, and alignments are powers of two no larger than
  `alignof(max_align_t)`.
- **Other ABIs.** Only the LP64 struct layout is checked. With the i386
  layout (`offsetof(Arena, first)` = 8, `REGION_HEADER_SIZE` = 12) TLC
  breaks `BlocksDisjointAligned` in two steps. `region_alloc` aligns
  relative to the embedded first `Region`, which is only 8-aligned there,
  so a 16-aligned request gets an address that is 8 mod 16. This is
  recorded as a hazard at `arena.c:99`.
- **Zero-size reallocate.** `_reallocate` checks `!(old_nbytes | new_nbytes)`
  only after `old == new` has returned. So a reallocate of a live block to
  0 bytes succeeds, while the spec's table calls it a programmer error
  (`allocator_pet.c:901`). The client's later `release(p, 0)` then aborts.
  This is recorded as a hazard, covered by `NoAbortOnOwnPointer`; the
  `realloc_fallback_abort` run stops at its other trace first.

## Plan for later work

1. A ring buffer run that passes once the two ring buffer findings are
   excluded by the bounds, with mutants of `Write` and `Grow`, and a
   property for the `srb_fini` after a failed `srb_init`.
2. Connect PetReallocate to PetAllocator through `BitmapTier`: PetAllocator
   now refines it; the next step is PetReallocate's abstract tier as an
   instance of the same module.
