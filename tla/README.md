# cadalloc in TLA+

`cadalloc` is a `no_std` memory allocator for one fixed region of memory. Its
state lives in that region: segregated free lists for fixed size classes, which
are lock-free stacks; one list of oversized blocks, a bump pointer, and block
splitting, which are under one spinlock. This directory holds TLA+ models of
it, TLC configurations, and proofs checked by TLAPS.

## The system

| Component | State | Operations | Interacts with |
|---|---|---|---|
| Geometry (`allocator.rs`, `config.rs`) | none: `const fn`s of a `Config` | `bin_class`, `bin_index`, `floor_bin`, `align_of_bin`, `largest_carvable`, `request_block_size`, `VALIDATE` | everything below |
| Fixed bins | one head word per class (address + tag), the link at offset 8 of each free block | `push_fixed`, `pop_fixed` | shared by all threads without a lock |
| Refill lock, bump region | lock word, bump word | `lock`, `unlock`, the slow path of `alloc_fixed`, `carve_gap` | pushes on fixed bins while it holds the lock |
| Oversized list | head word, links | `push_oversize_locked`, first fit in `alloc_oversize` | under the lock |
| Splitting | none of its own | `split_and_free_tail` | pushes on fixed bins and on the oversized list |
| Allocator API | block headers | `init`, `verify`, `alloc`, `free`, `realloc`, `relocate` | the callers own `Slice`s |
| `Atomics` | none | load, store, weak and strong compare-and-swap, derived operations | the only access to heap words |
| `Slice`, `SliceView` | none | range arithmetic, ownership | the callers |
| `GlobalAlloc` adapter, C interface | none | forward to the API | Rust's `alloc` crate, C callers |

What is hard here: the lock-free bins interleave at single words, pops read
links of blocks that may be gone, and the tag that detects this has few bits;
pieces of a gap are on lock-free lists before the bump pointer covers them;
headers are stamped after the lock is released; a heap carries its stamp before
it is ready; the size of a block is only in
its header, so a block whose size is not exactly a class is fatal later, at its
next free; alignment depends on addresses as well as on sizes; arithmetic wraps.
`PROJECT.json` lists these hazards line by line with the properties that cover
them.

What makes each part correct:

- geometry: ceiling and floor maps are exact, alignments nest, a carved block is
  the largest that fits and is aligned;
- bins: an atomic stack; a block has one owner; none is lost;
- splitting: what is left and what is carved are valid blocks, and at most a
  sliver below `LNR_FLOOR` is lost;
- allocator: no two owners of a byte, payload written by its owner only, failure
  only when there is no room, everything reachable stays accounted for, calls
  return;
- metadata: `verify` accepts this configuration's stamp and no other, and every
  heap `init` has returned from;
- atomics: no update is lost, and the value returned is the one replaced;
- slices: a view stays inside allocated memory; what `GlobalAlloc` hands out is
  aligned, large enough and nobody else's.

## Modules

| Module | What it models |
|---|---|
| `Words` | words of `WORD_BITS` bits: wrapping, powers of two, logarithm, rounding up, the lowest bit |
| `SizeClasses` | the `const fn`s of `allocator.rs` and the derived constants of `config.rs` on such words |
| `PerConfig` | `SizeClasses` of a `Config` given as a record |
| `Fingerprint` | `splitmix64` and `config_fingerprint`, on 64-bit words held as eight bytes |
| `Geometry` | `SizeClasses` against reference definitions, with the `Config` as a variable; `VALIDATE` |
| `Carving` | extends `Geometry`: the loops of `split_and_free_tail` and `carve_gap` run alone |
| `Stamps` | extends `Carving` with the fingerprints of all `Config`s |
| `AbstractBin` | what a bin promises: an atomic stack with calls in progress |
| `TreiberBin` | `push_fixed` and `pop_fixed`, one action per access to a heap word |
| `Malloc` | what the allocator promises its callers |
| `CadAlloc` | `init`, `verify`, `alloc`, `free`, `realloc` and all they call, run by several threads |
| `CadAllocSafety` | the properties of `CadAlloc` and its refinement mappings |
| `CadSwaps` | extends `HeapInv`: `CadAlloc` with a count of the swaps each pop is overtaken by |
| `AtomicWords` | what `Atomics` promises: operations on words that take effect at one instant |
| `Atomics` | the trait's default loops, backends that override some or all of them, `CoreAtomics` |
| `Slices` | the arithmetic of `(ptr, len)` pairs |
| `Callers` | owners of `Slice`s, their views, and `GlobalAlloc`, all over the contract `Malloc` |
| `MC...` | symmetry and constants for TLC |
| `HeapInv` | the inductive invariant behind the safety of `CadAlloc` |
| `SizeFacts` | lemmas about the operators of `Words` and of `SizeClasses` |
| `Heap_proofs` | theorems about the lock and `verify`; that every step of `CadAlloc` keeps that invariant |
| `HeapSafety_proofs`, `HeapKept_proofs` | what follows from it: contents, refinements; losses, ranges, tags |
| `Carving_proofs`, `TreiberBin_proofs`, `Atomics_proofs`, `Callers_proofs` | theorems about the other modules |

How they compose: `CadAlloc` runs the operators of `SizeClasses`, and the same
pop and push as `TreiberBin`, over its bins. `CadAllocSafety` shows that it
implements `Malloc`, and that its bins implement `AbstractBin`. `Callers` is
built on `Malloc` alone, so what it shows of slices and of `GlobalAlloc` holds
for whatever implements that contract.

Names follow the source. In `CadAlloc` and `TreiberBin`, `pc[t]` is the next
heap access of thread `t` and `r[t]` (or `blk`, `old`, `nxt`) its locals;
`job` in `r[t]` says on whose behalf it pops, pushes or holds the lock. A failed
compare-and-swap is `PushRetry` or `PopRetry`, which is always possible since
`cas_weak` may fail spuriously. The walk over the oversized list and the links
into it are one action per list operation, since only the holder of the lock
touches them; the header and the link of a piece are written in one action for
the same reason: nobody else has its address yet.

Heap memory in `CadAlloc` is an array of granules of `MIN_ALIGN` bytes with the
two words per granule that can be a header and a link. The callers' payload is
in the same words: a returned slice is filled with a value of its owner
(`Token`), so a block that overlaps another one corrupts it in the model as well.

`init` stores the marker, the fingerprint, each bin head, the bump pointer and the
lock in one action each (`InitMagic` to `InitLock`); the heap it finds is blank or
carries another configuration's stamp. `verify` is two loads (`VerifyMagic`,
`VerifyPrint`), possible at any time, `told[t]` its last answer. Ordinary callers
wait for `init` to return, as its contract asks; `Verifiers` wait for `verify` to
accept. A process that dies in `init` is a thread that takes no further step, which
`Spec` allows at every point. `FreeAgain` is the misuse the flag in the header is
there for: a second `free` of a block that is free, or that another thread is
freeing.

In `Atomics` a backend is the set of operations it overrides; an operation is one
step if it is overridden or fundamental, and otherwise the loop of a load and a weak
compare-and-swap, which may fail spuriously if the backend's does. Increment and
decrement are `add` and `sub` of 1.

In `Callers` a view remembers what bounds it: the `Slice` it was borrowed from
(the lifetime the borrow checker enforces: `Movable`), nothing (`Unbounded`, after
`into_view`), or its user's word alone (`Vouched`: an unbounded view of memory of
which a `Slice` was made again; the crate leaves it to the `unsafe` code that made
the `Slice` not to use it). `boxes` are the pointers `GlobalAlloc` has handed out. A
realloc through `Slice` that fails has consumed the handle: the block it leaves
untouched is then owned by nobody, and the model detaches it.

Operators whose comment starts with "Fault" are not part of the models. Each is
a faulty version of the definition after it, with which one of the properties
no longer holds; `PROJECT.json` lists which.

## Properties

`TreiberBin`: `BinSafe` (one owner per block, none lost, the links spell out the
stack) and `RefinesStack` (every successful swap is a push or pop of
`AbstractBin`), both as long as no pop has succeeded on a head word that had come
round. The history variable `stk` is the list the bin stands for, `lag[t]` counts
the swaps by others since `t` loaded the head, and the latch `wrapped` is set when
a pop succeeds although `lag` has reached the number of tags. `PoppedBlockIsPrivate`
is the promise without that proviso.

`CadAllocSafety`: the heap is accounted for by spans (free blocks, live slices,
what a call has in hand, the untouched region). `NoOverlap` says that spans are
disjoint and inside the heap; `FreeListsValid` and `LiveBlocksValid` that every
block is exactly of its class, aligned and rightly marked; `ContentsSurvive` that
payload is written by its owner only and that realloc carries it over;
`SpeculativeReadSafe` that a pop never reads payload for a link; `LockExcludes`
that one thread at most is in a critical section, with the lock word set;
`OnlyUnderLock` that nobody else moves the bump pointer or changes the head of the
oversized list; `BumpMovesUp` that the bump pointer never moves back;
`FailureJustified` that null means no room; `NothingLeaks` that no step loses a
class-sized piece; `VerifyIsRight` that `verify` accepts only this stamp and, once
`init` has returned, always. `RefinesMalloc` maps the whole to `Malloc`, and
`BinsRefineStacks` each fixed bin to `AbstractBin`, under the allocator's own
traffic. `CallsReturn` is liveness. `NullBeforeInit`, `AllocKeepsItsPromise`,
`VerifiedHeapIsReady` and `NotReturnedTwice` state what the documentation says and
the code does not keep (see Findings).

`CadSwaps`: `TagsTell` says that the tag of a head tells by how many swaps a pop of that
bin was overtaken, and that a pop not overtaken by any has the link its block still holds.
`lag[t]` counts the swaps; no step depends on it.

`HeapInv`: `HeapInvNow` is the invariant of the proofs, computed from the state: every
granule has one owner, the list of every bin is what its links spell, and each call in
progress holds what its next step uses, and payload is as its owner left it (`ContentsInv`,
`Answered`). It implies `NoOverlap` and more, so the runs check either.

`Atomics`: `RefinesWords` (every operation of every backend is an atomic operation
of `AtomicWords`), `CallsReturn`, and `TypeOK`, which the wrapping of sums and
differences could break.

`Callers`: `ViewsInside` (a view lies in memory that is allocated and in no call),
`LayoutsHonoured` (what `GlobalAlloc` handed out is aligned, large enough and apart
from everything else), and `ViewsMeanAddresses`: what `split_at` returns (`SplitsTile`) and
the comparisons (`ComparisonsMeanAddresses`) against the sets of addresses that views stand
for.

`Geometry` and `Carving`: see the comments in the modules.

## Runs

| Run | Instance | What it shows |
|---|---|---|
| `treiber` | 4 tags, 3 threads, 3 blocks, 6 calls | `IInv` (the invariant of the proofs), `BinSafe` and refinement to a stack, with tags that do wrap |
| `treiber_tag_wrap` | 16 tags, 2 threads, 3 blocks, 20 calls | a counterexample, see Findings |
| `carving` | all 228 valid configurations with `MIN_ALIGN` 16 or 32 and classes up to 256; numbers up to 600, blocks and gaps up to three `EXP_CEIL`s | the arithmetic computes what its comments say; fingerprints of the grid differ pairwise, and coincide elsewhere only through a huge `CARVE_MAX`; splitting and carving are exact, aligned, nearly lossless and bounded |
| `cad_solo` | one thread, six calls, linear, exponential and oversized blocks, second frees | the sequential allocator: splits with slivers, gaps, first fit, exhaustion, refusal |
| `cad_pair` | two threads, five calls, one fixed class and oversized blocks | every interleaving of heap accesses; `HeapInvNow` and `TagsTell` (the invariants of the proofs) |
| `cad_live` | two threads, four calls, one of the threads a verifier | calls return; `verify` beside `init` |
| `cad_early`, `cad_wrap`, `cad_verify`, `cad_double` | one or two threads | counterexamples, see Findings |
| `atomics` | two threads, three calls, one word of two bits, three kinds of backend | the default loops implement atomic operations and return |
| `callers` | two threads, three calls, three payloads, two views | slices, views and `GlobalAlloc` side by side |

The bounds. Four tags in `treiber` are fewer than a legal `Config` has (sixteen);
they make a head word come round within six calls (a push, a pop that is overtaken,
and four swaps by others), which the invariant must survive; the proofs cover every
number of tags. A stale link needs two pushes and a pop overtaken by a pop, a pop
and a push, six calls too. `cad_solo`'s heap
holds one split oversized block, its gap and its pieces; its classes have holes
(112 to 128 to 192), so that inexact sizes and slivers occur in splits, and 2047
is larger than the heap. `cad_pair`'s heap fills up within three calls, so the
slow path, the second check of the bin, exhaustion and reuse all meet another
thread. Pops are overtaken there by pops and by pushes; that the block a pop has loaded is
back on top with another link below it would need eight calls. `treiber` reaches that on the
protocol alone, and the theorems about tags (below) cover it on the whole allocator. In
`cad_live` a gap arises that no class fits, which `carve_gap` must leave
alone for its caller to return. In `carving` every class boundary, octave carry and
alignment up to the bound occurs; the functions depend on sizes only through
comparisons with, and remainders by, the constants that vary. `SPLIT_MIN` below
`MIN_ALIGN` and `CARVE_MAX` 0 are among them.

A word of two bits in `atomics` wraps in both directions, and one word with two
threads and three calls lets a loop be overtaken between its load and its
compare-and-swap, and again at its retry; more words would not meet. In `callers`
two of the payloads share memory, so that memory is handed out again under another
size, one layout asks for more alignment than there is, and an offset near the top
of the (six-bit) word makes the sum of offset and length wrap.

`Scrap` is what control words hold before `init`. Calls are bounded by
`MaxCalls`; with all calls used the system stops, which is why deadlock is not
checked (liveness checks that nobody stops inside a call).

Fairness: a thread inside a call keeps taking steps (weak fairness of `Step`),
which a preemptive scheduler gives. A compare-and-swap that is tried over and
over on an unchanged word succeeds in the end (strong fairness of `Swap`), and so
does one on a lock word that is free again and again (strong fairness of
`Lock`). The second is more than a spinlock promises to one thread against
others that lock for ever, but calls are finite in number here, and what
remains is that a lock whose holders leave it is had in the end. A thread that
has begun `init` or `verify` goes on (weak fairness of `Prepare`). In `Atomics` a
thread keeps running (`Step`), and the compare-and-swap of a loop that finds its
word as loaded again and again succeeds in the end (`LoopCas`).

## Findings

- Tag wrap (`treiber_tag_wrap`). A pop that is preempted between loading the head
  and its compare-and-swap, while others swap exactly `MIN_ALIGN` times so that
  the same block is on top again, installs a stale link. The next pop returns a
  block that a caller owns. `BinSafe` and `RefinesStack` show that this is the
  only way the bins go wrong.
- `alloc` before `init` (`cad_early`). On zero-filled memory the first call returns
  null and the second one writes and returns memory below the heap.
- Huge sizes (`cad_wrap`). A `size` within two granules of 2^64 wraps in a release build
  to a request for the smallest class; one that survives the rounding but not the
  sum in the bump test of `alloc_oversize` succeeds with a slice that reaches beyond
  the heap, and moves the bump pointer back. `BumpMovesUp` holds without such sizes.
- Stamped before ready (`cad_verify`). `init` stores marker and fingerprint first, so
  `verify` accepts a heap whose bin heads, bump pointer and lock are not set yet, and
  never will be if the process died there. Storing the marker last would do.
- Racing frees (`cad_double`). The test of the header's flag in `free` and its store are
  separate accesses: a slice freed twice at once is pushed twice. A second `free`
  after the first has returned is refused (`cad_solo`).

Two disagreements with comments have no counterexample run of their own.

- `config.rs:105` calls `CARVE_MAX` a maximum, the comment of `split_and_free_tail`
  "roughly"; `FewExtraCarves` shows that the loop goes past it by one carve at most, in
  all configurations checked.
- `allocator.rs:113` says that every distinct layout-affecting configuration gets a
  distinct fingerprint. That is not so: the fold is an exclusive or with an odd
  multiple of `CARVE_MAX` and the mixer a bijection, so for any two configurations
  with different exponents there is exactly one `CARVE_MAX` that gives the second the
  fingerprint of the first. `SharedOnlyByHugeCarveMax` computes it for every two
  configurations of its grid, checks that the fingerprints then coincide, that this
  `CARVE_MAX` is 2^31 or more, and that all configurations of the grid themselves,
  whose `CARVE_MAX` is 0, 1 or 2, differ pairwise. (It is so for every two
  configurations whose `CARVE_MAX`s differ by less than 2971215073: no smaller
  multiple of the multiplier comes within 2^30, the range of the packed exponents, of
  0 modulo 2^64. That is by hand.) In practice `verify` tells configurations apart;
  the comment promises more than the code gives. `HEAP_BASE` and `HEAP_SIZE` are not
  part of it.

## Proofs

`Carving_proofs` proves about the size classes and about the two loops that cut blocks,
for every valid `Config`, every size and every block:

- `CeilingMapHolds`, `FloorMapHolds`, `AlignmentNestedHolds`, `RequestFitsHolds`,
  `GapBelowClassHolds`, `CarvableIsLargestHolds`: the invariants of `Geometry`;
- `PiecesFitTheirBinsHolds`, `RetainedIsValidHolds`, `SplitLeaksASliverHolds`,
  `GapLeaksASliverHolds`: those of `Carving`.

The argument. `SizeFacts` makes the four functions that are defined by `CHOOSE` usable:
logarithms exist and are unique (`Log`, `LogUnique`), and so is the lowest bit of a
number, which is the largest power of two that divides it (`LowBitDivides`); rounding up
is to the next multiple as long as the sum does not wrap (`AlignUp`, `AlignUpLeast`). The
inductions over exponents go through sets of numbers (`SetInduction`). It
brings the classes into three forms, `lnr + k * min`, `2^m` and `3 * 2^(m-1)`
(`ClassForms`); from these, that classes grow (`ClassOrder`), that `bin_index` finds the
least class that holds a size (`BinIndex`) and `floor_bin` the greatest that fits
(`FloorBin`), and what each class is aligned to. `LargestFixedFits` is about the least
obvious line of the arithmetic, the limit `3 * LowBit(end)`: a class fits below `end` with
its start aligned exactly if it is no larger than that (`FitsByLowBit`), since an odd
multiple of half an octave has one class that starts there and no larger one.

The loops need an invariant, `LoopInv`: pieces lie on top of one another from where the
block ended (`PiecesStacked`), a split began with a valid block, aligned for its class
(`SplitOfABlock`), and, once a piece has been cut, the smallest class is aligned at the end
of what is left (`EndAligned`). The last is why a loop that stops because nothing fits
leaves less than `LNR_FLOOR`: every class is a multiple of its own alignment, so cutting it
off an end that is aligned for it leaves an end that is aligned for the smallest.

The assumptions are `WordsAssumption` (exponentiation, which the provers do not know,
doubles), and that neither the sizes nor the blocks considered wrap when they are rounded
up (`GeometryAssumption`, `CarvingAssumption`): what happens when they do is `cad_wrap`.

`TreiberBin_proofs` proves, for any set of threads and blocks, any number of tags
above one and any number of calls:

- `TypeCorrect`: `Spec => []TypeOK`;
- `BinIsSafe`: `Spec => []BinSafe`;
- `BinRefinesStack`: `Spec => RefinesStack`.

The inductive invariant is `IInv` (`InvariantHolds`). `BinSafe` alone is not inductive: a pop's
compare-and-swap succeeds because the head word equals the one loaded, and what
is needed is that the link read since is still the top block's. `TagWindow` ties
the tag of the head to the tag a pop loaded and to the swaps since: fewer than
`MIN_ALIGN` swaps and an equal word mean no swap at all; `LinkFresh` then says
the link is current, and `PushLinked` that a push has stored the link to the
head it is about to replace. The proof that a step preserves `IInv` has one
lemma per conjunct group and one step per action. The only assumptions are
`TreiberAssumption`. `treiber` checks `IInv` on a small instance.

The first part of `Heap_proofs` proves about the whole allocator, for any threads, any heap, any
sizes requested and any `Config`:

- `LockIsExclusive`: `Spec => []LockExcludes`;
- `LockGuardsTheWords`: `Spec => OnlyUnderLock`;
- `VerifyTellsTheStamp`: `Spec => VerifyIsRight`.

`LockExcludes` is not inductive either: `push_fixed` is shared by a `free` without
the lock and by the pieces of a gap or split under it, and `pop_fixed` by the fast
and the slow path, so whether a thread is in a critical section depends on the
procedure it works for. The inductive invariant `LInv` adds `JobInPlace` (where a
thread can be on whose behalf; a thread that unlocks or pushes as the holder really
is the holder) and `FixedBinOnly` (a push or pop without the lock never works on
the oversized bin, without which a `free` could change that list's head unlocked).
`StepAlone` and `StepHere` say what a step leaves of the other threads and does to
its own; the sharing of the lock word is then one short argument for all of them
(`StepLInv`). `InitAlone` (while a thread prepares the heap nobody works on it) makes
the stores of `init` harmless to all this, and `Stamped` (how far `init` has come
shows in the metadata words, and what `verify` has seen stays) is what
`VerifyTellsTheStamp` needs: between the two loads of `verify` the fingerprint may
change, but only to this configuration's. The only assumption is `CadAssumption`; of
the geometry the proofs need only that there is at least one bin besides the
oversized one.

The rest of `Heap_proofs`, `HeapSafety_proofs` and `HeapKept_proofs` prove the safety of the
whole heap, again for any threads, heap, sizes and `Config`. Each theorem has the form
`ASSUME SafeUse PROVE Spec /\ HonestPops => ...`:

- `NothingOverlaps`: `[]NoOverlap`;
- `FreeListsAreValid`: `[]FreeListsValid`;
- `LiveBlocksAreValid`: `[]LiveBlocksValid`;
- `SpeculativeReadsAreSafe`: `[]SpeculativeReadSafe`;
- `FailuresAreJustified`: `[]FailureJustified`;
- `BumpOnlyMovesUp`: `BumpMovesUp`;
- `ContentsAreKept`: `[]ContentsSurvive`;
- `AllocatorIsMalloc`: `RefinesMalloc`;
- `BinsAreStacks`: `BinsRefineStacks`;
- `NothingIsLeaked`: `NothingLeaks`;
- `HeapInvNowHolds`: `[]HeapInvNow`;
- `TypeOKHolds`: `[]TypeOK`;
- `NullBeforeInitHolds`, `NotReturnedTwiceHolds`, `AllocKeepsItsPromiseHolds`: three of the
  four promises the findings are about, which fail only without `SafeUse`;
- `HeapInvHolds`: `[]HeapInv`, which they all follow from.

`SafeUse` says how the callers use the heap: not before `init` has returned, no slice is
freed twice, and no size wraps when it is rounded up or added to an address. `cad_pair` and
`cad_live` satisfy it; what happens without it is `cad_early`, `cad_double` and `cad_wrap`.

`HonestPops` says of the steps that no pop succeeds with a link its block no longer holds.
That is what the tag is for, and three more theorems say how far it reaches, on `LagSpec`,
which is `Spec` with the count of swaps, as long as no pop is overtaken by `MIN_ALIGN` swaps
or more (`InTime`):

- `TagsTellHolds`: `LagSpec /\ []InTime => []TagsTell`;
- `TagsKeepPopsHonest`: `LagSpec /\ []InTime => Spec /\ HonestPops`;
- `InTimeIsSafe`: these properties, the three promises aside, with `InTime` for `HonestPops`.

So under `SafeUse` a heap goes wrong in no other way than by a pop that sleeps through a whole
turn of the tags, and what happens then is `treiber_tag_wrap`.

The argument. `NoOverlap` is not inductive, far from it: that spans stay disjoint depends on
where lists lead, on which sizes headers carry, on what each call has in its hands at each of
its steps, and on the arithmetic of classes. `HeapInv` therefore speaks of four things the
program does not store: `own`, the owner of every granule; `st`, where blocks start; `n` and
`el`, the length and elements of every list. Its parts, for such a choice of the four:

- `Lists`: a bin's head and links spell out its list, and every element is a `FreeBlock`: its
  granules are the bin's, no other block starts in it, its header carries its size and `FREE`,
  and its size and address are `Valid` (exactly a class, or above `EXP_CEIL`, and aligned);
- `LiveSlices`: the same, marked used, of every slice the callers own;
- `Room`: all that lies above the bump pointer, or above the block being carved there, is
  untouched;
- `Hands`: what a call holds (the slice it was given, the one it returns, its block, its gap)
  is in its own name; `Moving`: what it pushes is a free block of the bin it pushes on, and an
  address it popped is one where a block starts, which is why its link is read there; `Place`:
  the request, block and size it has at each point of its code; `Fitting`: the first-fit walk
  is at an element of the list and has passed smaller ones only; `Failing`: a request that
  failed had no room.

An owner names what it owns (a bin *and* the block, a slice, a thread and the role), so two
spans of one granule have one owner, and with `st` one start: disjointness is then free. Each
action has a lemma that names the new four and shows what it changes (`HPushCas`,
`HSplitCarve`, ...); what it does not touch is left to frame lemmas, one per part, that say which
words and owners a part depends on (`Frame...`). `NextHeap` collects the actions;
`HBoots` is the moment `init` returns. That a walk down the links (`Walk`, of which the span
properties speak) is the list `el` needs a bound on its length, since the walk takes as many
steps as the heap has room for blocks: blocks of a list are disjoint, so the pigeonhole
principle gives it (`ListFits`); the walk is then followed by induction on a set of numbers.
What a carve or a split cuts off, and what it leaves, is valid by `CarveFacts` and
`RetainedValid`, which rest on `SizeFacts`.

Contents and the contract need two more invariants. `ContentsInv` says what a call knows of
the block it was given (`Kept`: a realloc in place holds that block, or what it has not cut
off; one that moves knows how much to copy) and that the payload there is as the caller left
it (`Intact`). It is kept because a step writes only on granules that belong to its own gap,
piece, list blocks or destination, or to the header and the cut-off tail of its own block
(`StepWrites`), and `own` says that none of these is anybody's payload. `Answered` says that a
free, and a realloc with something to return, has settled its old block. Then every step is one
of `Malloc` or none (`NextMalloc`): `ReallocShrink` and the steps of a split in place are its
`Cut`, `FreeLoad` is its `Give`, `Return` its `Succeed`, `Fail` or `Finish`, and all other steps
of a call go on with the slices they have (`PlainSteps`). That the slice `Succeed` adds is apart
from everybody else's is that a granule has one owner (`OthersRegions`, `RegionsApart`).

For the bins, head and links determine a list (`SameChain`), so what a step makes of a list can
be computed from the words it writes: none but a swap on the bin changes it (`ListStays`, since
the blocks of a fixed list are not among what a step may write), a push puts its piece on top
(`ListPushed`) and an honest pop takes the top off (`ListPopped`). What a thread is doing on a
bin (`Claim`) changes with few steps (`AwayStays`, `ClaimKeeps`, ...), and a block that goes to
be pushed is still its thread's by then, so that no list holds it and nobody else is pushing it
(`NotTaken`).

That nothing is lost is a count. `SizeOfSpans` adds up spans of the state; spans are disjoint
(`NoOverlap`), so the sum is the number of granules they cover (`SizeIsCovered`), and it falls
only if a granule stops being covered. What a step does to the spans is one lemma for each
kind (`FreeBoxStays`, `LiveBoxStays`, `BlkStays`, `PieceStays`, `SrcStays`, `DstStays`): a span
is there afterwards, under whatever owner, unless it is the block a split cuts or what a bump
or a carve works on; those leave uncovered only what `Lost` names, the rest above what a split
retains or below what a gap has filled. That this is a sliver needs `EndAligned` again, now of every
thread that carves.

`HeapInvNow` replaces the four ghosts by what can be read off the state. The ghosts need not
be those: an owner of a granule nobody has is arbitrary, and so is a start in it. But where a
span is they agree (`OwnNowIs`, `StartsAreStarts`, `ListNowIs`), every part of the invariant
looks at no more than that (`AllAgree`), with one exception: the address a pop has loaded must
be one where a block starts, and it may be in anybody's hands by now. `Speculating` is that
invariant: once a block starts somewhere, one starts there for ever (`StartsStay`).

For `TypeOK` the bounds of blocks are those of the heap, which ends below `WORD`; what has to
be shown is that nothing is stored that does not come from a block, a list or a request
(`WordFits`, `LoadRanged`, `BlockRanged`), that a head word with its tag is still a word
(`HeadFits`, since `MIN_ALIGN` divides it and the tag is below), and that the counter of a
split, which has no bound of its own, is bounded by what has been cut off (`Counting`).
`ScrapAssumption`, on what control words hold before `init`, is used here only.

The argument for the tags is `TagWindow`'s of `TreiberBin`, on the whole allocator: `TagsTell`
and `HeapInv` are inductive together. A head changes by a swap only, which sets the next tag
(`SwapsTag`); the link of the top block of a bin stays while the head does (`TopLinkStays`);
so an equal head and fewer swaps than tags mean no swap at all (`Turns`) and a link that is
current (`InTimeIsHonest`).

`Atomics_proofs` proves `AtomicsAreAtomic`, `Spec => RefinesWords`, for any threads,
addresses, operands, width and backends. The mapping hides what a loop has loaded
until it is done (`seen`); a loop takes effect at its successful compare-and-swap. The
invariant `CInv` only says that a thread is at a point of the operation it is in.
`AtomicsTypes`, `Spec => []TypeOK`, needs that every result is a word: sums and differences are
taken modulo the width, and the bitwise operations, defined by their bits, are below the next
power of two by induction over the bits (`CommonBits`). `AtomicsAssumption` says that
exponentiation doubles and that operands are words.

`Callers_proofs` proves the properties of `Callers`, for any threads,
payloads, sizes, layouts and offsets, from the contract `Malloc` alone:

- `ViewsStayInside`: `Spec => []ViewsInside`;
- `GlobalAllocHonours`: `Spec => []LayoutsHonoured`;
- `SplitsAreTilings`: `Spec => []SplitsTile`;
- `ComparisonsAreRight`: `Spec => []ComparisonsMeanAddresses`;
- `ViewsAreRight`: `Spec => []ViewsMeanAddresses`, the last two together.

Neither of the first two is inductive. `CInv` adds that payloads, those inside a call
included, are disjoint (`Disjoint`); that every view is inside what bounds it, which
only the borrow rule keeps allocated (`ViewsBound`); that behind every pointer of
`GlobalAlloc` is a payload that no `Slice` and no view names (`BoxesBacked`); and that
a `GlobalAlloc` call under way remembers a pointer as good as the one it was given
(`ViaKept`), which is what makes a failed `realloc` harmless. `LowInv` adds that nothing
reaches the top of memory, where `end` wraps. The only assumption is
`CallersAssumption`.

What stays with TLC: liveness under fairness (`CallsReturn`, in two modules);
`FewExtraCarves`, whose bound of one carve is a fact about the configurations of its run and
not about all of them; `SharedOnlyByHugeCarveMax`, for the same reason and because
`Fingerprint`'s arithmetic on bytes is beyond the provers. The counterexamples of Findings are TLC's too.

## Not modelled

- Memory orders weaker than sequential consistency. The trait allows them to a
  backend; `CoreAtomics` does not use them.
- The two error returns of `init` (a misaligned or too small heap): nothing is stored,
  and `CadAssumption` excludes such heaps. A second `init` on a heap in use, which its
  contract forbids.
- Bogus slices other than second frees: a header at an arbitrary address is whatever
  the memory there holds.
- A process that dies with the refill lock held leaves the lock taken; nothing in the
  code recovers it, so there is nothing to check but that the others wait.
- The control words are variables apart from the heap's granules, so a stray write
  to them would show as a write outside the payload area (`NoOverlap`), not as
  corrupted control words.
- Slices whose length is not that of their payload: `GlobalAlloc`'s `dealloc` passes
  length 0 and its `realloc` the layout's size. `free` and `realloc` never look at it,
  in the code or in `CadAlloc`, where the size comes from the header; but no model gives
  them such a slice, so no run would notice if they did.
- A heap that ends within a class of 2^64; `Slices.end` wraps to 0 there.
- `contains`, `covers` and `overlaps` of empty views: an empty view inside a region
  counts as overlapping it (`slice.rs:160`), although it has no address to share with it,
  as the comment at `slice.rs:157` has it ("share any address").
- The accessors, pointer and byte-slice conversions of `Slice` and `SliceView`, views
  made of raw addresses (`SliceView::new`), debug formatting, the crate root, tests and
  the example: no state of the allocator.
