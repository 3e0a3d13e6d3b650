--------------------------- MODULE CadAllocSafety ---------------------------
(***************************************************************************)
(* What makes the allocator correct.  The heap is accounted for span by    *)
(* span: every byte belongs to a free block in the list of its bin, to a   *)
(* caller, to the call of one thread, to the untouched region above the    *)
(* bump pointer, or to a sliver too small for any class.                   *)
(***************************************************************************)
EXTENDS CadAlloc

-----------------------------------------------------------------------------
(* Free lists, read off the links.                                         *)

\* No list is longer than the heap has room for blocks.
MaxList == HEAP_SIZE \div LNR_FLOOR

\* The addresses met walking down the list of bin k, up to the 0 that ends it.
\* (step[i] is the walk after i links, kept in a singleton.)
Walk(k) ==
  LET Last(s) == s[Len(s)]
      step[i \in 0 .. MaxList] ==
        IF i = 0 THEN {<<AddrOf(head[k])>>}
        ELSE {IF Last(s) \in Granules \ {0} THEN Append(s, word1[Last(s)]) ELSE s : s \in step[i - 1]}
  IN CHOOSE s \in step[MaxList] : TRUE

FreeSeq(k) == LET walk == Walk(k) IN IF walk[Len(walk)] = 0 THEN SubSeq(walk, 1, Len(walk) - 1) ELSE walk
FreeSet(k) == (UNION {{s[i] : i \in DOMAIN s} : s \in {Walk(k)}}) \ {0}

-----------------------------------------------------------------------------
(* Spans: who owns which bytes lo .. hi - 1.                               *)

Span(owner, lo, hi) == [owner |-> owner, lo |-> lo, hi |-> hi]
SliceSpan(owner, s) == Span(owner, BlockOf(s), s.ptr + s.len)

Pushing(t) == pc[t] \in {"push_load", "push_store", "push_cas"}
Popping(t) == pc[t] \in {"pop_load", "pop_next", "pop_cas"}

\* The slice a free or realloc was given, while its block is neither in the
\* hand of the call nor on its way back.
HoldsSrc(t) == r[t].src.ptr # 0 /\ r[t].op # "again" /\ r[t].job \notin {"keep", "shrink", "free"}

InCall(t) ==
  (IF r[t].blk # 0 THEN {Span(<<"block", t>>, r[t].blk, r[t].top)} ELSE {})
  \cup (IF r[t].lo < r[t].end THEN {Span(<<"gap", t>>, r[t].lo, r[t].end)} ELSE {})
  \cup (IF Pushing(t) /\ r[t].job # "free"
          THEN {Span(<<"piece", t>>, Piece(t), Piece(t) + header_size(At(word0, Piece(t))))}
          ELSE {})
  \cup (IF HoldsSrc(t) THEN {SliceSpan(<<"src", t>>, r[t].src)} ELSE {})
  \cup (IF r[t].dst.ptr # 0 THEN {SliceSpan(<<"dst", t>>, r[t].dst)} ELSE {})

FreeSpans == UNION {{Span(<<"bin", k>>, b, b + header_size(At(word0, b))) : b \in FreeSet(k)} : k \in Bins}
LiveSpans == {SliceSpan(<<"live", 0>>, s) : s \in live}
CallSpans == UNION {InCall(t) : t \in Threads}

\* The region nobody has carved from.  A thread that is about to move the
\* bump pointer has taken what lies below its block's end already.
Carving(t) == pc[t] = "gap" \/ (Pushing(t) /\ r[t].job \in {"slow", "over"})
Untouched ==
  LET lo == IF \E t \in Threads : Carving(t)
            THEN r[CHOOSE t \in Threads : Carving(t)].top ELSE bump
  IN IF lo < heap_end THEN {Span(<<"bump", 0>>, lo, heap_end)} ELSE {}

Spans == FreeSpans \cup LiveSpans \cup CallSpans \cup Untouched

Overlap(s, u) == s.lo < u.hi /\ u.lo < s.hi

\* How much of the heap is accounted for.
SizeOfSpans ==
  MIN_ALIGN * Cardinality(UNION {{a \in Granules : s.lo <= a /\ a < s.hi} : s \in Spans})

-----------------------------------------------------------------------------
Words == 0 - WORD .. WORD
HeadWords == {Scrap} \cup {a + tag : a \in Granules, tag \in 0 .. MIN_ALIGN - 1}
Slices == [ptr : 0 .. WORD, len : 0 - MIN_ALIGN .. WORD]
Labels == {"idle", "lock", "unlock", "push_load", "push_store", "push_cas",
           "pop_load", "pop_next", "pop_cas", "stamp", "got", "refill", "gap",
           "fit_head", "fit", "over_stamp", "split", "realloc_load", "copy",
           "free_load", "free_stamp", "over_push", "return",
           "init_magic", "init_print", "init_head", "init_bump", "init_lock",
           "verify_print"}
Jobs == {"none", "fast", "slow", "hit", "over", "fit", "shrink", "keep", "free"}

\* Every word, local and slice has its type.
TypeOK ==
  /\ booted \in BOOLEAN
  /\ magic \in {Blank, MAGIC} /\ print \in {Blank, Mine, Theirs}
  /\ told \in [Threads -> {NotTold, Ok, BadMagic, ConfigMismatch}]
  /\ head \in [Bins -> HeadWords] /\ bump \in Words /\ lock \in {0, 1, Scrap}
  /\ word0 \in [Granules -> Words] /\ word1 \in [Granules -> Words]
  /\ pc \in [Threads -> Labels]
  /\ \A t \in Threads :
       /\ DOMAIN r[t] = DOMAIN NoLocals
       /\ r[t].op \in {"none", "alloc", "free", "again", "realloc"}
       /\ r[t].job \in Jobs
       /\ r[t].src \in Slices /\ r[t].dst \in Slices
       /\ r[t].bin \in Bins
       /\ {r[t].size, r[t].blk, r[t].top, r[t].lo, r[t].end, r[t].old, r[t].nxt,
           r[t].prev, r[t].cur, r[t].usable, r[t].iter} \subseteq Words
  /\ live \subseteq Slices
  /\ calls \in 0 .. MaxCalls

-----------------------------------------------------------------------------
(* Safety.                                                                 *)

\* No two owners share a byte: not two callers, not a caller and a free list,
\* not two lists or one list twice, not a call in progress and anything else,
\* and nobody reaches into the untouched region or the control words.
NoOverlap ==
  booted =>
  LET spans == Spans
  IN /\ \A s, u \in spans : s # u => ~Overlap(s, u)
     /\ \A s \in spans : HeapStart <= s.lo /\ s.hi <= heap_end

\* Every block on a free list is one free can have put there and alloc can
\* take: marked free, of exactly the class of its bin (or above EXP_CEIL), and
\* aligned for that class.  The list is not cyclic.
FreeListsValid ==
  booted =>
  \A k \in Bins :
    /\ \A b \in FreeSet(k) :
         /\ header_is_free(At(word0, b))
         /\ b % align_of_bin(k) = 0
         /\ IF k = oversize_bin THEN header_size(At(word0, b)) > EXP_CEIL
                                ELSE header_size(At(word0, b)) = bin_class(k)
    /\ Walk(k)[Len(Walk(k))] = 0

\* Every block a caller owns can be freed into the right list: its header says
\* in use, its size is what the slice says, and it is exactly a class or above
\* EXP_CEIL, and aligned for its class.
LiveBlocksValid ==
  booted =>
  \A s \in live :
    LET header == At(word0, BlockOf(s))
    IN /\ ~header_is_free(header)
       /\ header_size(header) = s.len + MIN_ALIGN
       /\ is_block_exact(header_size(header))
       /\ BlockOf(s) % align_of_bin(bin_index(header_size(header))) = 0

Holds(ptr, len, owner) ==
  \A a \in PayloadOf(ptr, len) : word0[a] = Token(owner) /\ word1[a] = Token(owner)

\* Payload is written by its owner only, whatever the other threads do, and
\* realloc carries it over: in place, or copied before the old block is freed.
ContentsSurvive ==
  /\ \A s \in live : Holds(s.ptr, s.len, s.ptr)
  /\ \A t \in Threads :
       LET src == r[t].src
           dst == r[t].dst
       IN /\ HoldsSrc(t) => Holds(src.ptr, src.len, src.ptr)
          /\ r[t].job \in {"keep", "shrink"} =>
               Holds(src.ptr, Smaller(src.len, Target(t) - MIN_ALIGN), src.ptr)
          /\ r[t].op = "realloc" /\ dst.ptr # 0 /\ pc[t] # "copy" =>
               Holds(dst.ptr, Smaller(src.len, dst.len), src.ptr)

\* The word a pop reads speculatively is never payload: a block that starts at
\* an address keeps starting there.
SpeculativeReadSafe ==
  booted =>
  \A t \in Threads : pc[t] = "pop_next" =>
    \A s \in live : ~(s.ptr <= AddrOf(r[t].old) /\ AddrOf(r[t].old) < s.ptr + s.len)

\* Nobody is inside the critical section without the lock, and at most one is.
Critical(t) ==
  \/ pc[t] \in {"refill", "gap", "fit_head", "fit", "over_stamp", "split", "over_push", "unlock"}
  \/ (Popping(t) /\ r[t].job = "slow")
  \/ (Pushing(t) /\ r[t].job # "free")
LockExcludes ==
  booted => /\ \A t, u \in Threads : Critical(t) /\ Critical(u) => t = u
            /\ lock = (IF \E t \in Threads : Critical(t) THEN 1 ELSE 0)

\* A request fails under the lock only when the bump region has no room for it
\* and, for an oversized one, no block in the oversized list is large enough.
FailureJustified ==
  \A t \in Threads :
    pc[t] = "unlock" /\ r[t].blk = 0 /\ r[t].job \in {"slow", "over"} =>
      LET align == IF r[t].job = "over" THEN EXP_CEIL ELSE align_of_bin(r[t].bin)
      IN /\ align_up(bump, align) + Target(t) > heap_end
         /\ r[t].job = "over" =>
              \A b \in FreeSet(oversize_bin) : header_size(At(word0, b)) < Target(t)

-----------------------------------------------------------------------------
(* What a step may never do.                                               *)

\* No step drops a class-sized piece of the heap: what a split or the rounding
\* of the bump pointer leaves over is a sliver below LNR_FLOOR.
NothingLeaks == [][booted => SizeOfSpans - SizeOfSpans' < LNR_FLOOR]_vars

\* The bump pointer only moves up, and stays within the heap.
BumpMovesUp == [][booted => bump <= bump' /\ bump' <= heap_end]_vars

\* Only a step of the thread in the critical section moves the bump pointer or
\* changes which block heads the oversized list.
OnlyUnderLock ==
  [][booted /\ (bump' # bump \/ head'[oversize_bin] # head[oversize_bin]) =>
       /\ lock = 1
       /\ \E t \in Threads : /\ Critical(t)
                              /\ \A u \in Threads \ {t} : pc'[u] = pc[u] /\ r'[u] = r[u]]_vars

\* verify accepts only a heap this configuration's init has stamped, and from
\* the moment init has returned it accepts whatever thread asks, also one whose
\* verify was under way.
VerifyIsRight ==
  [][\A t \in Threads : told'[t] # told[t] =>
       /\ told'[t] = Ok => magic = MAGIC /\ print = Mine
       /\ booted => told'[t] = Ok]_vars

-----------------------------------------------------------------------------
(* What the documentation says and the code does not do.                   *)

\* "Allocating before `init` fails (returns null)" (GlobalAlloc adapter): no
\* caller owns a slice of a heap that init has not prepared.
NullBeforeInit == ~booted => live = {}

\* "Checks that the heap was initialized by a `cadalloc` allocator with a
\* matching configuration" (verify): a heap that verify accepts is initialised.
VerifiedHeapIsReady == \A t \in Threads : told[t] = Ok => booted

\* "A block that is already free [...] is refused (returning it to a bin twice
\* would corrupt the free list)" (free): no call is about to link a block into
\* a list that holds it already.
NotReturnedTwice ==
  \A t \in Threads :
    (Pushing(t) \/ pc[t] = "over_push") /\ r[t].job = "free" =>
      r[t].blk \notin FreeSet(r[t].bin)

\* "Allocates a block with at least `size` payload bytes", whose payload "is
\* owned and in-heap" (alloc), for every size.
AllocKeepsItsPromise ==
  \A t \in Threads :
    pc[t] = "return" /\ r[t].op = "alloc" /\ r[t].dst # NullSlice =>
      /\ r[t].dst.len >= r[t].size
      /\ r[t].dst.ptr + r[t].dst.len <= heap_end

-----------------------------------------------------------------------------
(* Contracts the allocator implements.                                     *)

\* A second free is no call of the contract.  A realloc in place has given up
\* what it cut off its slice.
mallocCall == [t \in Threads |->
  IF r[t].op = "again" THEN [op |-> "none", size |-> 0, src |-> NullSlice, hold |-> "none"] ELSE
  [op |-> r[t].op, size |-> r[t].size,
   src |-> IF r[t].job = "shrink"
           THEN [ptr |-> r[t].src.ptr,
                 len |-> IF r[t].blk = 0 THEN r[t].dst.len ELSE r[t].top - r[t].src.ptr]
           ELSE r[t].src,
   hold |-> IF r[t].op \in {"none", "alloc"} THEN "none"
            ELSE IF r[t].job = "free" THEN "given"
            ELSE IF r[t].job = "shrink" THEN "cut"
            ELSE "whole"]]

M == INSTANCE Malloc WITH call <- mallocCall, Sizes <- AllocSizes \cup ReallocSizes,
                          Align <- MIN_ALIGN, Lo <- HeapStart, Hi <- heap_end

\* Seen by its callers, the allocator is a concurrent malloc: a successful call
\* returns an aligned slice in the heap, as large as requested and apart from
\* every slice anyone else owns; a failed realloc returns the slice untouched.
RefinesMalloc == M!MallocSpec

binCall(k) == [t \in Threads |->
  IF r[t].bin # k THEN [op |-> "idle", blk |-> 0]
  ELSE IF Pushing(t) THEN [op |-> "push", blk |-> Piece(t)]
  ELSE IF Popping(t) THEN [op |-> "pop", blk |-> 0]
  ELSE IF pc[t] \in {"stamp", "unlock"} /\ r[t].job \in {"fast", "hit"}
       THEN [op |-> "got", blk |-> r[t].blk]
  ELSE [op |-> "idle", blk |-> 0]]

Bin(k) == INSTANCE AbstractBin
            WITH stk <- IF booted THEN FreeSeq(k) ELSE <<>>, call <- binCall(k),
                 Blocks <- Granules, NULL <- 0

\* Every fixed bin is an atomic stack under the allocator's own traffic: frees,
\* gaps and split tails push on it, and no block is ever pushed twice.
BinsRefineStacks ==
  /\ \A k \in FixedBins : Bin(k)!AbsInit
  /\ [][\A k \in FixedBins : [Bin(k)!AbsNext]_(Bin(k)!absVars)]_vars

\* Every call of alloc, free and realloc returns.
CallsReturn == \A t \in Threads : pc[t] # "idle" ~> pc[t] = "idle"
=============================================================================
