------------------------------ MODULE CadAlloc ------------------------------
(***************************************************************************)
(* The allocator: init, verify, alloc, free and realloc run by several     *)
(* threads, or processes that share the heap.  Fixed bins are lock-free    *)
(* stacks (their protocol on its own is TreiberBin); the bump pointer, the *)
(* oversized list and splitting are under one spinlock.  Every access to a *)
(* heap word another thread may touch is a step of its own; accesses to    *)
(* the oversized list, which only the holder of the lock makes, are        *)
(* grouped by list operation.                                              *)
(*                                                                         *)
(* Heap memory is one array of granules of MIN_ALIGN bytes.  Of each       *)
(* granule the model keeps the two words the allocator may use, word0 for  *)
(* a header and word1 for a link, and the callers' payload is written over *)
(* the same words: blocks that overlap corrupt each other here too.        *)
(***************************************************************************)
EXTENDS SizeClasses, FiniteSets, Sequences

CONSTANTS
  Threads,
  HEAP_BASE, HEAP_SIZE,
  AllocSizes, ReallocSizes,  \* the sizes requested
  MaxCalls,                  \* bound: calls made in a behaviour
  Scrap,                     \* what the control words hold before init
  EarlyCalls,                \* whether alloc may be called before init
  Verifiers,                 \* threads that verify the heap before they use it
  SecondFrees                \* whether a free block may be freed again

VARIABLES
  booted,  \* init has returned
  magic,   \* the marker word
  print,   \* the fingerprint word
  told,    \* told[t]: what verify last returned to thread t
  head,    \* head[k]: the head word of bin k
  bump,    \* the bump-pointer word
  lock,    \* the refill-lock word
  word0,   \* first word of each granule
  word1,   \* second word of each granule
  pc,      \* where each thread is
  r,       \* the locals of each thread
  live,    \* slices the callers own
  calls    \* calls made so far

memory == <<word0, word1>>
control == <<head, bump, lock>>
setup == <<booted, magic, print, told>>
client == <<setup, live, calls>>
vars == <<booted, magic, print, told, head, bump, lock, word0, word1, pc, r, live, calls>>

heap_end == HEAP_BASE + HEAP_SIZE
HeapStart == HEAP_BASE + control_bytes
Granules == {a \in 0 .. heap_end - MIN_ALIGN : a % MIN_ALIGN = 0}

\* Evaluating NUM_BINS, a u64 constant, cannot underflow in a program that
\* compiles, and no Config of 64 bits has so many bins that control_bytes wraps.
ASSUME CadAssumption ==
  /\ ValidConfig
  /\ NUM_BINS \in Nat \ {0}
  /\ META_BYTES + (NUM_BINS + 2) * 8 + MIN_ALIGN <= WORD
  /\ HEAP_BASE \in Nat /\ HEAP_SIZE \in Nat
  /\ HEAP_BASE % MIN_ALIGN = 0 /\ HEAP_SIZE % MIN_ALIGN = 0
  /\ HEAP_SIZE >= control_bytes
  /\ heap_end < WORD
  /\ AllocSizes \subseteq 0 .. WORD - 1 /\ ReallocSizes \subseteq 0 .. WORD - 1
  /\ Verifiers \subseteq Threads

\* The memory init finds holds words.
ASSUME ScrapAssumption == Scrap \in 0 .. WORD - 1 /\ MaxCalls \in Nat

-----------------------------------------------------------------------------
(* Words.                                                                  *)

FREE == 1
USED == 0
pack(size, flag) == size + flag
header_size(header) == header - (header % 16)
header_is_free(header) == header % 16 = FREE

\* Fault: the mask is forgotten.
NextTag_Unmasked(word) == word + 1

\* Fault: the tag is kept as it was.
NextTag_Kept(word) == word % MIN_ALIGN

\* A fixed bin's head word is the top block's address plus a tag.
AddrOf(word) == word - (word % MIN_ALIGN)
NextTag(word) == (word + 1) % MIN_ALIGN

\* What a caller writes into every word of its payload.
Token(ptr) == -ptr

NullSlice == [ptr |-> 0, len |-> 0]
SliceOf(block, size) == [ptr |-> block + MIN_ALIGN, len |-> size - MIN_ALIGN]
BlockOf(slice) == slice.ptr - MIN_ALIGN

\* A word outside the heap reads as 0; the allocator has no business there.
At(word, a) == IF a \in Granules THEN word[a] ELSE 0

PayloadOf(ptr, len) == {a \in Granules : ptr <= a /\ a < ptr + len}

\* What the metadata words can hold: nothing yet, or the marker of cadalloc
\* and the fingerprint of this configuration or of another one.
Blank == "blank"
MAGIC == "CADALLOC"
Mine == "this configuration"
Theirs == "another configuration"

\* The status codes of verify, as the C shims return them.
NotTold == -1
Ok == 0
BadMagic == 1
ConfigMismatch == 2

-----------------------------------------------------------------------------
(* Locals.  `job` is the procedure on whose behalf the thread pops, pushes *)
(* or holds the lock:                                                      *)
(*   fast     alloc_fixed, popping without the lock                        *)
(*   slow     alloc_fixed, under the lock                                  *)
(*   hit      alloc_fixed, the pop under the lock found a block            *)
(*   over     alloc_oversize, searching and then bumping                   *)
(*   fit      alloc_oversize, splitting the block it found                 *)
(*   shrink   realloc, splitting the block in place                        *)
(*   keep     realloc, keeping the block whole                             *)
(*   free     free, or realloc freeing the block it moved out of           *)

NoLocals ==
  [op |-> "none", job |-> "none", size |-> 0, src |-> NullSlice, dst |-> NullSlice,
   bin |-> 0,                            \* the bin of the pop or push
   blk |-> 0, top |-> 0,                 \* the block in hand is blk .. top - 1
   lo |-> 0, end |-> 0,                  \* the gap still to carve is lo .. end - 1
   old |-> 0, nxt |-> 0,                 \* words loaded by push_fixed, pop_fixed
   prev |-> 0, cur |-> 0,                \* the first-fit walk
   usable |-> 0,                         \* the payload a realloc relocates
   iter |-> 0]                           \* the counter of a loop

Goto(t, label) == pc' = [pc EXCEPT ![t] = label]

\* The size of the block a request asks for, and the class bin it comes from.
Target(t) == request_block_size(r[t].size)
RequestBin(size) == bin_index(NeedOf(size))
AllocEntry(size) == IF RequestBin(size) = oversize_bin THEN "lock" ELSE "pop_load"
AllocJob(size) == IF RequestBin(size) = oversize_bin THEN "over" ELSE "fast"

\* The block being pushed: a piece of a gap, a piece of a split, or a free block.
Piece(t) == CASE r[t].job \in {"slow", "over"} -> r[t].end
              [] r[t].job \in {"fit", "shrink"} -> r[t].top
              [] OTHER -> r[t].blk

AfterPush(job) == CASE job \in {"slow", "over"} -> "gap"
                    [] job \in {"fit", "shrink"} -> "split"
                    [] OTHER -> "return"

-----------------------------------------------------------------------------
Init ==
  /\ booted = FALSE
  /\ \/ magic = Blank /\ print = Blank
     \/ magic = MAGIC /\ print = Theirs
  /\ told = [t \in Threads |-> NotTold]
  /\ head = [k \in Bins |-> Scrap]
  /\ bump = Scrap /\ lock = Scrap
  /\ word0 = [a \in Granules |-> 0] /\ word1 = [a \in Granules |-> 0]
  /\ pc = [t \in Threads |-> "idle"]
  /\ r = [t \in Threads |-> NoLocals]
  /\ live = {}
  /\ calls = 0

(* init(), once, while nobody is inside another call than verify.  Its two *)
(* error returns are for heaps that CadAssumption excludes.                *)

Initialising(t) == pc[t] \in {"init_magic", "init_print", "init_head", "init_bump", "init_lock"}
OffHeap(t) == pc[t] \in {"idle", "verify_print"}

InitCall(t) ==
  /\ ~booted /\ pc[t] = "idle" /\ \A u \in Threads : OffHeap(u)
  /\ Goto(t, "init_magic")
  /\ UNCHANGED <<control, memory, r, client>>

InitMagic(t) ==
  /\ pc[t] = "init_magic"
  /\ magic' = MAGIC
  /\ Goto(t, "init_print")
  /\ UNCHANGED <<booted, print, told, control, memory, r, live, calls>>

\* Fault: the fingerprint is left as it was found.
PrintStored_Found == print

\* The fingerprint init stores.
PrintStored == Mine

InitPrint(t) ==
  /\ pc[t] = "init_print"
  /\ print' = PrintStored
  /\ Goto(t, "init_head")
  /\ UNCHANGED <<booted, magic, told, control, memory, r, live, calls>>

InitHead(t) ==
  /\ pc[t] = "init_head"
  /\ head' = [head EXCEPT ![r[t].iter] = 0]
  /\ IF r[t].iter = oversize_bin
       THEN r' = [r EXCEPT ![t].iter = 0] /\ Goto(t, "init_bump")
       ELSE r' = [r EXCEPT ![t].iter = @ + 1] /\ UNCHANGED pc
  /\ UNCHANGED <<bump, lock, memory, client>>

InitBump(t) ==
  /\ pc[t] = "init_bump"
  /\ bump' = HeapStart
  /\ Goto(t, "init_lock")
  /\ UNCHANGED <<head, lock, memory, r, client>>

InitLock(t) ==
  /\ pc[t] = "init_lock"
  /\ lock' = 0
  /\ booted' = TRUE
  /\ Goto(t, "idle")
  /\ UNCHANGED <<magic, print, told, head, bump, memory, r, live, calls>>

(* verify(), at any time: it takes no lock.                                *)

Tell(t, status) == told' = [told EXCEPT ![t] = status]

VerifyMagic(t) ==
  /\ t \in Verifiers /\ pc[t] = "idle" /\ told[t] # Ok
  /\ IF magic = MAGIC THEN Goto(t, "verify_print") /\ UNCHANGED told
                      ELSE Tell(t, BadMagic) /\ UNCHANGED pc
  /\ UNCHANGED <<booted, magic, print, control, memory, r, live, calls>>

VerifyPrint(t) ==
  /\ pc[t] = "verify_print"
  /\ Tell(t, IF print = Mine THEN Ok ELSE ConfigMismatch)
  /\ Goto(t, "idle")
  /\ UNCHANGED <<booted, magic, print, control, memory, r, live, calls>>

-----------------------------------------------------------------------------
(* Calls and returns.                                                      *)

\* Callers wait for init to return, and verifiers for verify to accept.
Allowed(t) ==
  \/ booted /\ (t \in Verifiers => told[t] = Ok)
  \/ EarlyCalls /\ \A u \in Threads : ~Initialising(u)

MayCall(t) ==
  /\ pc[t] = "idle" /\ calls < MaxCalls /\ Allowed(t)
  /\ calls' = calls + 1
  /\ UNCHANGED <<setup, control, memory>>

\* alloc(n), and realloc(NULL, n)
AllocCall(t) ==
  /\ MayCall(t)
  /\ \E n \in AllocSizes :
       /\ r' = [r EXCEPT ![t] = [@ EXCEPT !.op = "alloc", !.size = n,
                                          !.job = AllocJob(n), !.bin = RequestBin(n)]]
       /\ Goto(t, AllocEntry(n))
  /\ UNCHANGED live

FreeCall(t) ==
  /\ MayCall(t)
  /\ \E s \in live : /\ live' = live \ {s}
                     /\ r' = [r EXCEPT ![t].op = "free", ![t].src = s]
  /\ Goto(t, "free_load")

\* Misuse: freeing a block that is free already, or that another thread is
\* freeing with the same slice.
FreeAgain(t) ==
  /\ SecondFrees /\ MayCall(t)
  /\ \/ \E b \in {a \in Granules : header_is_free(word0[a])} :
          r' = [r EXCEPT ![t].op = "again", ![t].src = SliceOf(b, header_size(word0[b]))]
     \/ \E u \in Threads :
          /\ r[u].op = "free" /\ pc[u] \in {"free_load", "free_stamp"}
          /\ r' = [r EXCEPT ![t].op = "again", ![t].src = r[u].src]
  /\ Goto(t, "free_load")
  /\ UNCHANGED live

ReallocCall(t) ==
  /\ MayCall(t)
  /\ \E s \in live, n \in ReallocSizes :
       /\ live' = live \ {s}
       /\ r' = [r EXCEPT ![t].op = "realloc", ![t].src = s, ![t].size = n]
  /\ Goto(t, "realloc_load")

\* The call returns, and the caller fills the payload it now owns.  A realloc
\* that fails leaves the caller with the slice it passed.
Return(t) ==
  LET s == r[t].dst
      kept == IF r[t].op = "realloc" /\ s = NullSlice THEN r[t].src ELSE s
      fill == PayloadOf(s.ptr, s.len)
  IN /\ pc[t] = "return"
     /\ live' = live \cup ({kept} \ {NullSlice})
     /\ word0' = [a \in Granules |-> IF a \in fill THEN Token(s.ptr) ELSE word0[a]]
     /\ word1' = [a \in Granules |-> IF a \in fill THEN Token(s.ptr) ELSE word1[a]]
     /\ r' = [r EXCEPT ![t] = NoLocals]
     /\ Goto(t, "idle")
     /\ UNCHANGED <<setup, calls, control>>

-----------------------------------------------------------------------------
(* The refill lock.                                                        *)

\* Fault: the lock is taken without looking.
LockFree_Always == TRUE

LockFree == lock = 0

Lock(t) ==
  /\ pc[t] = "lock" /\ LockFree
  /\ lock' = 1
  /\ Goto(t, CASE r[t].job = "slow" -> "pop_load"
               [] r[t].job = "over" -> "fit_head"
               [] r[t].job = "shrink" -> "split"
               [] r[t].job = "free" -> "over_push")
  /\ UNCHANGED <<head, bump, memory, r, client>>

\* Leaving the critical section.  alloc_fixed stamps its block afterwards;
\* a realloc that shrank its block reports the size it kept.
Unlock(t) ==
  /\ pc[t] = "unlock"
  /\ lock' = 0
  /\ \/ /\ r[t].job \in {"slow", "hit"}
        /\ Goto(t, IF r[t].blk = 0 THEN "got" ELSE "stamp")
        /\ UNCHANGED r
     \/ /\ r[t].job \in {"over", "fit"}
        /\ Goto(t, "got")
        /\ UNCHANGED r
     \/ /\ r[t].job = "shrink"
        /\ r' = [r EXCEPT ![t].dst = SliceOf(r[t].blk, r[t].top - r[t].blk),
                          ![t].blk = 0, ![t].top = 0]
        /\ Goto(t, "return")
     \/ /\ r[t].job = "free"
        /\ Goto(t, "return")
        /\ UNCHANGED r
  /\ UNCHANGED <<head, bump, memory, client>>

-----------------------------------------------------------------------------
(* push_fixed(r.bin, Piece)                                                *)

\* Fault: a plain store in place of the compare-and-swap.
HeadAsLoaded_Unchecked(t) == TRUE

\* Fault: the value expected is the address without its tag.
HeadAsLoaded_Untagged(t) == head[r[t].bin] = AddrOf(r[t].old)

\* What a compare-and-swap on the head word of the bin checks.
HeadAsLoaded(t) == head[r[t].bin] = r[t].old

PushLoad(t) ==
  /\ pc[t] = "push_load"
  /\ r' = [r EXCEPT ![t].old = head[r[t].bin]]
  /\ Goto(t, "push_store")
  /\ UNCHANGED <<control, memory, client>>

PushStore(t) ==
  /\ pc[t] = "push_store"
  /\ word1' = [word1 EXCEPT ![Piece(t)] = AddrOf(r[t].old)]
  /\ Goto(t, "push_cas")
  /\ UNCHANGED <<control, word0, r, client>>

PushCas(t) ==
  /\ pc[t] = "push_cas" /\ HeadAsLoaded(t)
  /\ head' = [head EXCEPT ![r[t].bin] = Piece(t) + NextTag(r[t].old)]
  /\ r' = [r EXCEPT ![t].old = 0,
                    ![t].blk = IF r[t].job = "free" THEN 0 ELSE @,
                    ![t].top = IF r[t].job = "free" THEN 0 ELSE @]
  /\ Goto(t, AfterPush(r[t].job))
  /\ UNCHANGED <<bump, lock, memory, client>>

\* The head moved, or the weak compare-and-swap failed spuriously.
PushRetry(t) ==
  /\ pc[t] = "push_cas"
  /\ r' = [r EXCEPT ![t].old = 0]
  /\ Goto(t, "push_load")
  /\ UNCHANGED <<control, memory, client>>

-----------------------------------------------------------------------------
(* pop_fixed(r.bin), without the lock (fast) or under it (slow).           *)

PopEmpty(t) ==
  /\ pc[t] = "pop_load" /\ AddrOf(head[r[t].bin]) = 0
  /\ IF r[t].job = "fast"
       THEN r' = [r EXCEPT ![t].job = "slow"] /\ Goto(t, "lock")
       ELSE r' = r /\ Goto(t, "refill")
  /\ UNCHANGED <<control, memory, client>>

PopLoad(t) ==
  /\ pc[t] = "pop_load" /\ AddrOf(head[r[t].bin]) # 0
  /\ r' = [r EXCEPT ![t].old = head[r[t].bin]]
  /\ Goto(t, "pop_next")
  /\ UNCHANGED <<control, memory, client>>

PopNext(t) ==
  /\ pc[t] = "pop_next"
  /\ r' = [r EXCEPT ![t].nxt = At(word1, AddrOf(r[t].old))]
  /\ Goto(t, "pop_cas")
  /\ UNCHANGED <<control, memory, client>>

PopCas(t) ==
  LET b == AddrOf(r[t].old)
  IN /\ pc[t] = "pop_cas" /\ HeadAsLoaded(t)
     /\ head' = [head EXCEPT ![r[t].bin] = r[t].nxt + NextTag(r[t].old)]
     /\ r' = [r EXCEPT ![t].old = 0, ![t].nxt = 0,
                       ![t].blk = b, ![t].top = b + bin_class(r[t].bin),
                       ![t].job = IF @ = "slow" THEN "hit" ELSE @]
     /\ Goto(t, IF r[t].job = "slow" THEN "unlock" ELSE "stamp")
     /\ UNCHANGED <<bump, lock, memory, client>>

PopRetry(t) ==
  /\ pc[t] = "pop_cas"
  /\ r' = [r EXCEPT ![t].old = 0, ![t].nxt = 0]
  /\ Goto(t, "pop_load")
  /\ UNCHANGED <<control, memory, client>>

-----------------------------------------------------------------------------
(* alloc_fixed after its pop, and alloc.                                   *)

Stamp(t) ==
  /\ pc[t] = "stamp"
  /\ word0' = [word0 EXCEPT ![r[t].blk] = pack(Target(t), USED)]
  /\ Goto(t, "got")
  /\ UNCHANGED <<control, word1, r, client>>

\* Fault: the old block is freed without copying it.
AfterGot_NoCopy(op, b) == IF op = "realloc" /\ b # 0 THEN "free_load" ELSE "return"

\* A realloc that had to move goes on to relocate its payload.
AfterGot(op, b) == IF op = "realloc" /\ b # 0 THEN "copy" ELSE "return"

\* The slice handed out is read back from the header.
Got(t) ==
  LET b == r[t].blk
      s == IF b = 0 THEN NullSlice ELSE SliceOf(b, header_size(At(word0, b)))
  IN /\ pc[t] = "got"
     /\ r' = [r EXCEPT ![t].dst = s, ![t].blk = 0, ![t].top = 0]
     /\ Goto(t, AfterGot(r[t].op, b))
     /\ UNCHANGED <<control, memory, client>>

\* Fault: a block that ends exactly at the heap's end is refused.
HasRoom_Strict(aligned, size) == Wrap(aligned + size) < heap_end

\* Carving a fresh block off the bump region, at the bump pointer rounded up
\* to `align`.  The sum wraps like the code's.
HasRoom(aligned, size) == Wrap(aligned + size) <= heap_end

Refill(t, align, size) ==
  LET aligned == align_up(bump, align)
  IN IF HasRoom(aligned, size)
       THEN /\ r' = [r EXCEPT ![t].blk = aligned, ![t].top = Wrap(aligned + size),
                              ![t].lo = bump, ![t].end = aligned, ![t].prev = 0]
            /\ Goto(t, "gap")
       ELSE /\ r' = [r EXCEPT ![t].prev = 0]
            /\ Goto(t, "unlock")

RefillFixed(t) ==
  /\ pc[t] = "refill" /\ r[t].job = "slow"
  /\ Refill(t, align_of_bin(r[t].bin), bin_class(r[t].bin))
  /\ UNCHANGED <<control, memory, client>>

-----------------------------------------------------------------------------
\* A carved piece gets its header; it is linked into the oversized list at
\* once, or goes on to be pushed on its fixed bin.
Release(t, start, piece) ==
  /\ word0' = [word0 EXCEPT ![start] = pack(piece.size, FREE)]
  /\ IF piece.bin = oversize_bin
       THEN /\ word1' = [word1 EXCEPT ![start] = head[oversize_bin]]
            /\ head' = [head EXCEPT ![oversize_bin] = start]
            /\ UNCHANGED pc
       ELSE /\ Goto(t, "push_load")
            /\ UNCHANGED <<word1, head>>

(* carve_gap(r.lo, r.end), then the bump pointer moves past the block.     *)

GapLeft(t) == gap_goes_on(r[t].lo, r[t].end)

CarveGap(t) ==
  LET piece == largest_carvable(r[t].end, r[t].end - r[t].lo)
      start == r[t].end - piece.size
  IN /\ pc[t] = "gap" /\ GapLeft(t)
     /\ r' = [r EXCEPT ![t].end = start, ![t].bin = piece.bin]
     /\ Release(t, start, piece)
     /\ UNCHANGED <<bump, lock, client>>

\* Fault: the header granule is not counted.
BumpTo_Short(t) == r[t].top - MIN_ALIGN

BumpTo(t) == r[t].top

Bump(t) ==
  /\ pc[t] = "gap" /\ ~GapLeft(t)
  /\ bump' = BumpTo(t)
  /\ r' = [r EXCEPT ![t].lo = 0, ![t].end = 0, ![t].bin = RequestBin(r[t].size)]
  /\ Goto(t, IF r[t].job = "over" THEN "over_stamp" ELSE "unlock")
  /\ UNCHANGED <<head, lock, memory, client>>

-----------------------------------------------------------------------------
(* alloc_oversize, under the lock.                                         *)

FitHead(t) ==
  /\ pc[t] = "fit_head"
  /\ r' = [r EXCEPT ![t].cur = head[oversize_bin]]
  /\ Goto(t, "fit")
  /\ UNCHANGED <<control, memory, client>>

FitSkip(t) ==
  /\ pc[t] = "fit" /\ r[t].cur # 0
  /\ header_size(At(word0, r[t].cur)) < Target(t)
  /\ r' = [r EXCEPT ![t].prev = r[t].cur, ![t].cur = At(word1, r[t].cur)]
  /\ UNCHANGED <<pc, control, memory, client>>

\* The first block that is large enough is unlinked: the word that points to
\* it is the head, or the link of the block before it.
FitTake(t) ==
  LET c == r[t].cur
  IN /\ pc[t] = "fit" /\ c # 0
     /\ header_size(At(word0, c)) >= Target(t)
     /\ IF r[t].prev = 0
          THEN head' = [head EXCEPT ![oversize_bin] = At(word1, c)] /\ UNCHANGED word1
          ELSE word1' = [word1 EXCEPT ![r[t].prev] = At(word1, c)] /\ UNCHANGED head
     /\ r' = [r EXCEPT ![t].blk = c, ![t].top = c + header_size(At(word0, c)),
                       ![t].prev = 0, ![t].cur = 0, ![t].job = "fit"]
     /\ Goto(t, "split")
     /\ UNCHANGED <<bump, lock, word0, client>>

RefillOversize(t) ==
  /\ pc[t] = "fit" /\ r[t].cur = 0
  /\ Refill(t, EXP_CEIL, Target(t))
  /\ UNCHANGED <<control, memory, client>>

OverStamp(t) ==
  /\ pc[t] = "over_stamp"
  /\ word0' = [word0 EXCEPT ![r[t].blk] = pack(Target(t), USED)]
  /\ Goto(t, "unlock")
  /\ UNCHANGED <<control, word1, r, client>>

-----------------------------------------------------------------------------
(* split_and_free_tail(r.blk, r.top - r.blk, Target), under the lock.      *)

InHand(t) == r[t].top - r[t].blk
SplitOn(t) == split_goes_on(r[t].top, InHand(t), Target(t), r[t].iter)
Retained(t) == retained_size(InHand(t), Target(t), r[t].iter)

SplitCarve(t) ==
  LET piece == largest_carvable(r[t].top, InHand(t) - Target(t))
      start == r[t].top - piece.size
  IN /\ pc[t] = "split" /\ SplitOn(t)
     /\ r' = [r EXCEPT ![t].top = start, ![t].iter = @ + 1, ![t].bin = piece.bin]
     /\ Release(t, start, piece)
     /\ UNCHANGED <<bump, lock, client>>

SplitDone(t) ==
  /\ pc[t] = "split" /\ ~SplitOn(t)
  /\ word0' = [word0 EXCEPT ![r[t].blk] = pack(Retained(t), USED)]
  /\ r' = [r EXCEPT ![t].top = r[t].blk + Retained(t), ![t].iter = 0]
  /\ Goto(t, "unlock")
  /\ UNCHANGED <<control, word1, client>>

-----------------------------------------------------------------------------
(* realloc                                                                 *)

CurSize(t) == header_size(At(word0, BlockOf(r[t].src)))

ReallocKeep(t) ==
  /\ pc[t] = "realloc_load"
  /\ CurSize(t) >= Target(t) /\ CurSize(t) - Target(t) < SPLIT_MIN
  /\ r' = [r EXCEPT ![t].job = "keep", ![t].dst = SliceOf(BlockOf(r[t].src), CurSize(t))]
  /\ Goto(t, "return")
  /\ UNCHANGED <<control, memory, client>>

ReallocShrink(t) ==
  /\ pc[t] = "realloc_load"
  /\ CurSize(t) >= Target(t) /\ CurSize(t) - Target(t) >= SPLIT_MIN
  /\ r' = [r EXCEPT ![t].job = "shrink", ![t].blk = BlockOf(r[t].src),
                    ![t].top = BlockOf(r[t].src) + CurSize(t)]
  /\ Goto(t, "lock")
  /\ UNCHANGED <<control, memory, client>>

\* The old block stays the caller's until the new one has its contents.
ReallocGrow(t) ==
  /\ pc[t] = "realloc_load"
  /\ CurSize(t) < Target(t)
  /\ r' = [r EXCEPT ![t].job = AllocJob(r[t].size), ![t].bin = RequestBin(r[t].size),
                    ![t].usable = CurSize(t) - MIN_ALIGN]
  /\ Goto(t, AllocEntry(r[t].size))
  /\ UNCHANGED <<control, memory, client>>

\* relocate: copy what fits, then free(src).
Copy(t) ==
  LET from == r[t].src.ptr
      to == r[t].dst.ptr
      into == PayloadOf(to, Smaller(r[t].usable, r[t].dst.len))
      Copied(word) == [a \in Granules |->
                         IF a \in into THEN At(word, a - to + from) ELSE word[a]]
  IN /\ pc[t] = "copy"
     /\ word0' = Copied(word0) /\ word1' = Copied(word1)
     /\ Goto(t, "free_load")
     /\ UNCHANGED <<control, r, client>>

-----------------------------------------------------------------------------
(* free(r.src): a block already marked free is refused.                    *)

\* Fault: the flag is not looked at.
Refused_Never(header) == FALSE

Refused(header) == header_is_free(header)

FreeLoad(t) ==
  LET b == BlockOf(r[t].src)
      header == At(word0, b)
  IN /\ pc[t] = "free_load"
     /\ IF Refused(header)
          THEN /\ r' = [r EXCEPT ![t].job = "free"]
               /\ Goto(t, "return")
          ELSE /\ r' = [r EXCEPT ![t].job = "free", ![t].blk = b,
                                 ![t].top = b + header_size(header),
                                 ![t].bin = bin_index(header_size(header))]
               /\ Goto(t, "free_stamp")
     /\ UNCHANGED <<control, memory, client>>

\* Fault: the oversized list is pushed on without the lock.
FreeEntry_NoLock(bin) == IF bin = oversize_bin THEN "over_push" ELSE "push_load"

FreeEntry(bin) == IF bin = oversize_bin THEN "lock" ELSE "push_load"

FreeStamp(t) ==
  /\ pc[t] = "free_stamp"
  /\ word0' = [word0 EXCEPT ![r[t].blk] = pack(r[t].top - r[t].blk, FREE)]
  /\ Goto(t, FreeEntry(r[t].bin))
  /\ UNCHANGED <<control, word1, r, client>>

\* push_oversize_locked
OverPush(t) ==
  LET b == r[t].blk
  IN /\ pc[t] = "over_push"
     /\ word1' = [word1 EXCEPT ![b] = head[oversize_bin]]
     /\ head' = [head EXCEPT ![oversize_bin] = b]
     /\ r' = [r EXCEPT ![t].blk = 0, ![t].top = 0]
     /\ Goto(t, "unlock")
     /\ UNCHANGED <<bump, lock, word0, client>>

-----------------------------------------------------------------------------
Swap(t) == PushCas(t) \/ PopCas(t)

Step(t) ==
  \/ Lock(t) \/ Unlock(t)
  \/ PushLoad(t) \/ PushStore(t) \/ PushRetry(t)
  \/ PopEmpty(t) \/ PopLoad(t) \/ PopNext(t) \/ PopRetry(t)
  \/ Swap(t)
  \/ Stamp(t) \/ Got(t) \/ RefillFixed(t) \/ CarveGap(t) \/ Bump(t)
  \/ FitHead(t) \/ FitSkip(t) \/ FitTake(t) \/ RefillOversize(t) \/ OverStamp(t)
  \/ SplitCarve(t) \/ SplitDone(t)
  \/ ReallocKeep(t) \/ ReallocShrink(t) \/ ReallocGrow(t) \/ Copy(t)
  \/ FreeLoad(t) \/ FreeStamp(t) \/ OverPush(t)
  \/ Return(t)

\* Whoever prepares the heap or looks whether it is prepared goes on.
Prepare(t) ==
  \/ InitMagic(t) \/ InitPrint(t) \/ InitHead(t) \/ InitBump(t) \/ InitLock(t)
  \/ VerifyPrint(t)

Call(t) == AllocCall(t) \/ FreeCall(t) \/ FreeAgain(t) \/ ReallocCall(t)

Next ==
  \E t \in Threads :
    InitCall(t) \/ VerifyMagic(t) \/ Prepare(t) \/ Call(t) \/ Step(t)

Spec == Init /\ [][Next]_vars

\* A thread inside a call keeps running, gets a free lock in the end, and does
\* not see a weak compare-and-swap on an unchanged word fail for ever.
FairSpec ==
  /\ Spec
  /\ \A t \in Threads : /\ WF_vars(Prepare(t)) /\ WF_vars(Step(t))
                        /\ SF_vars(Swap(t)) /\ SF_vars(Lock(t))
=============================================================================
