------------------------------ MODULE HeapInv ------------------------------
(***************************************************************************)
(* The inductive invariant behind the safety of the heap.  It speaks of    *)
(* four things the program does not store:                                 *)
(*   own    own[a]: who owns granule a                                     *)
(*   st     where blocks start                                             *)
(*   n, el  the list of bin k is el[k][n[k]], ..., el[k][1], and its links *)
(*          lead from each block to the next lower one; el[k][0] is the 0  *)
(*          that ends it                                                   *)
(* An owner is a free list with a block of it, a slice, one of the places  *)
(* a call keeps memory in, or the region above the bump pointer.           *)
(***************************************************************************)
EXTENDS CadAllocSafety

BinId(k, b) == <<"bin", <<k, b>>>>
LiveId(s) == <<"live", s>>
SrcId(t) == <<"src", t>>
DstId(t) == <<"dst", t>>
BlockId(t) == <<"block", t>>
GapId(t) == <<"gap", t>>
PieceId(t) == <<"piece", t>>
BumpId == <<"bump", 0>>
LostId == <<"lost", 0>>

\* The calls the invariant is about: after init, with slices their caller owns,
\* and with sizes that do not wrap where they are rounded up and added.
SafeUse ==
  /\ ~EarlyCalls /\ ~SecondFrees
  /\ heap_end + 2 * EXP_CEIL <= WORD
  /\ \A size \in AllocSizes \cup ReallocSizes :
       heap_end + size + 2 * MIN_ALIGN + EXP_CEIL <= WORD

(* No pop succeeds with a link that is not the one its block holds by then:   *)
(* the tag has told the head word from every one before it (pop_fixed).       *)
HonestPops ==
  [][\A t \in Threads : PopCas(t) => r[t].nxt = At(word1, AddrOf(r[t].old))]_vars

-----------------------------------------------------------------------------
(* Blocks.                                                                 *)

\* A size a block may have where it is: a class or above EXP_CEIL, and aligned.
Valid(b, size) ==
  /\ size \in Nat /\ size % MIN_ALIGN = 0 /\ size >= LNR_FLOOR
  /\ is_block_exact(size)
  /\ b % align_of_bin(bin_index(size)) = 0

\* The bytes lo .. hi - 1 are id's, and no block starts inside.
Held(own, st, id, lo, hi) ==
  /\ lo \in Int /\ hi \in Int /\ lo % MIN_ALIGN = 0 /\ hi % MIN_ALIGN = 0
  /\ HeapStart <= lo /\ lo < hi /\ hi <= heap_end
  /\ \A a \in Granules : lo <= a /\ a < hi => own[a] = id /\ (a # lo => a \notin st)

Block(own, st, id, lo, hi) == Held(own, st, id, lo, hi) /\ lo \in st

FreeBlock(own, st, id, k, b) ==
  LET size == header_size(word0[b])
  IN /\ Block(own, st, id, b, b + size)
     /\ Valid(b, size) /\ bin_index(size) = k
     /\ word0[b] = pack(size, FREE)

UsedBlock(own, st, id, b, size) ==
  Block(own, st, id, b, b + size) /\ Valid(b, size) /\ word0[b] = pack(size, USED)

SliceHeld(own, st, id, s) == UsedBlock(own, st, id, BlockOf(s), s.len + MIN_ALIGN)

-----------------------------------------------------------------------------
(* The shared state.                                                       *)

SliceSet == [ptr : Int, len : Int]
Requests == AllocSizes \cup ReallocSizes
Typed(x) ==
  /\ DOMAIN x = DOMAIN NoLocals
  /\ x.op \in {"none", "alloc", "free", "realloc"} /\ x.job \in Jobs /\ x.size \in Nat
  /\ x.src \in SliceSet /\ x.dst \in SliceSet
  /\ x.bin \in Int /\ x.blk \in Int /\ x.top \in Int /\ x.lo \in Int /\ x.end \in Int
  /\ x.old \in Int /\ x.nxt \in Int /\ x.prev \in Int /\ x.cur \in Int
  /\ x.usable \in Int /\ x.iter \in Nat

Types(own, st, el, n) ==
  /\ word0 \in [Granules -> Int] /\ word1 \in [Granules -> Int]
  /\ head \in [Bins -> Nat]
  /\ pc \in [Threads -> Labels]
  /\ DOMAIN r = Threads /\ \A t \in Threads : Typed(r[t])
  /\ live \subseteq SliceSet
  /\ st \subseteq Granules \ {0}
  /\ n \in [Bins -> Nat] /\ el \in [Bins -> [Nat -> Int]]

Lists(own, st, el, n) ==
  /\ \A k \in Bins : el[k][0] = 0 /\ AddrOf(head[k]) = el[k][n[k]]
  /\ head[oversize_bin] = el[oversize_bin][n[oversize_bin]]
  /\ \A k \in Bins : \A i \in 1 .. n[k] :
       /\ FreeBlock(own, st, BinId(k, el[k][i]), k, el[k][i])
       /\ word1[el[k][i]] = el[k][i - 1]
       /\ \A j \in 1 .. n[k] : el[k][i] = el[k][j] => i = j

LiveSlices(own, st) == \A s \in live : SliceHeld(own, st, LiveId(s), s)

\* Nothing above the bump pointer has been touched, nor above the block that
\* is being carved off there.
Room(own, st) ==
  /\ bump \in Nat /\ bump % MIN_ALIGN = 0 /\ HeapStart <= bump /\ bump <= heap_end
  /\ \A t \in Threads : Carving(t) => bump <= r[t].lo
  /\ \A a \in Granules :
       bump <= a /\ (\A t \in Threads : Carving(t) => r[t].top <= a)
         => own[a] = BumpId /\ a \notin st

-----------------------------------------------------------------------------
(* The locals of a thread.                                                 *)

\* What a call has in hand.
Hands(own, st, t) ==
  /\ HoldsSrc(t) => SliceHeld(own, st, SrcId(t), r[t].src)
  /\ IF r[t].dst.ptr = 0 THEN r[t].dst = NullSlice
                         ELSE SliceHeld(own, st, DstId(t), r[t].dst)
  /\ r[t].blk # 0 => Block(own, st, BlockId(t), r[t].blk, r[t].top)
  /\ IF Carving(t) THEN r[t].lo < r[t].end => Held(own, st, GapId(t), r[t].lo, r[t].end)
                   ELSE r[t].lo = 0 /\ r[t].end = 0

PushId(t) == IF r[t].job = "free" THEN BlockId(t) ELSE PieceId(t)

\* What it pushes, and what it has loaded.
Moving(own, st, t) ==
  /\ Pushing(t) => FreeBlock(own, st, PushId(t), r[t].bin, Piece(t)) /\ r[t].bin \in FixedBins
  /\ pc[t] \in {"push_store", "push_cas"} => r[t].old \in Nat
  /\ pc[t] = "push_cas" => word1[Piece(t)] = AddrOf(r[t].old)
  /\ pc[t] \in {"pop_next", "pop_cas"} => r[t].old \in Nat /\ AddrOf(r[t].old) \in st

\* A request that is being served.
Serving(t) == r[t].op \in {"alloc", "realloc"} /\ r[t].size \in Requests /\ r[t].dst = NullSlice

Asking(t) ==
  /\ Serving(t) /\ r[t].blk = 0 /\ r[t].iter = 0
  /\ r[t].bin = RequestBin(r[t].size)
  /\ (r[t].job = "over") = (r[t].bin = oversize_bin)

\* Its block, found or carved.
Found(t) ==
  /\ Serving(t) /\ r[t].blk # 0
  /\ r[t].top = r[t].blk + Target(t) /\ Valid(r[t].blk, Target(t))
  /\ (r[t].job = "over") = (RequestBin(r[t].size) = oversize_bin)

\* Its block, stamped.
Served(t) ==
  /\ r[t].op \in {"alloc", "realloc"} /\ r[t].size \in Requests /\ r[t].blk # 0
  /\ Valid(r[t].blk, InHand(t)) /\ word0[r[t].blk] = pack(InHand(t), USED)
  /\ InHand(t) >= Target(t)

\* The block of a realloc in place.
InPlace(t) ==
  r[t].job = "shrink" => r[t].op = "realloc" /\ r[t].src.ptr = r[t].blk + MIN_ALIGN

SplitBlock(t) ==
  /\ r[t].op \in {"alloc", "realloc"} /\ r[t].size \in Requests /\ r[t].blk # 0
  /\ r[t].dst = NullSlice /\ InPlace(t)
  /\ InHand(t) >= Target(t)
  /\ r[t].blk % align_of_bin(bin_index(InHand(t))) = 0
  /\ r[t].iter = 0 => Valid(r[t].blk, InHand(t))

Freeing(t) ==
  /\ r[t].blk # 0 /\ Valid(r[t].blk, InHand(t)) /\ r[t].bin = bin_index(InHand(t))
  /\ pc[t] # "free_stamp" => word0[r[t].blk] = pack(InHand(t), FREE)

\* A free gives back nothing, a realloc that frees has its new block.
Leaving(t) ==
  /\ r[t].op \in {"free", "realloc"}
  /\ (r[t].op = "realloc") = (r[t].dst.ptr # 0)

AskingAt == {"pop_load", "pop_next", "pop_cas", "refill", "fit_head", "fit"}

\* Where a call is.
Place(t) ==
  /\ ~Initialising(t)
  /\ pc[t] \in {"idle", "verify_print"} => r[t] = NoLocals
  /\ pc[t] \in AskingAt \/ (pc[t] = "lock" /\ r[t].job \in {"slow", "over"}) => Asking(t)
  /\ Carving(t) => Found(t) /\ r[t].lo <= r[t].end /\ r[t].end <= r[t].blk /\ r[t].iter = 0
                   /\ r[t].lo % MIN_ALIGN = 0 /\ r[t].end % MIN_ALIGN = 0 /\ r[t].lo \in Nat
  /\ pc[t] \in {"stamp", "over_stamp"} => Found(t)
  /\ pc[t] = "stamp" => r[t].job \in {"fast", "slow", "hit"}
  /\ pc[t] = "over_stamp" => r[t].job = "over"
  /\ (pc[t] = "split" \/ (Pushing(t) /\ r[t].job \in {"fit", "shrink"})
        \/ (pc[t] = "lock" /\ r[t].job = "shrink"))
       => SplitBlock(t)
  /\ (pc[t] \in {"free_stamp", "over_push"} \/ (Pushing(t) /\ r[t].job = "free")
        \/ (pc[t] = "lock" /\ r[t].job = "free"))
       => Freeing(t) /\ Leaving(t)
  /\ pc[t] = "over_push" \/ (pc[t] = "lock" /\ r[t].job = "free") => r[t].bin = oversize_bin
  /\ pc[t] = "unlock" =>
       /\ r[t].job \in {"slow", "hit"} => Serving(t) /\ (r[t].blk # 0 => Found(t))
       /\ r[t].job \in {"over", "fit"} => Serving(t) /\ (r[t].blk # 0 => Served(t))
       /\ r[t].job = "shrink" => Served(t) /\ InPlace(t) /\ r[t].dst = NullSlice
       /\ r[t].job = "free" => r[t].blk = 0 /\ Leaving(t)
       /\ r[t].job \in {"slow", "hit", "over", "fit", "shrink", "free"}
  /\ pc[t] = "got" => /\ Serving(t) /\ r[t].job \in {"fast", "slow", "hit", "over", "fit"}
                      /\ r[t].blk # 0 => Served(t)
  /\ pc[t] = "realloc_load" => Serving(t) /\ r[t].op = "realloc" /\ r[t].blk = 0
                               /\ r[t].job = "none" /\ r[t].iter = 0
  /\ pc[t] = "copy" => Leaving(t) /\ r[t].op = "realloc" /\ r[t].blk = 0
                       /\ r[t].job \in {"fast", "slow", "hit", "over", "fit"}
  /\ pc[t] = "free_load" => Leaving(t) /\ r[t].blk = 0
                            /\ r[t].job \in {"none", "fast", "slow", "hit", "over", "fit"}
  /\ pc[t] # "fit" => r[t].prev = 0
  /\ r[t].dst.ptr # 0 => r[t].size <= r[t].dst.len
  /\ r[t].op \in {"free", "realloc"} => r[t].src.ptr # 0
  /\ r[t].op = "alloc" => r[t].src.ptr = 0
  /\ pc[t] = "return" =>
       /\ r[t].blk = 0 /\ r[t].op \in {"alloc", "free", "realloc"}
       /\ r[t].op = "free" => r[t].dst.ptr = 0
       /\ r[t].op = "realloc" /\ r[t].dst.ptr = 0 => r[t].job \notin {"keep", "shrink", "free"}

\* The walk of first fit: at block j of the oversized list, past smaller ones.
Fitting(el, n, t) ==
  pc[t] = "fit" =>
    LET k == oversize_bin IN
    \E j \in 0 .. n[k] :
      /\ r[t].cur = el[k][j]
      /\ r[t].prev = IF j = n[k] THEN 0 ELSE el[k][j + 1]
      /\ \A i \in j + 1 .. n[k] : header_size(word0[el[k][i]]) < Target(t)

\* A request that has failed under the lock: there was no room for it.
Failing(el, n, t) ==
  pc[t] = "unlock" /\ r[t].blk = 0 /\ r[t].job \in {"slow", "over"} =>
    /\ align_up(bump, IF r[t].job = "over" THEN EXP_CEIL ELSE align_of_bin(r[t].bin)) + Target(t)
         > heap_end
    /\ r[t].job = "over" => \A i \in 1 .. n[oversize_bin] :
                               header_size(word0[el[oversize_bin][i]]) < Target(t)

Thread(own, st, el, n, t) ==
  /\ Hands(own, st, t) /\ Moving(own, st, t) /\ Place(t)
  /\ Fitting(el, n, t) /\ Failing(el, n, t)

HInv(own, st, el, n) ==
  /\ Types(own, st, el, n) /\ Lists(own, st, el, n) /\ LiveSlices(own, st) /\ Room(own, st)
  /\ \A t \in Threads : Thread(own, st, el, n, t)

\* Before init has returned there is no call, and init has got somewhere.
Preparing ==
  /\ live = {}
  /\ pc \in [Threads -> Labels] /\ DOMAIN r = Threads
  /\ head = [k \in Bins |-> head[k]]
  /\ word0 \in [Granules -> Int] /\ word1 \in [Granules -> Int]
  /\ \A t \in Threads :
       /\ OffHeap(t) \/ Initialising(t)
       /\ r[t] = [NoLocals EXCEPT !.iter = r[t].iter]
       /\ pc[t] # "init_head" => r[t].iter = 0
       /\ pc[t] = "init_head" => r[t].iter \in Bins /\ \A k \in 0 .. r[t].iter - 1 : head[k] = 0
       /\ pc[t] \in {"init_bump", "init_lock"} => \A k \in Bins : head[k] = 0
       /\ pc[t] = "init_lock" => bump = HeapStart

HeapInv == IF booted THEN \E own, st, el, n : HInv(own, st, el, n) ELSE Preparing

-----------------------------------------------------------------------------
(* Contents, and what a realloc does with the block it was given.          *)

\* In place it has that block, or what it has not cut off; to move, it knows
\* how much to copy.
Kept(t) ==
  LET src == r[t].src
      dst == r[t].dst
  IN /\ r[t].op = "realloc" /\ r[t].job \in {"fast", "slow", "hit", "over", "fit"}
          => r[t].usable = src.len
     /\ r[t].job \in {"keep", "shrink"} => r[t].op = "realloc" /\ r[t].size \in Requests
     /\ r[t].job = "keep" => pc[t] = "return" /\ dst = src
     /\ r[t].job = "shrink" =>
          IF r[t].blk = 0
          THEN pc[t] = "return" /\ dst.ptr = src.ptr
               /\ Target(t) - MIN_ALIGN <= dst.len /\ dst.len <= src.len
          ELSE r[t].blk = BlockOf(src) /\ Target(t) <= InHand(t) /\ InHand(t) <= src.len + MIN_ALIGN

Intact(t) ==
  LET src == r[t].src
      dst == r[t].dst
  IN /\ HoldsSrc(t) => Holds(src.ptr, src.len, src.ptr)
     /\ r[t].job = "shrink" /\ r[t].blk # 0 => Holds(src.ptr, InHand(t) - MIN_ALIGN, src.ptr)
     /\ r[t].op = "realloc" /\ dst.ptr # 0 /\ pc[t] # "copy" =>
          Holds(dst.ptr, Smaller(src.len, dst.len), src.ptr)

ContentsInv ==
  /\ \A s \in live : Holds(s.ptr, s.len, s.ptr)
  /\ \A t \in Threads : Kept(t) /\ Intact(t)

\* A free, and a realloc that has something to return, has settled its old block.
Answered(t) ==
  pc[t] = "return" /\ (r[t].op = "free" \/ (r[t].op = "realloc" /\ r[t].dst.ptr # 0)) =>
    r[t].job \in {"keep", "shrink", "free"}

(* Carving works down from an end where the smallest class may start, and a  *)
(* split from one once it has cut a piece off: less than that class is left  *)
(* where nothing more fits.                                                  *)
Splitting(t) ==
  \/ pc[t] = "split"
  \/ Pushing(t) /\ r[t].job \in {"fit", "shrink"}
  \/ pc[t] = "lock" /\ r[t].job = "shrink"

EndAligned(t) ==
  /\ Carving(t) => r[t].end % align_of_bin(0) = 0
  /\ Splitting(t) /\ r[t].iter # 0 => r[t].top % align_of_bin(0) = 0

-----------------------------------------------------------------------------
(* The four, computed from the state.                                      *)

IdOf(s) ==
  CASE s.owner[1] = "bin" -> BinId(s.owner[2], s.lo)
    [] s.owner[1] = "live" -> LiveId([ptr |-> s.lo + MIN_ALIGN, len |-> s.hi - s.lo - MIN_ALIGN])
    [] OTHER -> s.owner

OwnNow ==
  LET spans == Spans
      Over(a) == {s \in spans : s.lo <= a /\ a < s.hi}
  IN [a \in Granules |-> IF Over(a) = {} THEN LostId ELSE IdOf(CHOOSE s \in Over(a) : TRUE)]

StartsNow == {s.lo : s \in {x \in Spans : x.owner[1] \notin {"gap", "bump"}}}
CountNow == [k \in Bins |-> Len(FreeSeq(k))]
FromTheEnd(list) == [i \in 0 .. Len(list) |-> IF i = 0 THEN 0 ELSE list[Len(list) + 1 - i]]
ListNow == [k \in Bins |-> FromTheEnd(FreeSeq(k))]

(* The inductive invariant holds of the four that the state determines: every *)
(* granule has one owner, every list holds free blocks of its bin, every call *)
(* in progress holds what its next step uses, and payload is as its owner     *)
(* left it.                                                                   *)
HeapInvNow ==
  /\ ContentsInv /\ \A t \in Threads : Answered(t) /\ EndAligned(t)
  /\ IF booted
     THEN LET own == OwnNow st == StartsNow el == ListNow n == CountNow IN
            /\ head \in [Bins -> Nat] /\ st \subseteq Granules \ {0}
            /\ Lists(own, st, el, n) /\ LiveSlices(own, st) /\ Room(own, st)
            /\ \A t \in Threads : Thread(own, st, el, n, t)
     ELSE Preparing
=============================================================================
