------------------------- MODULE HeapSafety_proofs --------------------------
(***************************************************************************)
(* What the inductive invariant says of the heap: the safety properties of *)
(* CadAllocSafety, for every configuration and any number of threads.      *)
(***************************************************************************)
EXTENDS Heap_proofs, SequenceTheorems

-----------------------------------------------------------------------------
(* What a step may write.                                                  *)

\* What a call may write on: what it is about to give away or has just taken,
\* and of its block the header and what it cuts off.
Touchable(own, t, a) ==
  \/ own[a] \in {GapId(t), PieceId(t)}
  \/ FitTake(t) /\ \E b : own[a] = BinId(oversize_bin, b)
  \/ own[a] = DstId(t) /\ pc[t] \in {"copy", "return"}
  \/ own[a] = BlockId(t) /\ (a = r[t].blk \/ r'[t].top <= a)

Unwritten(own, t) ==
  \A a \in Granules : Touchable(own, t, a) \/ (word0'[a] = word0[a] /\ word1'[a] = word1[a])

Writes(t) ==
  \/ PushStore(t) \/ Stamp(t) \/ OverStamp(t) \/ SplitDone(t) \/ FreeStamp(t) \/ OverPush(t)
  \/ CarveGap(t) \/ SplitCarve(t) \/ FitTake(t) \/ Copy(t) \/ Return(t)

\* Only these steps write.
LEMMA OnlyWritesWrite ==
  ASSUME NEW t \in Threads, Call(t) \/ Step(t), ~Writes(t)
  PROVE  word0' = word0 /\ word1' = word1
BY DEF Call, Step, Swap, Writes, AllocCall, FreeCall, FreeAgain, ReallocCall, MayCall, Lock, Unlock,
     PushLoad, PushRetry, PushCas, PopEmpty, PopLoad, PopNext, PopRetry, PopCas,
     Got, RefillFixed, Bump, FitHead, FitSkip, RefillOversize,
     ReallocKeep, ReallocShrink, ReallocGrow, FreeLoad, memory

\* Every granule of the payload of a slice is its owner's.
LEMMA PayloadOwned ==
  ASSUME NEW own, NEW st, NEW id, NEW s \in SliceSet, SliceHeld(own, st, id, s),
         NEW a \in PayloadOf(s.ptr, s.len)
  PROVE  a \in Granules /\ own[a] = id /\ a # BlockOf(s)
<1>1. PICK b, size, ptr, len : b = BlockOf(s) /\ size = s.len + MIN_ALIGN /\ ptr = s.ptr /\ len = s.len
  OBVIOUS
<1>2. /\ b \in Nat /\ size \in Nat /\ len \in Nat /\ ptr = b + MIN_ALIGN /\ size = len + MIN_ALIGN
      /\ Block(own, st, id, b, b + size)
  BY <1>1, SliceFacts
<1>3. MIN_ALIGN \in Nat \ {0} /\ a \in Granules /\ a \in Int /\ ptr <= a /\ a < ptr + len
  BY <1>1, HeapBounds DEF PayloadOf
<1>4. b < a /\ a < b + size
  BY <1>2, <1>3
<1>5. own[a] = id
  BY <1>2, <1>3, <1>4 DEF Block, Held
<1> QED BY <1>1, <1>3, <1>4, <1>5

\* A store into one granule.
LEMMA OneStore ==
  ASSUME NEW own, NEW t, NEW b \in Granules, Touchable(own, t, b), NEW v, NEW w,
         word0' = word0 \/ word0' = [word0 EXCEPT ![b] = v],
         word1' = word1 \/ word1' = [word1 EXCEPT ![b] = w],
         word0 \in [Granules -> Int], word1 \in [Granules -> Int]
  PROVE  Unwritten(own, t)
<1>1. \A a \in Granules : a # b => word0'[a] = word0[a] /\ word1'[a] = word1[a]
  OBVIOUS
<1> QED BY <1>1 DEF Unwritten

(* A step of a call writes only there.                                      *)
LEMMA StepWrites ==
  ASSUME SafeUse, NEW own, NEW st, NEW el, NEW n, HInv(own, st, el, n), booted, LInv,
         NEW t \in Threads, Step(t)
  PROVE  Unwritten(own, t)
<1> USE DEF control, memory, client, setup
<1>1. /\ pc[t] \in Labels /\ Typed(r[t])
      /\ Hands(own, st, t) /\ Moving(own, st, t) /\ Place(t)
      /\ JobInPlace(t) /\ FixedBinOnly(t)
      /\ pc \in [Threads -> Labels] /\ DOMAIN r = Threads
      /\ word0 \in [Granules -> Int] /\ word1 \in [Granules -> Int]
  BY Here
<1>2. CASE ~Writes(t)
  BY <1>2, OnlyWritesWrite DEF Unwritten
<1>3. CASE Stamp(t) \/ OverStamp(t) \/ SplitDone(t) \/ FreeStamp(t) \/ OverPush(t)
  <2>1. r[t].blk # 0
    BY <1>1, <1>3 DEF Stamp, OverStamp, SplitDone, FreeStamp, OverPush, Place, Found, SplitBlock, Freeing
  <2>2. PICK b : b = r[t].blk
    OBVIOUS
  <2>3. b \in Granules /\ Touchable(own, t, b)
    BY <1>1, <2>1, <2>2, InHandFacts DEF Touchable
  <2>4. \E v, w : /\ word0' = word0 \/ word0' = [word0 EXCEPT ![b] = v]
                  /\ word1' = word1 \/ word1' = [word1 EXCEPT ![b] = w]
    BY <1>3, <2>2 DEF Stamp, OverStamp, SplitDone, FreeStamp, OverPush
  <2> QED BY <1>1, <2>3, <2>4, OneStore
<1>4. CASE PushStore(t)
  <2>1. PICK b : b = Piece(t)
    OBVIOUS
  <2>2. FreeBlock(own, st, PushId(t), r[t].bin, b)
    BY <1>1, <1>4, <2>1 DEF PushStore, Moving, Pushing
  <2>3. b \in Granules /\ own[b] = PushId(t)
    BY <2>2, HeldFacts DEF FreeBlock, Block
  <2>4. r[t].job = "free" => b = r[t].blk
    BY <2>1 DEF Piece
  <2>5. Touchable(own, t, b)
    BY <2>3, <2>4 DEF Touchable, PushId
  <2>6. word0' = word0 /\ \E w : word1' = [word1 EXCEPT ![b] = w]
    BY <1>4, <2>1 DEF PushStore
  <2> QED BY <1>1, <2>3, <2>5, <2>6, OneStore
<1>5. CASE CarveGap(t)
  <2>1. PICK lo, hi, piece, size, k, start :
          /\ lo = r[t].lo /\ hi = r[t].end
          /\ piece = largest_carvable(hi, hi - lo) /\ size = piece.size /\ k = piece.bin
          /\ start = hi - size
          /\ Held(own, st, GapId(t), lo, hi) /\ lo < hi
          /\ lo \in Nat \ {0} /\ hi \in Nat /\ hi <= heap_end /\ hi % MIN_ALIGN = 0 /\ lo % MIN_ALIGN = 0
          /\ size \in Nat /\ size <= hi - lo /\ k \in Bins /\ Valid(start, size) /\ bin_index(size) = k
          /\ start \in Nat /\ lo <= start /\ start <= hi /\ start % MIN_ALIGN = 0
          /\ k # oversize_bin => k \in FixedBins
    BY <1>5, GapCut
  <2>2. start < hi
    <3>1. size >= LNR_FLOOR /\ LNR_FLOOR \in Nat \ {0}
      BY <2>1, GeoConstants, CadAssumption DEF Valid
    <3> QED BY <2>1, <3>1
  <2>3. start \in Granules
    BY <2>1, <2>2, GranuleAt, HeapBounds
  <2>4. own[start] = GapId(t)
    BY <2>1, <2>2, <2>3 DEF Held
  <2>5. \E v, w : /\ word0' = [word0 EXCEPT ![start] = v]
                  /\ word1' = word1 \/ word1' = [word1 EXCEPT ![start] = w]
    BY <1>5, <2>1 DEF CarveGap, Release
  <2> QED BY <1>1, <2>3, <2>4, <2>5, OneStore DEF Touchable
<1>6. CASE SplitCarve(t)
  <2>1. PICK lo, hi, piece, size, need, k, start, iter :
           /\ lo = r[t].blk /\ hi = r[t].top /\ need = Target(t) /\ iter = r[t].iter
           /\ piece = largest_carvable(hi, (hi - lo) - need) /\ size = piece.size /\ k = piece.bin
           /\ start = hi - size
           /\ Held(own, st, BlockId(t), lo, hi) /\ lo \in st
           /\ lo \in Nat \ {0} /\ hi \in Nat /\ lo < hi /\ hi <= heap_end /\ hi % MIN_ALIGN = 0
           /\ lo % MIN_ALIGN = 0
           /\ need \in Nat /\ need > 0 /\ need <= hi - lo /\ lo % align_of_bin(bin_index(hi - lo)) = 0
           /\ size \in Nat /\ size <= (hi - lo) - need /\ k \in Bins /\ Valid(start, size)
           /\ bin_index(size) = k
           /\ start \in Nat /\ lo < start /\ start <= hi /\ need <= start - lo
           /\ k # oversize_bin => k \in FixedBins
    BY <1>6, SplitCut
  <2>2. start < hi
    <3>1. size >= LNR_FLOOR /\ LNR_FLOOR \in Nat \ {0}
      BY <2>1, GeoConstants, CadAssumption DEF Valid
    <3> QED BY <2>1, <3>1
  <2>3. start % MIN_ALIGN = 0
    <3>1. size % MIN_ALIGN = 0
      BY <2>1 DEF Valid
    <3> QED BY <2>1, <3>1, HeapBounds, ModSum, ModGap
  <2>4. start \in Granules
    BY <2>1, <2>2, <2>3, GranuleAt, HeapBounds
  <2>5. own[start] = BlockId(t)
    BY <2>1, <2>2, <2>4 DEF Held
  <2>6. /\ r'[t].top = start
        /\ \E v, w : /\ word0' = [word0 EXCEPT ![start] = v]
                     /\ word1' = word1 \/ word1' = [word1 EXCEPT ![start] = w]
    <3>1. largest_carvable(r[t].top, InHand(t) - Target(t)) = piece
      BY <2>1 DEF InHand
    <3>2. r' = [r EXCEPT ![t].top = start, ![t].iter = @ + 1, ![t].bin = piece.bin]
          /\ Release(t, start, piece)
      BY <1>6, <2>1, <3>1 DEF SplitCarve
    <3> QED BY <1>1, <3>2, Fields DEF Release, Typed
  <2>7. Touchable(own, t, start)
    BY <2>1, <2>5, <2>6 DEF Touchable
  <2> QED BY <1>1, <2>4, <2>6, <2>7, OneStore
<1>7. CASE FitTake(t)
  <2>1. PICK k : k = oversize_bin
    OBVIOUS
  <2>2. k \in Bins /\ Lists(own, st, el, n) /\ n \in [Bins -> Nat]
    BY <2>1, OversizeIsABin DEF HInv, Types
  <2>3. PICK j \in 0 .. n[k] : r[t].prev = IF j = n[k] THEN 0 ELSE el[k][j + 1]
    <3>1. Fitting(el, n, t)
      BY Here
    <3> QED BY <1>7, <2>1, <3>1 DEF Fitting, FitTake
  <2>4. CASE r[t].prev = 0
    BY <1>7, <2>4 DEF FitTake, Unwritten
  <2>5. CASE r[t].prev # 0
    <3>1. PICK p : p = r[t].prev
      OBVIOUS
    <3>2. j + 1 \in 1 .. n[k]
      <4>1. PICK q \in Nat : q = n[k]
        BY <2>2
      <4> QED BY <2>3, <2>5, <4>1
    <3>3. p = el[k][j + 1]
      BY <2>3, <2>5, <3>1
    <3>4. p \in Granules /\ own[p] = BinId(k, p)
      BY <2>2, <3>2, <3>3, ListBlock
    <3>5. word0' = word0 /\ \E w : word1' = [word1 EXCEPT ![p] = w]
      BY <1>7, <2>5, <3>1 DEF FitTake
    <3>6. Touchable(own, t, p)
      BY <1>7, <2>1, <3>4 DEF Touchable
    <3> QED BY <1>1, <3>4, <3>5, <3>6, OneStore
  <2> QED BY <2>4, <2>5
<1>8. CASE Copy(t) \/ Return(t)
  <2>1. PICK s : s = r[t].dst
    OBVIOUS
  <2>2. s \in SliceSet /\ s.len \in Int /\ s.ptr \in Int
    BY <1>1, <2>1 DEF Typed, SliceSet
  <2>3. \A a \in Granules : a \notin PayloadOf(s.ptr, s.len) =>
                              word0'[a] = word0[a] /\ word1'[a] = word1[a]
    <3>1. CASE Return(t)
      BY <2>1, <3>1 DEF Return
    <3>2. CASE Copy(t)
      <4>1. PICK len : len = Smaller(r[t].usable, s.len)
        OBVIOUS
      <4>2. len \in Int /\ len <= s.len
        BY <1>1, <2>2, <4>1 DEF Smaller, Typed
      <4>3. \A a \in Granules : a \notin PayloadOf(s.ptr, len) =>
                                  word0'[a] = word0[a] /\ word1'[a] = word1[a]
        BY <2>1, <3>2, <4>1 DEF Copy
      <4>4. PayloadOf(s.ptr, len) \subseteq PayloadOf(s.ptr, s.len)
        <5>1. \A a \in Granules : a \in Int
          BY HeapBounds
        <5> QED BY <2>2, <4>2, <5>1 DEF PayloadOf
      <4> QED BY <4>3, <4>4
    <3> QED BY <1>8, <3>1, <3>2
  <2>4. pc[t] \in {"copy", "return"}
    BY <1>8 DEF Copy, Return
  <2>5. \A a \in PayloadOf(s.ptr, s.len) : Touchable(own, t, a)
    <3>1. CASE s.ptr = 0
      <4>1. s = NullSlice
        BY <1>1, <2>1, <3>1 DEF Hands
      <4>2. PayloadOf(s.ptr, s.len) = {}
        <5>1. \A a \in Granules : a \in Int
          BY HeapBounds
        <5> QED BY <4>1, <5>1 DEF PayloadOf, NullSlice
      <4> QED BY <4>2
    <3>2. CASE s.ptr # 0
      <4>1. SliceHeld(own, st, DstId(t), s)
        BY <1>1, <2>1, <3>2 DEF Hands
      <4>2. \A a \in PayloadOf(s.ptr, s.len) : own[a] = DstId(t)
        BY <2>2, <4>1, PayloadOwned
      <4> QED BY <2>4, <4>2 DEF Touchable
    <3> QED BY <3>1, <3>2
  <2> QED BY <2>3, <2>5 DEF Unwritten
<1> QED BY <1>2, <1>3, <1>4, <1>5, <1>6, <1>7, <1>8 DEF Writes

-----------------------------------------------------------------------------
(* Contents.                                                               *)

\* What Holds says of granules that a step leaves alone.
LEMMA HoldsStays ==
  ASSUME NEW ptr, NEW len, NEW owner, Holds(ptr, len, owner),
         \A a \in PayloadOf(ptr, len) : word0'[a] = word0[a] /\ word1'[a] = word1[a]
  PROVE  Holds(ptr, len, owner)'
BY DEF Holds, PayloadOf

\* Of a shorter payload.
LEMMA HoldsLess ==
  ASSUME NEW ptr \in Int, NEW len \in Int, NEW less \in Int, less <= len, NEW owner,
         Holds(ptr, len, owner)
  PROVE  Holds(ptr, less, owner)
<1>1. \A a \in Granules : a \in Int
  BY HeapBounds
<1> QED BY <1>1 DEF Holds, PayloadOf

\* Which owners a call does not write on.
LEMMA Spared ==
  ASSUME NEW own, NEW t \in Threads, Unwritten(own, t), NEW id,
         id \in {SrcId(t)} \/ (\E s : id = LiveId(s)) \/ (\E u \in Threads \ {t} : id \in MyIds(u))
           \/ (id = DstId(t) /\ pc[t] \notin {"copy", "return"})
  PROVE  \A a \in Granules : own[a] = id => word0'[a] = word0[a] /\ word1'[a] = word1[a]
<1>1. id \notin {GapId(t), PieceId(t), BlockId(t)}
  BY IdsDiffer DEF MyIds
<1>2. \A k, b : id # BinId(k, b)
  <2>1. ASSUME NEW s, id = LiveId(s) PROVE \A k, b : id # BinId(k, b)
    BY <2>1, IdsDiffer
  <2>2. ASSUME NEW u \in Threads, id \in MyIds(u) PROVE \A k, b : id # BinId(k, b)
    BY <2>2, IdsDiffer
  <2>3. SrcId(t) \in MyIds(t) /\ DstId(t) \in MyIds(t)
    BY DEF MyIds
  <2> QED BY <2>1, <2>2, <2>3
<1>3. id = DstId(t) => pc[t] \notin {"copy", "return"}
  BY IdsDiffer DEF MyIds
<1> QED BY <1>1, <1>2, <1>3 DEF Unwritten, Touchable

\* A slice that is held keeps its payload.
LEMMA SliceStays ==
  ASSUME NEW own, NEW st, NEW id, NEW s \in SliceSet, SliceHeld(own, st, id, s),
         \A a \in Granules : own[a] = id => word0'[a] = word0[a] /\ word1'[a] = word1[a],
         NEW len \in Int, len <= s.len, NEW owner, Holds(s.ptr, len, owner)
  PROVE  Holds(s.ptr, len, owner)'
<1>1. s.ptr \in Int /\ s.len \in Int /\ \A a \in Granules : a \in Int
  BY HeapBounds DEF SliceSet
<1>2. PayloadOf(s.ptr, len) \subseteq PayloadOf(s.ptr, s.len)
  BY <1>1 DEF PayloadOf
<1>3. \A a \in PayloadOf(s.ptr, s.len) : a \in Granules /\ own[a] = id
  BY PayloadOwned
<1> QED BY <1>2, <1>3, HoldsStays

\* And so does what is left of a block that is being cut.
LEMMA BlockStays ==
  ASSUME NEW own, NEW st, NEW id, NEW b, NEW top, Block(own, st, id, b, top),
         NEW hi \in Int, hi <= top, NEW owner,
         \A a \in Granules : own[a] = id /\ a # b /\ a < hi => word0'[a] = word0[a] /\ word1'[a] = word1[a],
         Holds(b + MIN_ALIGN, hi - b - MIN_ALIGN, owner)
  PROVE  Holds(b + MIN_ALIGN, hi - b - MIN_ALIGN, owner)'
<1>1. b \in Nat /\ top \in Nat /\ MIN_ALIGN \in Nat \ {0} /\ \A a \in Granules : a \in Int
  BY HeldFacts, HeapBounds DEF Block
<1>2. ASSUME NEW a \in PayloadOf(b + MIN_ALIGN, hi - b - MIN_ALIGN)
      PROVE  word0'[a] = word0[a] /\ word1'[a] = word1[a]
  <2>1. a \in Granules /\ a \in Int /\ b + MIN_ALIGN <= a /\ a < (b + MIN_ALIGN) + (hi - b - MIN_ALIGN)
    BY <1>1 DEF PayloadOf
  <2>2. b < a /\ a < hi /\ b <= a /\ a < top
    BY <1>1, <2>1
  <2>3. own[a] = id
    BY <2>1, <2>2 DEF Block, Held
  <2> QED BY <2>1, <2>2, <2>3
<1> QED BY <1>2, HoldsStays

(* The slices their callers own.                                            *)
LEMMA LiveStay ==
  ASSUME SafeUse, NEW own, NEW st, NEW el, NEW n, HInv(own, st, el, n), ContentsInv,
         NEW t \in Threads, Unwritten(own, t), NEW s \in live
  PROVE  Holds(s.ptr, s.len, s.ptr)'
<1>1. s \in SliceSet /\ SliceHeld(own, st, LiveId(s), s) /\ Holds(s.ptr, s.len, s.ptr)
  BY DEF HInv, Types, LiveSlices, ContentsInv
<1>2. s.len \in Int
  BY <1>1 DEF SliceSet
<1>3. \A a \in Granules : own[a] = LiveId(s) => word0'[a] = word0[a] /\ word1'[a] = word1[a]
  BY Spared
<1> QED BY <1>1, <1>2, <1>3, SliceStays

(* The calls of the other threads.                                          *)
LEMMA OthersIntact ==
  ASSUME SafeUse, NEW own, NEW st, NEW el, NEW n, HInv(own, st, el, n), LInv, ContentsInv,
         NEW t \in Threads, Unwritten(own, t), NEW u \in Threads \ {t},
         pc'[u] = pc[u], r'[u] = r[u]
  PROVE  Kept(u)' /\ Intact(u)'
<1>1. /\ Typed(r[u]) /\ Hands(own, st, u) /\ Kept(u) /\ Intact(u)
  BY Here DEF ContentsInv
<1>2. Kept(u)'
  BY <1>1 DEF Kept, Target, InHand, BlockOf
<1>3. PICK src, dst, b, top : src = r[u].src /\ dst = r[u].dst /\ b = r[u].blk /\ top = r[u].top
  OBVIOUS
<1>4. /\ src \in SliceSet /\ dst \in SliceSet /\ src.ptr \in Int /\ src.len \in Int
      /\ dst.ptr \in Int /\ dst.len \in Int /\ b \in Int /\ top \in Int
  BY <1>1, <1>3 DEF Typed, SliceSet
<1>5. \A id \in MyIds(u) : \A a \in Granules :
        own[a] = id => word0'[a] = word0[a] /\ word1'[a] = word1[a]
  BY Spared
<1>6. SrcId(u) \in MyIds(u) /\ DstId(u) \in MyIds(u) /\ BlockId(u) \in MyIds(u)
  BY DEF MyIds
<1>7. (HoldsSrc(u) => Holds(src.ptr, src.len, src.ptr))'
  <2> SUFFICES ASSUME HoldsSrc(u)' PROVE Holds(src.ptr, src.len, src.ptr)'
    OBVIOUS
  <2>1. HoldsSrc(u)
    BY DEF HoldsSrc
  <2>2. SliceHeld(own, st, SrcId(u), src) /\ Holds(src.ptr, src.len, src.ptr)
    BY <1>1, <1>3, <2>1 DEF Hands, Intact
  <2> QED BY <1>4, <1>5, <1>6, <2>2, SliceStays
<1>8. (r[u].job = "shrink" /\ r[u].blk # 0 => Holds(src.ptr, (top - b) - MIN_ALIGN, src.ptr))'
  <2> SUFFICES ASSUME r[u].job = "shrink", b # 0
               PROVE  Holds(src.ptr, (top - b) - MIN_ALIGN, src.ptr)'
    BY <1>3
  <2>1. Holds(src.ptr, (top - b) - MIN_ALIGN, src.ptr) /\ b = src.ptr - MIN_ALIGN
    BY <1>1, <1>3 DEF Intact, Kept, BlockOf, InHand
  <2>2. Block(own, st, BlockId(u), b, top)
    BY <1>1, <1>3 DEF Hands
  <2>3. MIN_ALIGN \in Nat
    BY HeapBounds
  <2>4. src.ptr = b + MIN_ALIGN
    BY <1>4, <2>1, <2>3
  <2>5. Holds(b + MIN_ALIGN, top - b - MIN_ALIGN, src.ptr)'
    BY <1>4, <1>5, <1>6, <2>1, <2>2, <2>4, BlockStays
  <2> QED BY <2>4, <2>5
<1>9. (r[u].op = "realloc" /\ dst.ptr # 0 /\ pc[u] # "copy" =>
         Holds(dst.ptr, Smaller(src.len, dst.len), src.ptr))'
  <2> SUFFICES ASSUME r[u].op = "realloc", dst.ptr # 0, pc[u] # "copy"
               PROVE  Holds(dst.ptr, Smaller(src.len, dst.len), src.ptr)'
    OBVIOUS
  <2>1. PICK len : len = Smaller(src.len, dst.len)
    OBVIOUS
  <2>2. len \in Int /\ len <= dst.len
    BY <1>4, <2>1 DEF Smaller
  <2>3. SliceHeld(own, st, DstId(u), dst) /\ Holds(dst.ptr, len, src.ptr)
    BY <1>1, <1>3, <2>1 DEF Hands, Intact
  <2>4. Holds(dst.ptr, len, src.ptr)'
    BY <1>4, <1>5, <1>6, <2>2, <2>3, SliceStays
  <2> QED BY <2>1, <2>4
<1> QED BY <1>2, <1>3, <1>7, <1>8, <1>9 DEF Intact, InHand

-----------------------------------------------------------------------------
(* What a call does with its slices.                                       *)

Movers == {"fast", "slow", "hit", "over", "fit"}

\* A step that goes on with the slices it has.
Plain(t) ==
  /\ live' = live
  /\ r'[t].op = r[t].op /\ r'[t].size = r[t].size /\ r'[t].usable = r[t].usable
  /\ r'[t].src = r[t].src /\ r'[t].dst = r[t].dst
  /\ pc[t] \notin {"copy", "return"} /\ pc'[t] # "copy"
  /\ r'[t].job = r[t].job \/ (r[t].job \in Movers /\ r'[t].job \in Movers)
  /\ r[t].job = "shrink" =>
       /\ r'[t].blk = r[t].blk /\ r'[t].top \in Int /\ r'[t].top <= r[t].top
       /\ r'[t].top = r[t].top \/ Target(t) <= r'[t].top - r[t].blk

Turning(t) ==
  \/ Return(t) \/ (Unlock(t) /\ r[t].job = "shrink") \/ Got(t) \/ Copy(t) \/ FreeLoad(t)
  \/ ReallocKeep(t) \/ ReallocShrink(t) \/ ReallocGrow(t)

\* All but a few steps.
LEMMA PlainSteps ==
  ASSUME SafeUse, NEW own, NEW st, NEW el, NEW n, HInv(own, st, el, n), booted, LInv,
         NEW t \in Threads, Step(t), ~Turning(t)
  PROVE  Plain(t)
<1> USE DEF Goto, control, memory, client, setup, Movers
<1>1. /\ pc[t] \in Labels /\ Typed(r[t])
      /\ Hands(own, st, t) /\ Place(t)
      /\ JobInPlace(t) /\ FixedBinOnly(t)
      /\ pc \in [Threads -> Labels] /\ DOMAIN r = Threads
  BY Here
<1>2. DOMAIN r[t] = DOMAIN NoLocals /\ r[t].top \in Int /\ r[t].blk \in Int
  BY <1>1 DEF Typed
<1>3. CASE Lock(t)
  <2>1. pc[t] = "lock" /\ r[t].job \in {"slow", "over", "shrink", "free"}
    BY <1>1, <1>3 DEF Lock, JobInPlace
  <2>2. r' = r /\ live' = live /\ pc'[t] # "copy"
    BY <1>1, <1>3, <2>1 DEF Lock
  <2> QED BY <1>2, <2>1, <2>2 DEF Plain
<1>4. CASE Unlock(t)
  BY <1>1, <1>2, <1>4 DEF Unlock, Plain, Turning
<1>5. CASE PushLoad(t) \/ PushRetry(t)
  <2>1. (\E w : r' = [r EXCEPT ![t].old = w]) /\ live' = live
        /\ pc[t] \notin {"copy", "return"} /\ pc'[t] # "copy"
    BY <1>1, <1>5 DEF PushLoad, PushRetry
  <2> QED BY <1>1, <1>2, <2>1, Fields DEF Plain
<1>6. CASE PushStore(t) \/ Stamp(t) \/ OverStamp(t) \/ FreeStamp(t)
  <2>1. r' = r /\ live' = live /\ pc[t] \notin {"copy", "return"} /\ pc'[t] # "copy"
    BY <1>1, <1>6 DEF PushStore, Stamp, OverStamp, FreeStamp, FreeEntry
  <2> QED BY <1>2, <2>1 DEF Plain
<1>7. CASE PushCas(t)
  <2>1. r' = [r EXCEPT ![t].old = 0,
                    ![t].blk = IF r[t].job = "free" THEN 0 ELSE @,
                    ![t].top = IF r[t].job = "free" THEN 0 ELSE @]
        /\ live' = live /\ pc[t] = "push_cas" /\ pc'[t] # "copy"
    BY <1>1, <1>7 DEF PushCas, AfterPush
  <2> QED BY <1>1, <1>2, <2>1, Fields DEF Plain
<1>8. CASE PopEmpty(t) \/ PopLoad(t) \/ PopNext(t) \/ PopRetry(t)
  <2>1. Popping(t) /\ r[t].job \in {"fast", "slow"}
    BY <1>1, <1>8 DEF PopEmpty, PopLoad, PopNext, PopRetry, Popping, JobInPlace
  <2>2. live' = live /\ pc[t] \notin {"copy", "return"} /\ pc'[t] # "copy"
    BY <1>1, <1>8 DEF PopEmpty, PopLoad, PopNext, PopRetry
  <2>3. \/ r' = [r EXCEPT ![t].job = "slow"] \/ r' = r
        \/ \E w : r' = [r EXCEPT ![t].old = w]
        \/ \E w : r' = [r EXCEPT ![t].nxt = w]
        \/ r' = [r EXCEPT ![t].old = 0, ![t].nxt = 0]
    BY <1>8 DEF PopEmpty, PopLoad, PopNext, PopRetry
  <2> QED BY <1>1, <1>2, <2>1, <2>2, <2>3, Fields DEF Plain
<1>9. CASE PopCas(t)
  <2>1. r[t].job \in {"fast", "slow"} /\ pc[t] = "pop_cas"
    BY <1>1, <1>9 DEF PopCas, Popping, JobInPlace
  <2>2. PICK b, top : b = AddrOf(r[t].old) /\ top = b + bin_class(r[t].bin)
    OBVIOUS
  <2>3. r' = [r EXCEPT ![t].old = 0, ![t].nxt = 0, ![t].blk = b, ![t].top = top,
                       ![t].job = IF @ = "slow" THEN "hit" ELSE @]
        /\ live' = live /\ pc'[t] # "copy"
    BY <1>1, <1>9, <2>2 DEF PopCas
  <2> QED BY <1>1, <1>2, <2>1, <2>3, Fields DEF Plain
<1>10. CASE RefillFixed(t) \/ RefillOversize(t)
  <2>1. pc[t] \in {"refill", "fit"} /\ r[t].job \in {"slow", "over"}
    BY <1>10, RefillSame
  <2>2. PICK align, size : Refill(t, align, size) /\ live' = live
    BY <1>10 DEF RefillFixed, RefillOversize
  <2>3. PICK aligned, top : aligned = align_up(bump, align) /\ top = Wrap(aligned + size)
    OBVIOUS
  <2>4. /\ \/ r' = [r EXCEPT ![t].blk = aligned, ![t].top = top,
                             ![t].lo = bump, ![t].end = aligned, ![t].prev = 0]
           \/ r' = [r EXCEPT ![t].prev = 0]
        /\ live' = live /\ pc'[t] # "copy"
    BY <1>1, <2>2, <2>3 DEF Refill
  <2>5. r'[t].op = r[t].op /\ r'[t].size = r[t].size /\ r'[t].usable = r[t].usable
        /\ r'[t].src = r[t].src /\ r'[t].dst = r[t].dst /\ r'[t].job = r[t].job
    BY <1>1, <1>2, <2>4, Fields
  <2> QED BY <2>1, <2>4, <2>5 DEF Plain
<1>11. CASE CarveGap(t)
  <2>1. pc[t] = "gap" /\ r[t].job \in {"slow", "over"}
    BY <1>1, <1>11 DEF CarveGap, JobInPlace
  <2>2. (\E end, k : r' = [r EXCEPT ![t].end = end, ![t].bin = k]) /\ live' = live /\ pc'[t] # "copy"
    BY <1>1, <1>11 DEF CarveGap, Release
  <2> QED BY <1>1, <1>2, <2>1, <2>2, Fields DEF Plain
<1>12. CASE Bump(t)
  <2>1. pc[t] = "gap" /\ r[t].job \in {"slow", "over"}
    BY <1>1, <1>12 DEF Bump, JobInPlace
  <2>2. (\E k : r' = [r EXCEPT ![t].lo = 0, ![t].end = 0, ![t].bin = k]) /\ live' = live /\ pc'[t] # "copy"
    BY <1>1, <1>12 DEF Bump
  <2> QED BY <1>1, <1>2, <2>1, <2>2, Fields DEF Plain
<1>13. CASE FitHead(t) \/ FitSkip(t)
  <2>1. pc[t] \in {"fit_head", "fit"} /\ r[t].job = "over"
    BY <1>1, <1>13 DEF FitHead, FitSkip, JobInPlace
  <2>2. /\ \/ \E c : r' = [r EXCEPT ![t].cur = c]
           \/ \E p, c : r' = [r EXCEPT ![t].prev = p, ![t].cur = c]
        /\ live' = live /\ pc'[t] # "copy"
    BY <1>1, <1>13 DEF FitHead, FitSkip
  <2> QED BY <1>1, <1>2, <2>1, <2>2, Fields DEF Plain
<1>14. CASE FitTake(t)
  <2>1. pc[t] = "fit" /\ r[t].job = "over"
    BY <1>1, <1>14 DEF FitTake, JobInPlace
  <2>2. /\ \E b, top : r' = [r EXCEPT ![t].blk = b, ![t].top = top,
                       ![t].prev = 0, ![t].cur = 0, ![t].job = "fit"]
        /\ live' = live /\ pc'[t] # "copy"
    BY <1>1, <1>14 DEF FitTake
  <2> QED BY <1>1, <1>2, <2>1, <2>2, Fields DEF Plain
<1>15. CASE SplitCarve(t)
  <2>1. PICK lo, hi, piece, size, need, k, start, iter :
           /\ lo = r[t].blk /\ hi = r[t].top /\ need = Target(t) /\ iter = r[t].iter
           /\ piece = largest_carvable(hi, (hi - lo) - need) /\ size = piece.size /\ k = piece.bin
           /\ start = hi - size
           /\ Held(own, st, BlockId(t), lo, hi) /\ lo \in st
           /\ lo \in Nat \ {0} /\ hi \in Nat /\ lo < hi /\ hi <= heap_end /\ hi % MIN_ALIGN = 0
           /\ lo % MIN_ALIGN = 0
           /\ need \in Nat /\ need > 0 /\ need <= hi - lo /\ lo % align_of_bin(bin_index(hi - lo)) = 0
           /\ size \in Nat /\ size <= (hi - lo) - need /\ k \in Bins /\ Valid(start, size)
           /\ bin_index(size) = k
           /\ start \in Nat /\ lo < start /\ start <= hi /\ need <= start - lo
           /\ k # oversize_bin => k \in FixedBins
    BY <1>15, SplitCut
  <2>2. largest_carvable(r[t].top, InHand(t) - Target(t)) = piece
    BY <2>1 DEF InHand
  <2>3. r' = [r EXCEPT ![t].top = start, ![t].iter = @ + 1, ![t].bin = piece.bin]
        /\ Release(t, start, piece) /\ pc[t] = "split" /\ live' = live
    BY <1>15, <2>1, <2>2 DEF SplitCarve
  <2>4. pc'[t] # "copy"
    BY <1>1, <2>3 DEF Release
  <2>5. start \in Int /\ start <= r[t].top /\ Target(t) <= start - r[t].blk
    BY <2>1
  <2> QED BY <1>1, <1>2, <2>3, <2>4, <2>5, Fields DEF Plain
<1>16. CASE SplitDone(t)
  <2>1. PICK kept, top : kept = Retained(t) /\ top = r[t].blk + kept
    OBVIOUS
  <2>2. kept \in Nat /\ Target(t) <= kept /\ kept <= InHand(t)
    BY <1>16, <2>1, KeptSize
  <2>3. r' = [r EXCEPT ![t].top = top, ![t].iter = 0] /\ pc[t] = "split" /\ live' = live
        /\ pc'[t] # "copy"
    BY <1>1, <1>16, <2>1 DEF SplitDone
  <2>4. top \in Int /\ top <= r[t].top /\ top - r[t].blk = kept
    BY <1>2, <2>1, <2>2 DEF InHand
  <2> QED BY <1>1, <1>2, <2>2, <2>3, <2>4, Fields DEF Plain
<1>17. CASE OverPush(t)
  <2>1. pc[t] = "over_push" /\ r[t].job = "free"
    BY <1>1, <1>17 DEF OverPush, JobInPlace
  <2>2. r' = [r EXCEPT ![t].blk = 0, ![t].top = 0] /\ live' = live /\ pc'[t] # "copy"
    BY <1>1, <1>17 DEF OverPush
  <2> QED BY <1>1, <1>2, <2>1, <2>2, Fields DEF Plain
<1> QED BY <1>3, <1>4, <1>5, <1>6, <1>7, <1>8, <1>9, <1>10, <1>11, <1>12, <1>13, <1>14, <1>15,
           <1>16, <1>17 DEF Step, Swap, Turning

\* What a call keeps, it keeps through a plain step.
LEMMA PlainKeeps ==
  ASSUME SafeUse, NEW own, NEW st, NEW el, NEW n, HInv(own, st, el, n), LInv, ContentsInv,
         NEW t \in Threads, Unwritten(own, t), Plain(t)
  PROVE  Kept(t)' /\ Intact(t)'
<1>1. /\ Typed(r[t]) /\ Hands(own, st, t) /\ Kept(t) /\ Intact(t)
  BY Here DEF ContentsInv
<1>2. PICK src, dst, b, top, top2 :
        /\ src = r[t].src /\ dst = r[t].dst /\ b = r[t].blk /\ top = r[t].top /\ top2 = r'[t].top
  OBVIOUS
<1>3. /\ src \in SliceSet /\ dst \in SliceSet /\ src.ptr \in Int /\ src.len \in Int
      /\ dst.ptr \in Int /\ dst.len \in Int /\ b \in Int /\ top \in Int /\ MIN_ALIGN \in Nat
  BY <1>1, <1>2, HeapBounds DEF Typed, SliceSet
<1>4. r'[t].src = src /\ r'[t].dst = dst
  BY <1>2 DEF Plain
<1>5. r[t].job # "keep" /\ r'[t].job # "keep"
  BY <1>1 DEF Kept, Plain, Movers
<1>6. r'[t].job = "shrink" =>
        /\ r[t].job = "shrink" /\ b # 0 /\ r'[t].blk = b /\ top2 \in Int /\ top2 <= top
        /\ b = src.ptr - MIN_ALIGN /\ Target(t) <= top - b /\ top - b <= src.len + MIN_ALIGN
        /\ top2 = top \/ Target(t) <= top2 - b
  BY <1>1, <1>2 DEF Kept, Plain, Movers, InHand, BlockOf
<1>7. Target(t)' = Target(t)
  BY DEF Target, Plain
<1>8. Kept(t)'
  <2>1. (r[t].op = "realloc" /\ r[t].job \in {"fast", "slow", "hit", "over", "fit"}
          => r[t].usable = src.len)'
    BY <1>1, <1>2 DEF Kept, Plain, Movers
  <2>2. r'[t].job = "shrink" =>
          /\ r'[t].blk = b /\ b # 0 /\ b = src.ptr - MIN_ALIGN
          /\ Target(t) <= top2 - b /\ top2 - b <= src.len + MIN_ALIGN
    <3> SUFFICES ASSUME r'[t].job = "shrink"
                 PROVE  /\ r'[t].blk = b /\ b # 0 /\ b = src.ptr - MIN_ALIGN
                        /\ Target(t) <= top2 - b /\ top2 - b <= src.len + MIN_ALIGN
      OBVIOUS
    <3>1. PICK need : need = Target(t)
      OBVIOUS
    <3>2. need <= top2 - b
      BY <1>6, <3>1
    <3>3. top2 - b <= src.len + MIN_ALIGN
      BY <1>3, <1>6
    <3> QED BY <1>6, <3>1, <3>2, <3>3
  <2>3. r'[t].job = "shrink" => r'[t].op = "realloc" /\ r'[t].size \in Requests
    BY <1>1, <1>6 DEF Kept, Plain
  <2> QED BY <1>2, <1>4, <1>5, <1>7, <2>1, <2>2, <2>3 DEF Kept, InHand, BlockOf
<1>9. (HoldsSrc(t) => Holds(src.ptr, src.len, src.ptr))'
  <2> SUFFICES ASSUME HoldsSrc(t)' PROVE Holds(src.ptr, src.len, src.ptr)'
    OBVIOUS
  <2>1. HoldsSrc(t)
    BY DEF HoldsSrc, Plain, Movers
  <2>2. SliceHeld(own, st, SrcId(t), src) /\ Holds(src.ptr, src.len, src.ptr)
    BY <1>1, <1>2, <2>1 DEF Hands, Intact
  <2>3. \A a \in Granules : own[a] = SrcId(t) => word0'[a] = word0[a] /\ word1'[a] = word1[a]
    BY Spared
  <2> QED BY <1>3, <2>2, <2>3, SliceStays
<1>10. r'[t].job = "shrink" => Holds(src.ptr, (top2 - b) - MIN_ALIGN, src.ptr)'
  <2> SUFFICES ASSUME r'[t].job = "shrink"
               PROVE  Holds(src.ptr, (top2 - b) - MIN_ALIGN, src.ptr)'
    OBVIOUS
  <2>1. Holds(src.ptr, (top - b) - MIN_ALIGN, src.ptr) /\ Block(own, st, BlockId(t), b, top)
    BY <1>1, <1>2, <1>6 DEF Intact, Hands, InHand
  <2>2. src.ptr = b + MIN_ALIGN
    BY <1>3, <1>6
  <2>3. Holds(b + MIN_ALIGN, top2 - b - MIN_ALIGN, src.ptr)
    <3>1. PICK len, less : len = top - b - MIN_ALIGN /\ less = top2 - b - MIN_ALIGN
      OBVIOUS
    <3>2. len \in Int /\ less \in Int /\ less <= len
      BY <1>3, <1>6, <3>1
    <3>3. Holds(src.ptr, less, src.ptr)
      BY <1>3, <2>1, <3>1, <3>2, HoldsLess
    <3> QED BY <2>2, <3>1, <3>3
  <2>4. \A a \in Granules : own[a] = BlockId(t) /\ a # b /\ a < top2 =>
                              word0'[a] = word0[a] /\ word1'[a] = word1[a]
    <3>1. BlockId(t) \notin {GapId(t), PieceId(t), DstId(t)} /\ \A k, c : BlockId(t) # BinId(k, c)
      BY IdsDiffer DEF MyIds
    <3>2. \A a \in Granules : a \in Int
      BY HeapBounds
    <3>3. \A a \in Granules : a < top2 => ~(top2 <= a)
      BY <1>6, <3>2
    <3> QED BY <1>2, <3>1, <3>3 DEF Unwritten, Touchable
  <2>5. Holds(b + MIN_ALIGN, top2 - b - MIN_ALIGN, src.ptr)'
    BY <1>6, <2>1, <2>3, <2>4, BlockStays
  <2> QED BY <2>2, <2>5
<1>11. (r[t].op = "realloc" /\ dst.ptr # 0 => Holds(dst.ptr, Smaller(src.len, dst.len), src.ptr))'
  <2> SUFFICES ASSUME r'[t].op = "realloc", dst.ptr # 0
               PROVE  Holds(dst.ptr, Smaller(src.len, dst.len), src.ptr)'
    OBVIOUS
  <2>1. PICK len : len = Smaller(src.len, dst.len)
    OBVIOUS
  <2>2. len \in Int /\ len <= dst.len
    BY <1>3, <2>1 DEF Smaller
  <2>3. SliceHeld(own, st, DstId(t), dst) /\ Holds(dst.ptr, len, src.ptr)
    BY <1>1, <1>2, <2>1 DEF Hands, Intact, Plain
  <2>4. \A a \in Granules : own[a] = DstId(t) => word0'[a] = word0[a] /\ word1'[a] = word1[a]
    BY Spared DEF Plain
  <2>5. Holds(dst.ptr, len, src.ptr)'
    BY <1>3, <2>2, <2>3, <2>4, SliceStays
  <2> QED BY <2>1, <2>5
<1> QED BY <1>2, <1>4, <1>6, <1>8, <1>9, <1>10, <1>11 DEF Intact, InHand

\* Steps that write nothing.
LEMMA StillHolds ==
  ASSUME word0' = word0, word1' = word1, NEW ptr, NEW len, NEW owner, Holds(ptr, len, owner)
  PROVE  Holds(ptr, len, owner)'
BY HoldsStays

\* A shrunk block becomes the slice returned.
LEMMA ShrunkKeeps ==
  ASSUME SafeUse, NEW own, NEW st, NEW el, NEW n, HInv(own, st, el, n), LInv, ContentsInv,
         NEW t \in Threads, Unlock(t), r[t].job = "shrink"
  PROVE  Kept(t)' /\ Intact(t)'
<1> USE DEF Goto, memory, client, setup
<1>1. /\ Typed(r[t]) /\ Kept(t) /\ Intact(t) /\ Place(t)
      /\ pc \in [Threads -> Labels] /\ DOMAIN r = Threads
  BY Here DEF ContentsInv
<1>2. PICK src, b, top, dst :
        /\ src = r[t].src /\ b = r[t].blk /\ top = r[t].top /\ dst = SliceOf(b, top - b)
  OBVIOUS
<1>3. /\ src.ptr \in Int /\ src.len \in Int /\ b \in Int /\ top \in Int /\ MIN_ALIGN \in Nat
  BY <1>1, <1>2, HeapBounds DEF Typed, SliceSet
<1>4. b # 0 /\ pc[t] = "unlock"
  BY <1>1, <1>2 DEF Unlock, Kept
<1>5. /\ b = src.ptr - MIN_ALIGN /\ Target(t) <= top - b /\ top - b <= src.len + MIN_ALIGN
      /\ Holds(src.ptr, (top - b) - MIN_ALIGN, src.ptr)
  BY <1>1, <1>2, <1>4 DEF Kept, Intact, InHand, BlockOf
<1>6. /\ r' = [r EXCEPT ![t].dst = dst, ![t].blk = 0, ![t].top = 0] /\ pc'[t] = "return"
      /\ word0' = word0 /\ word1' = word1
  BY <1>1, <1>2, <1>4 DEF Unlock
<1>7. /\ r'[t].src = src /\ r'[t].dst = dst /\ r'[t].blk = 0 /\ r'[t].job = "shrink"
      /\ r'[t].size = r[t].size /\ r'[t].op = r[t].op
  BY <1>1, <1>2, <1>6, Fields DEF Typed
<1>8. dst.ptr = src.ptr /\ dst.len = (top - b) - MIN_ALIGN
  BY <1>2, <1>3, <1>5 DEF SliceOf
<1>9. Target(t)' = Target(t) /\ request_block_size(r[t].size) \in Nat
  <2>1. r[t].size \in Requests
    BY <1>1, <1>4 DEF Place, Served
  <2> QED BY <1>7, <2>1, RequestOk DEF Target
<1>10. Target(t) - MIN_ALIGN <= dst.len /\ dst.len <= src.len
  <2>1. PICK need \in Nat : need = Target(t)
    BY <1>9 DEF Target
  <2> QED BY <1>3, <1>5, <1>8, <2>1
<1>11. Kept(t)'
  <2>1. r[t].op = "realloc" /\ r[t].size \in Requests
    BY <1>1 DEF Kept
  <2> QED BY <1>6, <1>7, <1>8, <1>9, <1>10, <2>1 DEF Kept
<1>12. Smaller(src.len, dst.len) = dst.len
  BY <1>3, <1>8, <1>10 DEF Smaller
<1>13. Holds(dst.ptr, Smaller(src.len, dst.len), src.ptr)'
  BY <1>5, <1>6, <1>8, <1>12, StillHolds
<1> QED BY <1>7, <1>11, <1>13 DEF Intact, HoldsSrc

\* The three ways a realloc goes on from the header of its block.
LEMMA ReallocKeeps ==
  ASSUME SafeUse, NEW own, NEW st, NEW el, NEW n, HInv(own, st, el, n), LInv, ContentsInv,
         NEW t \in Threads, ReallocKeep(t) \/ ReallocShrink(t) \/ ReallocGrow(t)
  PROVE  Kept(t)' /\ Intact(t)'
<1> USE DEF Goto, memory, client, setup
<1>1. /\ Typed(r[t]) /\ Kept(t) /\ Intact(t) /\ Place(t) /\ Hands(own, st, t)
      /\ pc \in [Threads -> Labels] /\ DOMAIN r = Threads
  BY Here DEF ContentsInv
<1>2. PICK src, cur : src = r[t].src /\ cur = CurSize(t)
  OBVIOUS
<1>3. /\ pc[t] = "realloc_load" /\ r[t].op = "realloc" /\ r[t].job = "none" /\ r[t].size \in Requests
      /\ r[t].dst = NullSlice /\ src.ptr # 0 /\ r[t].blk = 0
  <2>1. pc[t] = "realloc_load"
    BY DEF ReallocKeep, ReallocShrink, ReallocGrow
  <2> QED BY <1>1, <1>2, <2>1 DEF Place, Serving
<1>4. HoldsSrc(t)
  BY <1>2, <1>3 DEF HoldsSrc
<1>5. SliceHeld(own, st, SrcId(t), src) /\ Holds(src.ptr, src.len, src.ptr) /\ src \in SliceSet
  BY <1>1, <1>2, <1>4 DEF Hands, Intact, Typed
<1>6. cur = src.len + MIN_ALIGN /\ src = SliceOf(BlockOf(src), cur) /\ src.len \in Nat /\ MIN_ALIGN \in Nat
      /\ src.ptr \in Int
  BY <1>2, <1>5, SliceFacts, HeapBounds DEF CurSize, SliceSet
<1>7. word0' = word0 /\ word1' = word1
  BY DEF ReallocKeep, ReallocShrink, ReallocGrow
<1>8. PICK need \in Nat : need = Target(t) /\ need = request_block_size(r[t].size)
  BY <1>3, RequestOk DEF Target
<1>9. CASE ReallocKeep(t)
  <2>1. r' = [r EXCEPT ![t].job = "keep", ![t].dst = src] /\ pc'[t] = "return"
    BY <1>1, <1>2, <1>6, <1>9 DEF ReallocKeep
  <2>2. r'[t].job = "keep" /\ r'[t].dst = src /\ r'[t].src = src /\ r'[t].op = "realloc"
        /\ r'[t].size = r[t].size
    BY <1>1, <1>2, <1>3, <2>1, Fields DEF Typed
  <2>3. Smaller(src.len, src.len) = src.len
    BY <1>6 DEF Smaller
  <2>4. Holds(src.ptr, src.len, src.ptr)'
    BY <1>5, <1>7, StillHolds
  <2>5. Kept(t)'
    BY <1>3, <2>1, <2>2 DEF Kept
  <2> QED BY <2>2, <2>3, <2>4, <2>5 DEF Intact, HoldsSrc
<1>10. CASE ReallocShrink(t)
  <2>1. PICK b, top : b = BlockOf(src) /\ top = b + cur
    OBVIOUS
  <2>2. r' = [r EXCEPT ![t].job = "shrink", ![t].blk = b, ![t].top = top] /\ pc'[t] = "lock"
        /\ cur >= need
    BY <1>1, <1>2, <1>8, <1>10, <2>1 DEF ReallocShrink
  <2>3. /\ r'[t].job = "shrink" /\ r'[t].dst = NullSlice /\ r'[t].src = src /\ r'[t].op = "realloc"
        /\ r'[t].blk = b /\ r'[t].top = top /\ r'[t].size = r[t].size
    BY <1>1, <1>2, <1>3, <2>2, Fields DEF Typed
  <2>4. b \in Nat \ {0} /\ top - b = cur /\ cur - MIN_ALIGN = src.len
    <3>1. b \in Nat \ {0}
      BY <1>5, <2>1, SliceFacts
    <3> QED BY <1>6, <2>1, <3>1
  <2>5. Target(t)' = need
    BY <1>8, <2>3 DEF Target
  <2>6. need <= cur /\ cur <= src.len + MIN_ALIGN
    BY <1>6, <1>8, <2>2
  <2>7. Kept(t)'
    BY <1>3, <2>1, <2>3, <2>4, <2>5, <2>6 DEF Kept, InHand
  <2>8. Holds(src.ptr, src.len, src.ptr)'
    BY <1>5, <1>7, StillHolds
  <2> QED BY <2>3, <2>4, <2>7, <2>8 DEF Intact, HoldsSrc, InHand, NullSlice
<1>11. CASE ReallocGrow(t)
  <2>1. PICK job, k, usable, label : /\ job = AllocJob(r[t].size) /\ k = RequestBin(r[t].size)
                                     /\ usable = cur - MIN_ALIGN /\ label = AllocEntry(r[t].size)
    OBVIOUS
  <2>2. r' = [r EXCEPT ![t].job = job, ![t].bin = k, ![t].usable = usable]
    BY <1>2, <1>11, <2>1 DEF ReallocGrow
  <2>3. job \in {"fast", "over"} /\ usable = src.len
    BY <1>6, <2>1 DEF AllocJob
  <2>4. r'[t].job = job /\ r'[t].usable = usable /\ r'[t].dst = NullSlice /\ r'[t].src = src
    BY <1>1, <1>2, <1>3, <2>2, Fields DEF Typed
  <2>5. Holds(src.ptr, src.len, src.ptr)'
    BY <1>5, <1>7, StillHolds
  <2> QED BY <2>3, <2>4, <2>5 DEF Kept, Intact, NullSlice
<1> QED BY <1>9, <1>10, <1>11

\* Got and FreeLoad.
LEMMA LoadsKeep ==
  ASSUME SafeUse, NEW own, NEW st, NEW el, NEW n, HInv(own, st, el, n), LInv, ContentsInv,
         NEW t \in Threads, Got(t) \/ FreeLoad(t)
  PROVE  Kept(t)' /\ Intact(t)'
<1> USE DEF Goto, memory, client, setup
<1>1. /\ Typed(r[t]) /\ Kept(t) /\ Intact(t) /\ Place(t) /\ Hands(own, st, t)
      /\ pc \in [Threads -> Labels] /\ DOMAIN r = Threads
  BY Here DEF ContentsInv
<1>2. PICK src, dst : src = r[t].src /\ dst = r[t].dst
  OBVIOUS
<1>3. word0' = word0 /\ word1' = word1
  BY DEF Got, FreeLoad
<1>4. CASE Got(t)
  <2>1. pc[t] = "got" /\ r[t].job \in {"fast", "slow", "hit", "over", "fit"}
    BY <1>1, <1>4 DEF Got, Place
  <2>2. PICK b, s : b = r[t].blk /\ s = IF b = 0 THEN NullSlice ELSE SliceOf(b, header_size(At(word0, b)))
    OBVIOUS
  <2>3. r' = [r EXCEPT ![t].dst = s, ![t].blk = 0, ![t].top = 0] /\ pc'[t] = AfterGot(r[t].op, b)
    BY <1>1, <1>4, <2>2 DEF Got
  <2>4. /\ r'[t].src = src /\ r'[t].dst = s /\ r'[t].job = r[t].job /\ r'[t].op = r[t].op
        /\ r'[t].usable = r[t].usable
    BY <1>1, <1>2, <2>3, Fields DEF Typed
  <2>5. Kept(t)'
    BY <1>1, <1>2, <2>1, <2>4 DEF Kept
  <2>6. r[t].op = "realloc" /\ s.ptr # 0 => pc'[t] = "copy"
    BY <2>2, <2>3 DEF AfterGot, NullSlice
  <2>7. HoldsSrc(t)' => HoldsSrc(t)
    BY <1>2, <2>4 DEF HoldsSrc
  <2>8. (HoldsSrc(t) => Holds(src.ptr, src.len, src.ptr))'
    BY <1>1, <1>2, <1>3, <2>7, StillHolds DEF Intact
  <2> QED BY <2>1, <2>4, <2>5, <2>6, <2>8 DEF Intact
<1>5. CASE FreeLoad(t)
  <2>1. pc[t] = "free_load" /\ pc'[t] # "copy"
    BY <1>1, <1>5 DEF FreeLoad
  <2>2. PICK b, size, k : b = BlockOf(r[t].src) /\ size = header_size(At(word0, b)) /\ k = bin_index(size)
    OBVIOUS
  <2>3. PICK top : top = b + size
    OBVIOUS
  <2>4. \/ r' = [r EXCEPT ![t].job = "free"]
        \/ r' = [r EXCEPT ![t].job = "free", ![t].blk = b, ![t].top = top, ![t].bin = k]
    BY <1>5, <2>2, <2>3 DEF FreeLoad
  <2>5. r'[t].src = src /\ r'[t].dst = dst /\ r'[t].job = "free" /\ r'[t].op = r[t].op
    BY <1>1, <1>2, <2>4, Fields DEF Typed
  <2>6. (r[t].op = "realloc" /\ dst.ptr # 0 => Holds(dst.ptr, Smaller(src.len, dst.len), src.ptr))'
    BY <1>1, <1>2, <1>3, <2>1, <2>5, StillHolds DEF Intact
  <2> QED BY <2>5, <2>6 DEF Kept, Intact, HoldsSrc
<1> QED BY <1>4, <1>5

(* relocate copies what fits, before it frees.                              *)
LEMMA CopyKeeps ==
  ASSUME SafeUse, NEW own, NEW st, NEW el, NEW n, HInv(own, st, el, n), booted, LInv, ContentsInv,
         NEW t \in Threads, Copy(t)
  PROVE  Kept(t)' /\ Intact(t)'
<1> USE DEF Goto, memory, client, setup
<1>1. /\ Typed(r[t]) /\ Kept(t) /\ Intact(t) /\ Place(t) /\ Hands(own, st, t)
      /\ pc \in [Threads -> Labels] /\ DOMAIN r = Threads
      /\ word0 \in [Granules -> Int] /\ word1 \in [Granules -> Int]
  BY Here DEF ContentsInv
<1>2. PICK src, dst : src = r[t].src /\ dst = r[t].dst
  OBVIOUS
<1>3. /\ pc[t] = "copy" /\ r[t].op = "realloc" /\ r[t].job \in {"fast", "slow", "hit", "over", "fit"}
      /\ dst.ptr # 0 /\ src.ptr # 0
  <2>1. pc[t] = "copy"
    BY DEF Copy
  <2> QED BY <1>1, <1>2, <2>1 DEF Place, Leaving
<1>4. HoldsSrc(t)
  BY <1>2, <1>3 DEF HoldsSrc
<1>5. /\ SliceHeld(own, st, SrcId(t), src) /\ Holds(src.ptr, src.len, src.ptr) /\ src \in SliceSet
      /\ SliceHeld(own, st, DstId(t), dst) /\ dst \in SliceSet /\ r[t].usable = src.len
  BY <1>1, <1>2, <1>3, <1>4 DEF Hands, Intact, Typed, Kept
<1>6. PICK from, to, len :
        /\ from = src.ptr /\ to = dst.ptr /\ len = Smaller(src.len, dst.len)
  OBVIOUS
<1>7. /\ from \in Nat /\ to \in Nat /\ src.len \in Nat /\ dst.len \in Nat
      /\ from % MIN_ALIGN = 0 /\ to % MIN_ALIGN = 0 /\ from + src.len <= heap_end
      /\ len \in Nat /\ len <= src.len /\ len <= dst.len
  <2>1. PICK b, c : b = BlockOf(src) /\ c = BlockOf(dst)
    OBVIOUS
  <2>2. /\ b \in Nat /\ b % MIN_ALIGN = 0 /\ src.len \in Nat /\ from = b + MIN_ALIGN
        /\ b + (src.len + MIN_ALIGN) <= heap_end
    BY <1>5, <1>6, <2>1, SliceFacts
  <2>3. c \in Nat /\ c % MIN_ALIGN = 0 /\ dst.len \in Nat /\ to = c + MIN_ALIGN
    BY <1>5, <1>6, <2>1, SliceFacts
  <2>4. MIN_ALIGN \in Nat \ {0} /\ heap_end \in Nat
    BY HeapBounds
  <2>5. (b + MIN_ALIGN) % MIN_ALIGN = 0 /\ (c + MIN_ALIGN) % MIN_ALIGN = 0
    <3>1. /\ MIN_ALIGN % MIN_ALIGN = 0 /\ MIN_ALIGN \in Int /\ MIN_ALIGN \in Nat \ {0}
          /\ b \in Int /\ c \in Int /\ b % MIN_ALIGN = 0 /\ c % MIN_ALIGN = 0
      BY <2>2, <2>3, <2>4
    <3>2. (b + MIN_ALIGN) % MIN_ALIGN = 0
      BY <3>1, ModSum
    <3>3. (c + MIN_ALIGN) % MIN_ALIGN = 0
      BY <3>1, ModSum
    <3> QED BY <3>2, <3>3
  <2> QED BY <1>6, <2>2, <2>3, <2>4, <2>5 DEF Smaller
<1>8. /\ r' = r
      /\ \A a \in Granules :
           IF a \in PayloadOf(to, len)
           THEN word0'[a] = At(word0, a - to + from) /\ word1'[a] = At(word1, a - to + from)
           ELSE word0'[a] = word0[a] /\ word1'[a] = word1[a]
  BY <1>2, <1>5, <1>6 DEF Copy
<1>9. Unwritten(own, t)
  BY StepWrites DEF Step
<1>10. (HoldsSrc(t) => Holds(src.ptr, src.len, src.ptr))'
  <2>1. \A a \in Granules : own[a] = SrcId(t) => word0'[a] = word0[a] /\ word1'[a] = word1[a]
    BY <1>9, Spared
  <2>2. src.len \in Int /\ src.len <= src.len
    BY <1>7
  <2> QED BY <1>5, <2>1, <2>2, SliceStays
<1>11. Holds(to, len, from)'
  <2>1. ASSUME NEW a \in PayloadOf(to, len)
        PROVE  word0'[a] = Token(from) /\ word1'[a] = Token(from)
    <3>1. a \in Granules /\ a \in Nat /\ to <= a /\ a < to + len /\ a % MIN_ALIGN = 0
      BY HeapBounds, <2>1 DEF PayloadOf
    <3>2. PICK c : c = a - to + from
      OBVIOUS
    <3>3. c \in Nat /\ from <= c /\ c < from + src.len /\ c < heap_end
      BY <1>7, <3>1, <3>2, HeapBounds
    <3>4. c % MIN_ALIGN = 0
      <4>1. PICK d \in Int : d = a - to
        BY <1>7, <3>1
      <4>2. /\ MIN_ALIGN \in Nat \ {0} /\ a \in Int /\ to \in Int /\ from \in Int
            /\ a % MIN_ALIGN = 0 /\ to % MIN_ALIGN = 0 /\ from % MIN_ALIGN = 0
        BY <1>7, <3>1, HeapBounds
      <4>3. (a - to) % MIN_ALIGN = 0
        BY <4>2, ModSum
      <4>4. d % MIN_ALIGN = 0 /\ c = d + from
        BY <3>2, <4>1, <4>3
      <4>5. (d + from) % MIN_ALIGN = 0
        BY <4>1, <4>2, <4>4, ModSum
      <4> QED BY <4>4, <4>5
    <3>5. c \in Granules
      BY <3>3, <3>4, GranuleAt
    <3>6. c \in PayloadOf(from, src.len)
      BY <3>3, <3>5 DEF PayloadOf
    <3>7. word0[c] = Token(from) /\ word1[c] = Token(from)
      BY <1>5, <1>6, <3>6 DEF Holds
    <3> QED BY <1>8, <2>1, <3>1, <3>2, <3>5, <3>7 DEF At
  <2> QED BY <2>1 DEF Holds, PayloadOf
<1>12. Kept(t)'
  BY <1>1, <1>2, <1>3, <1>8 DEF Kept
<1> QED BY <1>2, <1>3, <1>6, <1>8, <1>10, <1>11, <1>12 DEF Intact

\* A thread that is in no call keeps nothing.
LEMMA NothingKept ==
  ASSUME NEW t, r[t].op # "realloc", r[t].job \notin {"keep", "shrink"}, r[t].src.ptr = 0
  PROVE  Kept(t) /\ Intact(t)
BY DEF Kept, Intact, HoldsSrc

\* The caller fills what it is given, and gets back what a failed realloc left.
LEMMA ReturnKeeps ==
  ASSUME SafeUse, NEW own, NEW st, NEW el, NEW n, HInv(own, st, el, n), booted, LInv, ContentsInv,
         NEW t \in Threads, Return(t)
  PROVE  /\ Kept(t)' /\ Intact(t)'
         /\ \A s \in live' : Holds(s.ptr, s.len, s.ptr)'
<1> USE DEF Goto, memory, client, setup
<1>1. /\ Typed(r[t]) /\ Kept(t) /\ Intact(t) /\ Place(t) /\ Hands(own, st, t)
      /\ pc \in [Threads -> Labels] /\ DOMAIN r = Threads
      /\ word0 \in [Granules -> Int] /\ word1 \in [Granules -> Int]
  BY Here DEF ContentsInv
<1>2. PICK src, dst, kept :
        /\ src = r[t].src /\ dst = r[t].dst
        /\ kept = IF r[t].op = "realloc" /\ dst = NullSlice THEN src ELSE dst
  OBVIOUS
<1>3. /\ pc[t] = "return" /\ r' = [r EXCEPT ![t] = NoLocals]
      /\ live' = live \cup ({kept} \ {NullSlice})
      /\ \A a \in PayloadOf(dst.ptr, dst.len) : word0'[a] = Token(dst.ptr) /\ word1'[a] = Token(dst.ptr)
  BY <1>2 DEF Return, PayloadOf
<1>4. Unwritten(own, t)
  BY StepWrites DEF Step
<1>5. r'[t] = NoLocals
  BY <1>1, <1>3
<1>6. Kept(t)' /\ Intact(t)'
  BY <1>5 DEF Kept, Intact, HoldsSrc, NoLocals, NullSlice
<1>7. \A s \in live : Holds(s.ptr, s.len, s.ptr)'
  BY <1>4, LiveStay
<1>8. kept # NullSlice => Holds(kept.ptr, kept.len, kept.ptr)'
  <2>1. Holds(dst.ptr, dst.len, dst.ptr)'
    BY <1>3 DEF Holds, PayloadOf
  <2>2. CASE kept = dst
    BY <2>1, <2>2
  <2>3. CASE kept = src /\ r[t].op = "realloc" /\ dst = NullSlice
    <3>1. HoldsSrc(t)
      <4>1. r[t].job \notin {"keep", "shrink", "free"} /\ src.ptr # 0
        BY <1>1, <1>2, <1>3, <2>3 DEF Place, NullSlice
      <4> QED BY <1>2, <2>3, <4>1 DEF HoldsSrc
    <3>2. /\ SliceHeld(own, st, SrcId(t), src) /\ Holds(src.ptr, src.len, src.ptr)
          /\ src \in SliceSet /\ src.len \in Int /\ src.len <= src.len
      BY <1>1, <1>2, <3>1 DEF Hands, Intact, Typed, SliceSet
    <3>3. \A a \in Granules : own[a] = SrcId(t) => word0'[a] = word0[a] /\ word1'[a] = word1[a]
      BY <1>4, Spared
    <3>4. Holds(src.ptr, src.len, src.ptr)'
      BY <3>2, <3>3, SliceStays
    <3> QED BY <2>3, <3>4
  <2> QED BY <1>2, <2>2, <2>3
<1> QED BY <1>3, <1>6, <1>7, <1>8

\* The caller hands over the slice with its payload.
LEMMA CallKeeps ==
  ASSUME SafeUse, NEW own, NEW st, NEW el, NEW n, HInv(own, st, el, n), LInv, ContentsInv,
         NEW t \in Threads, Call(t)
  PROVE  Kept(t)' /\ Intact(t)' /\ live' \subseteq live
<1> USE DEF Goto, memory, client, setup
<1>1. /\ Typed(r[t]) /\ Place(t) /\ pc \in [Threads -> Labels] /\ DOMAIN r = Threads
  BY Here
<1>2. pc[t] = "idle" /\ r[t] = NoLocals
  <2>1. pc[t] = "idle"
    BY DEF Call, AllocCall, FreeCall, FreeAgain, ReallocCall, MayCall
  <2> QED BY <1>1, <2>1 DEF Place
<1>3. ~FreeAgain(t)
  BY DEF FreeAgain, SafeUse
<1>4. word0' = word0 /\ word1' = word1
  BY OnlyWritesWrite, <1>2 DEF Writes, PushStore, Stamp, OverStamp, SplitDone, FreeStamp, OverPush,
     CarveGap, SplitCarve, FitTake, Copy, Return
<1>5. CASE AllocCall(t)
  <2>1. PICK x \in AllocSizes :
          r' = [r EXCEPT ![t] = [@ EXCEPT !.op = "alloc", !.size = x,
                                          !.job = AllocJob(x), !.bin = RequestBin(x)]]
    BY <1>5 DEF AllocCall
  <2>2. PICK job, k : job = AllocJob(x) /\ k = RequestBin(x)
    OBVIOUS
  <2>3. r'[t] = [NoLocals EXCEPT !.op = "alloc", !.size = x, !.job = job, !.bin = k]
    BY <1>1, <1>2, <2>1, <2>2
  <2>4. job \in {"fast", "over"}
    BY <2>2 DEF AllocJob
  <2>5. r'[t].op = "alloc" /\ r'[t].job = job /\ r'[t].src.ptr = 0
    BY <2>3 DEF NoLocals, NullSlice
  <2>6. Kept(t)' /\ Intact(t)'
    BY <2>4, <2>5 DEF Kept, Intact, HoldsSrc
  <2> QED BY <1>5, <2>6 DEF AllocCall
<1>6. CASE FreeCall(t) \/ ReallocCall(t)
  <2>1. PICK s \in live : /\ live' = live \ {s}
                          /\ \/ r' = [r EXCEPT ![t].op = "free", ![t].src = s]
                             \/ \E x : r' = [r EXCEPT ![t].op = "realloc", ![t].src = s, ![t].size = x]
    BY <1>6 DEF FreeCall, ReallocCall
  <2>2. r'[t].job = "none" /\ r'[t].src = s /\ r'[t].dst = NullSlice
    BY <1>1, <1>2, <2>1 DEF NoLocals
  <2>3. Holds(s.ptr, s.len, s.ptr)'
    BY <1>4, StillHolds DEF ContentsInv
  <2>4. Kept(t)' /\ Intact(t)'
    BY <2>2, <2>3 DEF Kept, Intact, NullSlice
  <2> QED BY <2>1, <2>4
<1> QED BY <1>3, <1>5, <1>6 DEF Call

(* Every step of a call.                                                    *)
LEMMA ContentsStep ==
  ASSUME SafeUse, NEW own, NEW st, NEW el, NEW n, HInv(own, st, el, n), booted, LInv, ContentsInv,
         NEW t \in Threads, Call(t) \/ Step(t)
  PROVE  ContentsInv'
<1>1. Alone(t)
  BY StepAlone DEF LInv
<1>2. Unwritten(own, t)
  <2>1. CASE Call(t)
    <3>1. pc[t] = "idle"
      BY <2>1 DEF Call, AllocCall, FreeCall, FreeAgain, ReallocCall, MayCall
    <3>2. ~Writes(t)
      BY <3>1 DEF Writes, PushStore, Stamp, OverStamp, SplitDone, FreeStamp, OverPush,
         CarveGap, SplitCarve, FitTake, Copy, Return
    <3>3. word0' = word0 /\ word1' = word1
      BY <2>1, <3>2, OnlyWritesWrite
    <3> QED BY <3>3 DEF Unwritten
  <2> QED BY <2>1, StepWrites
<1>3. \A u \in Threads \ {t} : Kept(u)' /\ Intact(u)'
  BY <1>1, <1>2, OthersIntact DEF Alone
<1>4. \A s \in live : Holds(s.ptr, s.len, s.ptr)'
  BY <1>2, LiveStay
<1>5. Kept(t)' /\ Intact(t)' /\ \A s \in live' : Holds(s.ptr, s.len, s.ptr)'
  <2>1. CASE Call(t)
    BY <1>4, <2>1, CallKeeps
  <2>2. CASE Return(t)
    BY <2>2, ReturnKeeps
  <2>3. CASE Turning(t) /\ Step(t) /\ ~Return(t)
    <3>1. live' = live
      BY <2>3 DEF Turning, Unlock, Got, Copy, FreeLoad, ReallocKeep, ReallocShrink, ReallocGrow, client
    <3>2. Kept(t)' /\ Intact(t)'
      BY <2>3, ShrunkKeeps, LoadsKeep, CopyKeeps, ReallocKeeps DEF Turning
    <3> QED BY <1>4, <3>1, <3>2
  <2>4. CASE ~Turning(t) /\ Step(t)
    <3>1. Plain(t)
      BY <2>4, PlainSteps
    <3>2. Kept(t)' /\ Intact(t)'
      BY <1>2, <3>1, PlainKeeps
    <3> QED BY <1>4, <3>1, <3>2 DEF Plain
  <2> QED BY <2>1, <2>2, <2>3, <2>4
<1> QED BY <1>3, <1>5 DEF ContentsInv

EmptyHeap == live = {} /\ \A t \in Threads : r[t] = [NoLocals EXCEPT !.iter = r[t].iter]

\* A heap that is being prepared has no contents.
LEMMA EmptyContents == EmptyHeap => ContentsInv
<1> SUFFICES ASSUME EmptyHeap PROVE ContentsInv
  OBVIOUS
<1> USE DEF EmptyHeap
<1>1. \A t \in Threads : r[t].op = "none" /\ r[t].job = "none" /\ r[t].src = NullSlice
  BY DEF NoLocals
<1>2. \A t \in Threads : Kept(t) /\ Intact(t)
  BY <1>1, NothingKept DEF NullSlice
<1> QED BY <1>2 DEF ContentsInv

\* Nor has it after a step.
LEMMA EmptyContentsNext == (EmptyHeap => ContentsInv)'
BY EmptyContents, PTL

\* init and verify.
LEMMA ContentsSetup ==
  ASSUME SafeUse, LInv, HeapInv, HeapInv', ContentsInv, NEW t \in Threads, SetupStep(t)
  PROVE  ContentsInv'
<1>1. CASE ~booted'
  BY <1>1, EmptyContentsNext DEF HeapInv, Preparing, EmptyHeap
<1>2. CASE booted' /\ ~booted
  <2>1. live = {} /\ \A u \in Threads : r[u] = [NoLocals EXCEPT !.iter = r[u].iter]
    BY <1>2 DEF HeapInv, Preparing
  <2>2. live' = live /\ r' = r
    BY <1>2 DEF SetupStep, InitCall, VerifyMagic, Prepare, InitMagic, InitPrint, InitHead, InitBump,
       InitLock, VerifyPrint, client, setup
  <2> QED BY <2>1, <2>2, EmptyContentsNext DEF EmptyHeap
<1>3. CASE booted
  <2>1. PICK own, st, el, n : HInv(own, st, el, n)
    BY <1>3 DEF HeapInv
  <2>2. VerifyMagic(t) \/ VerifyPrint(t)
    <3>1. ~Initialising(t)
      BY <1>3 DEF LInv, InitAlone
    <3> QED BY <1>3, <3>1 DEF SetupStep, InitCall, Prepare, InitMagic, InitPrint, InitHead, InitBump,
            InitLock, Initialising
  <2>3. /\ r' = r /\ live' = live /\ word0' = word0 /\ word1' = word1
        /\ pc[t] \in {"idle", "verify_print"}
    BY <2>2 DEF VerifyMagic, VerifyPrint, memory
  <2>4. r'[t] = NoLocals
    BY <2>1, <2>3, Here DEF Place
  <2>5. Kept(t)' /\ Intact(t)'
    BY <2>4 DEF Kept, Intact, HoldsSrc, NoLocals, NullSlice
  <2>6. Unwritten(own, t)
    BY <2>3 DEF Unwritten
  <2>7. \A u \in Threads \ {t} : pc'[u] = pc[u]
    BY SetupAlone DEF LInv
  <2>8. \A u \in Threads \ {t} : Kept(u)' /\ Intact(u)'
    BY <2>1, <2>3, <2>6, <2>7, OthersIntact
  <2>9. \A s \in live : Holds(s.ptr, s.len, s.ptr)'
    BY <2>1, <2>6, LiveStay
  <2> QED BY <2>3, <2>5, <2>8, <2>9 DEF ContentsInv
<1> QED BY <1>1, <1>2, <1>3

\* Contents survive every step.
LEMMA NextContents ==
  ASSUME SafeUse, LInv, HeapInv, HeapInv', ContentsInv, [Next]_vars
  PROVE  ContentsInv'
<1>1. CASE UNCHANGED vars
  BY <1>1 DEF vars, ContentsInv, Kept, Intact, Holds, HoldsSrc, Target, InHand
<1>2. ASSUME NEW t \in Threads, SetupStep(t) PROVE ContentsInv'
  BY <1>2, ContentsSetup
<1>3. ASSUME NEW t \in Threads, Call(t) \/ Step(t) PROVE ContentsInv'
  <2>1. booted
    <3>1. ~booted => Preparing
      BY DEF HeapInv
    <3> QED BY <1>3, <3>1, EarlyIdle
  <2>2. PICK own, st, el, n : HInv(own, st, el, n)
    BY <2>1 DEF HeapInv
  <2> QED BY <1>3, <2>1, <2>2, ContentsStep
<1> QED BY <1>1, <1>2, <1>3 DEF Next, SetupStep

\* The invariant is what is promised, and more.
LEMMA ContentsSafe ==
  ASSUME SafeUse, LInv, HeapInv, ContentsInv
  PROVE  ContentsSurvive
<1>1. ASSUME NEW t \in Threads, r[t].job \in {"keep", "shrink"}
      PROVE  Holds(r[t].src.ptr, Smaller(r[t].src.len, Target(t) - MIN_ALIGN), r[t].src.ptr)
  <2>1. Kept(t) /\ Intact(t)
    BY DEF ContentsInv
  <2>2. booted
    <3>1. ~booted => r[t].job = "none"
      BY DEF HeapInv, Preparing, NoLocals
    <3> QED BY <1>1, <3>1
  <2>3. PICK own, st, el, n : HInv(own, st, el, n)
    BY <2>2 DEF HeapInv
  <2>4. Typed(r[t]) /\ Place(t)
    BY <2>3, Here
  <2>5. PICK src, dst, b, top :
          src = r[t].src /\ dst = r[t].dst /\ b = r[t].blk /\ top = r[t].top
    OBVIOUS
  <2>6. /\ src.ptr \in Int /\ src.len \in Int /\ dst.ptr \in Int /\ dst.len \in Int
        /\ b \in Int /\ top \in Int /\ MIN_ALIGN \in Nat
    BY <2>4, <2>5, HeapBounds DEF Typed, SliceSet
  <2>7. r[t].op = "realloc" /\ r[t].size \in Requests /\ src.ptr # 0
    BY <1>1, <2>1, <2>4, <2>5 DEF Kept, Place
  <2>8. PICK need \in Nat : need = Target(t)
    BY <2>7, RequestOk DEF Target
  <2>9. PICK less : less = Smaller(src.len, need - MIN_ALIGN)
    OBVIOUS
  <2>10. less \in Int /\ less <= src.len /\ less <= need - MIN_ALIGN
    BY <2>6, <2>8, <2>9 DEF Smaller
  <2>11. CASE r[t].job = "shrink" /\ b # 0
    <3>1. PICK len : len = (top - b) - MIN_ALIGN
      OBVIOUS
    <3>2. need <= top - b /\ Holds(src.ptr, len, src.ptr)
      BY <2>1, <2>5, <2>8, <2>11, <3>1 DEF Kept, Intact, InHand
    <3>3. len \in Int /\ less <= len
      BY <2>6, <2>8, <2>10, <3>1, <3>2
    <3> QED BY <2>5, <2>6, <2>8, <2>9, <2>10, <3>2, <3>3, HoldsLess
  <2>12. CASE r[t].job = "keep" \/ b = 0
    <3>1. /\ pc[t] = "return" /\ dst.ptr = src.ptr
          /\ dst = src \/ (need - MIN_ALIGN <= dst.len /\ dst.len <= src.len)
      BY <1>1, <2>1, <2>5, <2>8, <2>12 DEF Kept
    <3>2. PICK len : len = Smaller(src.len, dst.len)
      OBVIOUS
    <3>3. Holds(src.ptr, len, src.ptr)
      BY <2>1, <2>5, <2>7, <3>1, <3>2 DEF Intact
    <3>4. len \in Int /\ less <= len
      BY <2>6, <2>8, <2>10, <3>1, <3>2 DEF Smaller
    <3> QED BY <2>5, <2>6, <2>8, <2>9, <2>10, <3>3, <3>4, HoldsLess
  <2> QED BY <1>1, <2>11, <2>12
<1> QED BY <1>1 DEF ContentsSurvive, ContentsInv, Intact

(* Payload is written by its owner only, and a realloc carries it over: in    *)
(* place, or copied before the old block is freed (allocator.rs, realloc and  *)
(* relocate).                                                                 *)
THEOREM ContentsAreKept ==
  ASSUME SafeUse
  PROVE  Spec /\ HonestPops => []ContentsSurvive
<1>1. Init => ContentsInv
  <2>1. Init => EmptyHeap
    BY InitPreparing DEF Preparing, EmptyHeap
  <2> QED BY <2>1, EmptyContents
<1>2. LInv /\ HeapInv /\ HeapInv' /\ ContentsInv /\ [Next]_vars => ContentsInv'
  BY NextContents
<1>3. LInv /\ HeapInv /\ ContentsInv => ContentsSurvive
  BY ContentsSafe
<1> QED BY <1>1, <1>2, <1>3, LInvHolds, HeapInvHolds, PTL DEF Spec

-----------------------------------------------------------------------------
(* The allocator is a malloc.                                              *)

\* What a thread's locals say of its call.
CallOf(x) ==
  IF x.op = "again" THEN [op |-> "none", size |-> 0, src |-> NullSlice, hold |-> "none"] ELSE
  [op |-> x.op, size |-> x.size,
   src |-> IF x.job = "shrink"
           THEN [ptr |-> x.src.ptr,
                 len |-> IF x.blk = 0 THEN x.dst.len ELSE x.top - x.src.ptr]
           ELSE x.src,
   hold |-> IF x.op \in {"none", "alloc"} THEN "none"
            ELSE IF x.job = "free" THEN "given"
            ELSE IF x.job = "shrink" THEN "cut"
            ELSE "whole"]

LEMMA CallIs ==
  /\ DOMAIN mallocCall = Threads
  /\ \A t \in Threads : mallocCall[t] = CallOf(r[t])
BY DEF mallocCall, CallOf

\* A step changes the call of its thread.
LEMMA CallMoves ==
  ASSUME NEW t \in Threads, \A u \in Threads \ {t} : r'[u] = r[u]
  PROVE  mallocCall' = [mallocCall EXCEPT ![t] = CallOf(r'[t])]
<1>1. mallocCall' = [u \in Threads |-> CallOf(r'[u])]
  BY DEF mallocCall, CallOf
<1>2. mallocCall = [u \in Threads |-> CallOf(r[u])]
  BY DEF mallocCall, CallOf
<1> QED BY <1>1, <1>2

\* Or it does not.
LEMMA CallStays ==
  ASSUME NEW t \in Threads, \A u \in Threads \ {t} : r'[u] = r[u], CallOf(r'[t]) = CallOf(r[t]),
         live' = live
  PROVE  UNCHANGED M!mallocVars
<1>1. mallocCall' = [u \in Threads |-> CallOf(r'[u])]
  BY DEF mallocCall, CallOf
<1>2. mallocCall = [u \in Threads |-> CallOf(r[u])]
  BY DEF mallocCall, CallOf
<1>3. mallocCall' = mallocCall
  BY <1>1, <1>2
<1> QED BY <1>3 DEF M!mallocVars

(* A thread goes to return its answer from few places only.                 *)
LEMMA ToReturn ==
  ASSUME NEW t \in Threads, pc \in [Threads -> Labels], JobInPlace(t),
         Call(t) \/ Step(t), pc'[t] = "return"
  PROVE  Unlock(t) \/ PushCas(t) \/ Got(t) \/ ReallocKeep(t) \/ FreeLoad(t)
<1> USE DEF Goto
<1>1. ~Call(t)
  BY DEF Call, AllocCall, FreeCall, FreeAgain, ReallocCall, AllocEntry
<1>2. ~Lock(t)
  <2>1. Lock(t) => pc'[t] # "return"
    BY DEF Lock, JobInPlace
  <2> QED BY <2>1
<1>3. ~(PushLoad(t) \/ PushStore(t) \/ PushRetry(t))
  BY DEF PushLoad, PushStore, PushRetry
<1>4. ~(PopEmpty(t) \/ PopLoad(t) \/ PopNext(t) \/ PopRetry(t) \/ PopCas(t))
  BY DEF PopEmpty, PopLoad, PopNext, PopRetry, PopCas
<1>5. ~(Stamp(t) \/ OverStamp(t) \/ FreeStamp(t) \/ OverPush(t))
  BY DEF Stamp, OverStamp, FreeStamp, FreeEntry, OverPush
<1>6. ~(RefillFixed(t) \/ RefillOversize(t))
  BY DEF RefillFixed, RefillOversize, Refill
<1>7. ~(CarveGap(t) \/ SplitCarve(t))
  BY DEF CarveGap, SplitCarve, Release
<1>8. ~(Bump(t) \/ FitHead(t) \/ FitSkip(t) \/ FitTake(t) \/ SplitDone(t))
  BY DEF Bump, FitHead, FitSkip, FitTake, SplitDone
<1>9. ~(ReallocShrink(t) \/ ReallocGrow(t) \/ Copy(t) \/ Return(t))
  BY DEF ReallocShrink, ReallocGrow, AllocEntry, Copy, Return
<1> QED BY <1>1, <1>2, <1>3, <1>4, <1>5, <1>6, <1>7, <1>8, <1>9 DEF Step, Swap

\* By then it has settled its old block.
LEMMA AnsweredStep ==
  ASSUME SafeUse, NEW own, NEW st, NEW el, NEW n, HInv(own, st, el, n), booted, LInv,
         NEW t \in Threads, Call(t) \/ Step(t), \A u \in Threads : Answered(u)
  PROVE  \A u \in Threads : Answered(u)'
<1> USE DEF Goto
<1>1. Alone(t)
  BY StepAlone DEF LInv
<1>2. \A u \in Threads \ {t} : Answered(u)'
  BY <1>1 DEF Answered, Alone
<1>3. /\ Typed(r[t]) /\ Place(t) /\ JobInPlace(t)
      /\ pc \in [Threads -> Labels] /\ DOMAIN r = Threads
  BY Here
<1>4. Answered(t)'
  <2> SUFFICES ASSUME pc'[t] = "return" PROVE Answered(t)'
    BY DEF Answered
  <2>1. CASE Unlock(t)
    <3>1. r[t].job \in {"shrink", "free"}
      BY <1>3, <2>1 DEF Unlock
    <3>2. CASE r[t].job = "free"
      BY <2>1, <3>2 DEF Unlock, Answered
    <3>3. CASE r[t].job = "shrink"
      <4>1. PICK dst : r' = [r EXCEPT ![t].dst = dst, ![t].blk = 0, ![t].top = 0]
        BY <2>1, <3>3 DEF Unlock
      <4>2. r'[t].job = "shrink"
        BY <1>3, <3>3, <4>1, Fields DEF Typed
      <4> QED BY <4>2 DEF Answered
    <3> QED BY <3>1, <3>2, <3>3
  <2>2. CASE PushCas(t)
    <3>1. pc'[t] = AfterPush(r[t].job) /\ pc[t] = "push_cas"
      BY <1>3, <2>2 DEF PushCas
    <3>2. r[t].job = "free"
      BY <1>3, <3>1 DEF AfterPush, JobInPlace, Pushing
    <3>3. r' = [r EXCEPT ![t].old = 0, ![t].blk = 0, ![t].top = 0]
      BY <2>2, <3>2 DEF PushCas
    <3>4. r'[t].job = "free"
      BY <1>3, <3>2, <3>3, Fields DEF Typed
    <3> QED BY <3>4 DEF Answered
  <2>3. CASE Got(t)
    <3>1. pc[t] = "got"
      BY <2>3 DEF Got
    <3>2. r[t].op \in {"alloc", "realloc"}
      BY <1>3, <3>1 DEF Place, Serving
    <3>3. PICK b, s : b = r[t].blk /\ s = IF b = 0 THEN NullSlice ELSE SliceOf(b, header_size(At(word0, b)))
      OBVIOUS
    <3>4. r' = [r EXCEPT ![t].dst = s, ![t].blk = 0, ![t].top = 0] /\ pc'[t] = AfterGot(r[t].op, b)
      BY <1>3, <2>3, <3>3 DEF Got
    <3>5. r'[t].dst = s /\ r'[t].op = r[t].op
      BY <1>3, <3>4, Fields DEF Typed
    <3>6. r[t].op = "realloc" => s.ptr = 0
      BY <3>3, <3>4 DEF AfterGot, NullSlice
    <3> QED BY <3>2, <3>5, <3>6 DEF Answered
  <2>4. CASE ReallocKeep(t)
    <3>1. \E dst : r' = [r EXCEPT ![t].job = "keep", ![t].dst = dst]
      BY <2>4 DEF ReallocKeep
    <3>2. r'[t].job = "keep"
      BY <1>3, <3>1, Fields DEF Typed
    <3> QED BY <3>2 DEF Answered
  <2>5. CASE FreeLoad(t)
    <3>1. PICK b, size, k : b = BlockOf(r[t].src) /\ size = header_size(At(word0, b)) /\ k = bin_index(size)
      OBVIOUS
    <3>2. PICK top : top = b + size
      OBVIOUS
    <3>3. \/ r' = [r EXCEPT ![t].job = "free"]
          \/ r' = [r EXCEPT ![t].job = "free", ![t].blk = b, ![t].top = top, ![t].bin = k]
      BY <2>5, <3>1, <3>2 DEF FreeLoad
    <3>4. r'[t].job = "free"
      BY <1>3, <3>3, Fields DEF Typed
    <3> QED BY <3>4 DEF Answered
  <2> QED BY <1>3, <2>1, <2>2, <2>3, <2>4, <2>5, ToReturn
<1> QED BY <1>2, <1>4

\* A step that goes on with its slices is none of the contract.
LEMMA CallSame ==
  ASSUME NEW x, NEW y, y.op = x.op, y.size = x.size, y.src = x.src,
         \/ y.job = x.job /\ x.job # "shrink"
         \/ x.job \notin {"shrink", "free"} /\ y.job \notin {"shrink", "free"}
  PROVE  CallOf(y) = CallOf(x)
BY DEF CallOf

\* init and verify.
LEMMA SetupMalloc ==
  ASSUME LInv, HeapInv, NEW t \in Threads, SetupStep(t)
  PROVE  UNCHANGED M!mallocVars
<1> USE DEF client, setup, Goto
<1>1. CASE InitHead(t)
  <2>1. ~booted
    BY <1>1 DEF LInv, InitAlone, InitHead, Initialising
  <2>2. /\ \A u \in Threads : r[u] = [NoLocals EXCEPT !.iter = r[u].iter]
        /\ DOMAIN r = Threads
    BY <2>1 DEF HeapInv, Preparing
  <2>3. PICK i : r' = [r EXCEPT ![t].iter = i]
    <3>1. \/ r' = [r EXCEPT ![t].iter = 0] \/ r' = [r EXCEPT ![t].iter = @ + 1]
      BY <1>1 DEF InitHead
    <3>2. PICK j : j = r[t].iter + 1
      OBVIOUS
    <3> QED BY <3>1, <3>2
  <2>4. r'[t].op = "none" /\ r'[t].job = "none" /\ r'[t].size = 0 /\ r'[t].src = NullSlice
    BY <2>2, <2>3 DEF NoLocals
  <2>5. r[t].op = "none" /\ r[t].job = "none" /\ r[t].size = 0 /\ r[t].src = NullSlice
    BY <2>2 DEF NoLocals
  <2>6. CallOf(r'[t]) = CallOf(r[t])
    BY <2>4, <2>5, CallSame
  <2>7. live' = live /\ \A u \in Threads \ {t} : r'[u] = r[u]
    BY <1>1, <2>2, <2>3 DEF InitHead
  <2> QED BY <2>6, <2>7, CallStays
<1>2. CASE ~InitHead(t)
  <2>1. r' = r /\ live' = live
    BY <1>2 DEF SetupStep, InitCall, VerifyMagic, Prepare, InitMagic, InitPrint, InitBump, InitLock,
       VerifyPrint
  <2> QED BY <2>1, CallStays
<1> QED BY <1>1, <1>2

\* A call begins.
LEMMA CallMalloc ==
  ASSUME SafeUse, NEW own, NEW st, NEW el, NEW n, HInv(own, st, el, n), LInv,
         NEW t \in Threads, Call(t)
  PROVE  M!MallocNext
<1> USE DEF Goto
<1>1. /\ Place(t) /\ DOMAIN r = Threads
  BY Here
<1>2. pc[t] = "idle" /\ r[t] = NoLocals
  <2>1. pc[t] = "idle"
    BY DEF Call, AllocCall, FreeCall, FreeAgain, ReallocCall, MayCall
  <2> QED BY <1>1, <2>1 DEF Place
<1>3. ~FreeAgain(t)
  BY DEF FreeAgain, SafeUse
<1>4. Alone(t)
  BY StepAlone DEF LInv
<1>5. mallocCall' = [mallocCall EXCEPT ![t] = CallOf(r'[t])]
  BY <1>4, CallMoves DEF Alone
<1>6. mallocCall[t] = M!NoCall
  <2>1. CallOf(NoLocals) = M!NoCall
    BY DEF CallOf, NoLocals, M!NoCall, M!Null, NullSlice
  <2> QED BY <1>2, <2>1, CallIs
<1>7. CASE AllocCall(t)
  <2>1. PICK x \in AllocSizes :
          r' = [r EXCEPT ![t] = [@ EXCEPT !.op = "alloc", !.size = x,
                                          !.job = AllocJob(x), !.bin = RequestBin(x)]]
    BY <1>7 DEF AllocCall
  <2>2. PICK job, k : job = AllocJob(x) /\ k = RequestBin(x)
    OBVIOUS
  <2>3. r'[t] = [NoLocals EXCEPT !.op = "alloc", !.size = x, !.job = job, !.bin = k]
    BY <1>1, <1>2, <2>1, <2>2
  <2>4. job \in {"fast", "over"}
    BY <2>2 DEF AllocJob
  <2>5. r'[t].op = "alloc" /\ r'[t].job = job /\ r'[t].src = NullSlice /\ r'[t].size = x
    BY <2>3 DEF NoLocals
  <2>6. CallOf(r'[t]) = [op |-> "alloc", size |-> x, src |-> M!Null, hold |-> "none"]
    BY <2>4, <2>5 DEF CallOf, M!Null, NullSlice
  <2>7. M!CallAlloc(t, x)
    BY <1>5, <1>6, <1>7, <2>6 DEF M!CallAlloc, M!Begin, AllocCall
  <2> QED BY <2>7 DEF M!MallocNext
<1>8. CASE FreeCall(t)
  <2>1. PICK s \in live : live' = live \ {s} /\ r' = [r EXCEPT ![t].op = "free", ![t].src = s]
    BY <1>8 DEF FreeCall
  <2>2. r'[t].op = "free" /\ r'[t].job = "none" /\ r'[t].src = s /\ r'[t].size = 0
    BY <1>1, <1>2, <2>1 DEF NoLocals
  <2>3. CallOf(r'[t]) = [op |-> "free", size |-> 0, src |-> s, hold |-> "whole"]
    BY <2>2 DEF CallOf
  <2>4. M!CallFree(t, s)
    BY <1>5, <1>6, <2>1, <2>3 DEF M!CallFree, M!Begin
  <2> QED BY <2>4 DEF M!MallocNext
<1>9. CASE ReallocCall(t)
  <2>1. PICK s \in live, x \in ReallocSizes :
          live' = live \ {s} /\ r' = [r EXCEPT ![t].op = "realloc", ![t].src = s, ![t].size = x]
    BY <1>9 DEF ReallocCall
  <2>2. r'[t].op = "realloc" /\ r'[t].job = "none" /\ r'[t].src = s /\ r'[t].size = x
    BY <1>1, <1>2, <2>1 DEF NoLocals
  <2>3. CallOf(r'[t]) = [op |-> "realloc", size |-> x, src |-> s, hold |-> "whole"]
    BY <2>2 DEF CallOf
  <2>4. M!CallRealloc(t, s, x)
    BY <1>5, <1>6, <2>1, <2>3 DEF M!CallRealloc, M!Begin
  <2> QED BY <2>4 DEF M!MallocNext
<1> QED BY <1>3, <1>7, <1>8, <1>9 DEF Call

\* What a cut makes of a call.
CutTo(x, k) == [x EXCEPT !.src.len = k, !.hold = "cut"]

LEMMA CutCall ==
  ASSUME NEW x, NEW c, NEW z, NEW p, NEW len, NEW h, NEW k,
         x = [op |-> "realloc", size |-> z, src |-> [ptr |-> p, len |-> len], hold |-> h],
         c = [op |-> "realloc", size |-> z, src |-> [ptr |-> p, len |-> k], hold |-> "cut"]
  PROVE  CutTo(x, k) = c
<1>1. PICK v : v = [ptr |-> p, len |-> k]
  OBVIOUS
<1>2. [x EXCEPT !.src.len = k] = [x EXCEPT !.src = v]
  <2>1. x.src = [ptr |-> p, len |-> len]
    OBVIOUS
  <2> QED BY <1>1, <2>1
<1>3. PICK u : u = [x EXCEPT !.src = v]
  OBVIOUS
<1>4. u = [op |-> "realloc", size |-> z, src |-> v, hold |-> h]
  BY <1>3
<1>5. [u EXCEPT !.hold = "cut"] = c
  BY <1>1, <1>4
<1> QED BY <1>2, <1>3, <1>5 DEF CutTo

\* A realloc in place gives up what it cuts off its block.
LEMMA PlainMalloc ==
  ASSUME SafeUse, NEW own, NEW st, NEW el, NEW n, HInv(own, st, el, n), LInv, ContentsInv,
         NEW t \in Threads, Plain(t), Alone(t)
  PROVE  M!MallocNext \/ UNCHANGED M!mallocVars
<1>1. Typed(r[t]) /\ Hands(own, st, t) /\ Place(t) /\ Kept(t)
  BY Here DEF ContentsInv
<1>2. CASE r[t].job # "shrink"
  <2>1. CallOf(r'[t]) = CallOf(r[t])
    BY <1>2, CallSame DEF Plain, Movers
  <2> QED BY <2>1, CallStays DEF Plain, Alone
<1>3. CASE r[t].job = "shrink"
  <2>1. PICK src, b, top, new : src = r[t].src /\ b = r[t].blk /\ top = r[t].top /\ new = r'[t].top
    OBVIOUS
  <2>2. /\ live' = live /\ r'[t].op = r[t].op /\ r'[t].size = r[t].size /\ r'[t].src = src
        /\ r'[t].job = "shrink" /\ r'[t].blk = b /\ r'[t].dst = r[t].dst
        /\ new \in Int /\ new <= top /\ (new = top \/ Target(t) <= new - b) /\ pc[t] # "return"
    BY <1>3, <2>1 DEF Plain, Movers
  <2>3. b # 0 /\ b = BlockOf(src) /\ r[t].op = "realloc" /\ r[t].size \in Requests
    BY <1>1, <1>3, <2>1, <2>2 DEF Kept
  <2>4. /\ b \in Int /\ top \in Int /\ src.ptr \in Int /\ MIN_ALIGN \in Nat /\ b < top
        /\ src.ptr = b + MIN_ALIGN
    <3>1. Held(own, st, BlockId(t), b, top)
      BY <1>1, <2>1, <2>3 DEF Hands, Block
    <3>2. src.ptr \in Int
      BY <1>1, <2>1 DEF Typed, SliceSet
    <3> QED BY <2>3, <3>1, <3>2, HeapBounds DEF Held, BlockOf
  <2>5. PICK len, k : len = top - src.ptr /\ k = new - src.ptr
    OBVIOUS
  <2>6. mallocCall[t] = [op |-> "realloc", size |-> r[t].size,
                         src |-> [ptr |-> src.ptr, len |-> len], hold |-> "cut"]
    BY <1>3, <2>1, <2>3, <2>5, CallIs DEF CallOf
  <2>7. CallOf(r'[t]) = [op |-> "realloc", size |-> r[t].size,
                         src |-> [ptr |-> src.ptr, len |-> k], hold |-> "cut"]
    BY <2>1, <2>2, <2>3, <2>5 DEF CallOf
  <2>8. CASE new = top
    <3>1. CallOf(r'[t]) = mallocCall[t]
      BY <2>5, <2>6, <2>7, <2>8
    <3> QED BY <2>2, <3>1, CallIs, CallStays DEF Alone
  <2>9. CASE new # top
    <3>1. PICK need \in Nat : need = Target(t) /\ need >= r[t].size + MIN_ALIGN /\ r[t].size \in Nat
      BY <2>3, RequestOk DEF Target
    <3>2. k \in Int /\ len \in Int /\ 0 <= k /\ k <= len
      BY <2>2, <2>4, <2>5, <2>9, <3>1
    <3>3. k \in 0 .. len
      BY <3>2
    <3>4. mallocCall' = [mallocCall EXCEPT ![t] = CallOf(r'[t])]
      BY CallMoves DEF Alone
    <3>5. mallocCall' = [mallocCall EXCEPT ![t].src.len = k, ![t].hold = "cut"]
      <4>1. PICK f, c : f = mallocCall /\ c = CallOf(r'[t])
        OBVIOUS
      <4>2. DOMAIN f = Threads
        BY <4>1, CallIs
      <4>3. f[t] = [op |-> "realloc", size |-> r[t].size,
                    src |-> [ptr |-> src.ptr, len |-> len], hold |-> "cut"]
        BY <2>6, <4>1
      <4>4. c = [op |-> "realloc", size |-> r[t].size,
                 src |-> [ptr |-> src.ptr, len |-> k], hold |-> "cut"]
        BY <2>7, <4>1
      <4>5. [f[t] EXCEPT !.src.len = k, !.hold = "cut"] = c
        <5>1. PICK x, z, p : x = f[t] /\ z = r[t].size /\ p = src.ptr
          OBVIOUS
        <5>2. x = [op |-> "realloc", size |-> z, src |-> [ptr |-> p, len |-> len], hold |-> "cut"]
          BY <4>3, <5>1
        <5>3. c = [op |-> "realloc", size |-> z, src |-> [ptr |-> p, len |-> k], hold |-> "cut"]
          BY <4>4, <5>1
        <5>4. CutTo(x, k) = c
          BY <5>2, <5>3, CutCall
        <5> QED BY <5>1, <5>4 DEF CutTo
      <4>6. [f EXCEPT ![t].src.len = k, ![t].hold = "cut"] = [f EXCEPT ![t] = c]
        BY <4>2, <4>5
      <4> QED BY <3>4, <4>1, <4>6
    <3>6. M!Cut(t)
      <4>1. /\ mallocCall[t].op = "realloc" /\ mallocCall[t].hold = "cut"
            /\ mallocCall[t].src.len = len
        BY <2>6
      <4> QED BY <2>2, <3>3, <3>5, <4>1 DEF M!Cut
    <3> QED BY <3>6 DEF M!MallocNext
  <2> QED BY <2>8, <2>9
<1> QED BY <1>2, <1>3

\* The other steps on the way of a call.
LEMMA TurnMalloc ==
  ASSUME SafeUse, NEW own, NEW st, NEW el, NEW n, HInv(own, st, el, n), LInv, ContentsInv,
         NEW t \in Threads, Turning(t), Step(t), ~Return(t)
  PROVE  M!MallocNext \/ UNCHANGED M!mallocVars
<1> USE DEF Goto, client
<1>1. /\ Typed(r[t]) /\ Hands(own, st, t) /\ Place(t) /\ Kept(t)
      /\ pc \in [Threads -> Labels] /\ DOMAIN r = Threads
  BY Here DEF ContentsInv
<1>2. Alone(t)
  BY StepAlone DEF LInv
<1>3. live' = live
  BY DEF Turning, Unlock, Got, Copy, FreeLoad, ReallocKeep, ReallocShrink, ReallocGrow
<1>4. ASSUME CallOf(r'[t]) = CallOf(r[t]) PROVE UNCHANGED M!mallocVars
  BY <1>2, <1>3, <1>4, CallStays DEF Alone
<1>5. mallocCall' = [mallocCall EXCEPT ![t] = CallOf(r'[t])]
  BY <1>2, CallMoves DEF Alone
<1>6. CASE Unlock(t) /\ r[t].job = "shrink"
  <2>1. PICK src, b, top, len : src = r[t].src /\ b = r[t].blk /\ top = r[t].top /\ len = top - src.ptr
    OBVIOUS
  <2>2. PICK dst : dst = SliceOf(b, top - b)
    OBVIOUS
  <2>3. r' = [r EXCEPT ![t].dst = dst, ![t].blk = 0, ![t].top = 0] /\ pc[t] = "unlock"
    BY <1>6, <2>1, <2>2 DEF Unlock
  <2>4. /\ r'[t].op = r[t].op /\ r'[t].size = r[t].size /\ r'[t].src = src /\ r'[t].job = "shrink"
        /\ r'[t].blk = 0 /\ r'[t].dst = dst
    BY <1>1, <1>6, <2>1, <2>3, Fields DEF Typed
  <2>5. b # 0 /\ b = BlockOf(src)
    BY <1>1, <1>6, <2>1, <2>3 DEF Kept
  <2>6. dst.len = len
    <3>1. b \in Int /\ top \in Int /\ src.ptr \in Int /\ MIN_ALIGN \in Nat
      BY <1>1, <2>1, HeapBounds DEF Typed, SliceSet
    <3>2. dst.len = (top - b) - MIN_ALIGN
      BY <2>2 DEF SliceOf
    <3> QED BY <2>1, <2>5, <3>1, <3>2 DEF BlockOf
  <2>7. CallOf(r'[t]) = CallOf(r[t])
    BY <1>6, <2>1, <2>4, <2>5, <2>6 DEF CallOf
  <2> QED BY <1>4, <2>7
<1>7. CASE Got(t)
  <2>1. PICK b, s : b = r[t].blk /\ s = IF b = 0 THEN NullSlice ELSE SliceOf(b, header_size(At(word0, b)))
    OBVIOUS
  <2>2. r' = [r EXCEPT ![t].dst = s, ![t].blk = 0, ![t].top = 0] /\ pc[t] = "got"
    BY <1>7, <2>1 DEF Got
  <2>3. /\ r'[t].op = r[t].op /\ r'[t].size = r[t].size /\ r'[t].src = r[t].src
        /\ r'[t].job = r[t].job
    BY <1>1, <2>2, Fields DEF Typed
  <2>4. r[t].job # "shrink"
    BY <1>1, <2>2 DEF Place
  <2>5. CallOf(r'[t]) = CallOf(r[t])
    BY <2>3, <2>4, CallSame
  <2> QED BY <1>4, <2>5
<1>8. CASE Copy(t)
  <2>1. r' = r
    BY <1>8 DEF Copy
  <2> QED BY <1>4, <2>1
<1>9. CASE ReallocKeep(t) \/ ReallocGrow(t) \/ ReallocShrink(t)
  <2>1. pc[t] = "realloc_load"
    BY <1>9 DEF ReallocKeep, ReallocGrow, ReallocShrink
  <2>2. /\ r[t].op = "realloc" /\ r[t].job = "none" /\ r[t].size \in Requests
    BY <1>1, <2>1 DEF Place, Serving
  <2>3. PICK src, cur, b : src = r[t].src /\ cur = CurSize(t) /\ b = BlockOf(src)
    OBVIOUS
  <2>4. CASE ReallocKeep(t)
    <3>1. PICK dst : dst = SliceOf(b, cur)
      OBVIOUS
    <3>2. r' = [r EXCEPT ![t].job = "keep", ![t].dst = dst]
      BY <2>3, <2>4, <3>1 DEF ReallocKeep
    <3>3. /\ r'[t].op = r[t].op /\ r'[t].size = r[t].size /\ r'[t].src = r[t].src
          /\ r'[t].job = "keep"
      BY <1>1, <3>2, Fields DEF Typed
    <3>4. CallOf(r'[t]) = CallOf(r[t])
      BY <2>2, <3>3, CallSame
    <3> QED BY <1>4, <3>4
  <2>5. CASE ReallocGrow(t)
    <3>1. PICK job, k, usable : /\ job = AllocJob(r[t].size) /\ k = RequestBin(r[t].size)
                                /\ usable = cur - MIN_ALIGN
      OBVIOUS
    <3>2. r' = [r EXCEPT ![t].job = job, ![t].bin = k, ![t].usable = usable]
      BY <2>3, <2>5, <3>1 DEF ReallocGrow
    <3>3. job \in {"fast", "over"}
      BY <3>1 DEF AllocJob
    <3>4. /\ r'[t].op = r[t].op /\ r'[t].size = r[t].size /\ r'[t].src = r[t].src
          /\ r'[t].job = job
      BY <1>1, <3>2, Fields DEF Typed
    <3>5. CallOf(r'[t]) = CallOf(r[t])
      BY <2>2, <3>3, <3>4, CallSame
    <3> QED BY <1>4, <3>5
  <2>6. CASE ReallocShrink(t)
    <3>1. HoldsSrc(t)
      BY <1>1, <2>2 DEF HoldsSrc, Place
    <3>2. src \in SliceSet /\ SliceHeld(own, st, SrcId(t), src)
      BY <1>1, <2>3, <3>1 DEF Hands, Typed
    <3>3. /\ cur = src.len + MIN_ALIGN /\ src.len \in Nat /\ b \in Nat \ {0} /\ MIN_ALIGN \in Nat
          /\ src.ptr = b + MIN_ALIGN
      BY <2>3, <3>2, SliceFacts, HeapBounds DEF CurSize
    <3>4. PICK top, len : top = b + cur /\ len = src.len
      OBVIOUS
    <3>5. r' = [r EXCEPT ![t].job = "shrink", ![t].blk = b, ![t].top = top]
      BY <2>3, <2>6, <3>4 DEF ReallocShrink
    <3>6. /\ r'[t].op = "realloc" /\ r'[t].size = r[t].size /\ r'[t].src = src
          /\ r'[t].job = "shrink" /\ r'[t].blk = b /\ r'[t].top = top
      BY <1>1, <2>2, <2>3, <3>5, Fields DEF Typed
    <3>7. top - src.ptr = len /\ len \in 0 .. len
      BY <3>3, <3>4
    <3>8. CallOf(r'[t]) = [op |-> "realloc", size |-> r[t].size,
                           src |-> [ptr |-> src.ptr, len |-> len], hold |-> "cut"]
      BY <3>3, <3>6, <3>7 DEF CallOf
    <3>9. mallocCall[t] = [op |-> "realloc", size |-> r[t].size, src |-> src, hold |-> "whole"]
      BY <2>2, <2>3, CallIs DEF CallOf
    <3>10. src = [ptr |-> src.ptr, len |-> len]
      BY <3>2, <3>4 DEF SliceSet
    <3>11. mallocCall' = [mallocCall EXCEPT ![t].src.len = len, ![t].hold = "cut"]
      <4>1. PICK f, c : f = mallocCall /\ c = CallOf(r'[t])
        OBVIOUS
      <4>2. DOMAIN f = Threads
        BY <4>1, CallIs
      <4>3. f[t] = [op |-> "realloc", size |-> r[t].size,
                    src |-> [ptr |-> src.ptr, len |-> len], hold |-> "whole"]
        BY <3>9, <3>10, <4>1
      <4>4. c = [op |-> "realloc", size |-> r[t].size,
                 src |-> [ptr |-> src.ptr, len |-> len], hold |-> "cut"]
        BY <3>8, <4>1
      <4>5. [f[t] EXCEPT !.src.len = len, !.hold = "cut"] = c
        <5>1. PICK x, z, p : x = f[t] /\ z = r[t].size /\ p = src.ptr
          OBVIOUS
        <5>2. x = [op |-> "realloc", size |-> z, src |-> [ptr |-> p, len |-> len], hold |-> "whole"]
          BY <4>3, <5>1
        <5>3. c = [op |-> "realloc", size |-> z, src |-> [ptr |-> p, len |-> len], hold |-> "cut"]
          BY <4>4, <5>1
        <5>4. CutTo(x, len) = c
          BY <5>2, <5>3, CutCall
        <5> QED BY <5>1, <5>4 DEF CutTo
      <4>6. [f EXCEPT ![t].src.len = len, ![t].hold = "cut"] = [f EXCEPT ![t] = c]
        BY <4>2, <4>5
      <4> QED BY <1>5, <4>1, <4>6
    <3>12. M!Cut(t)
      <4>1. /\ mallocCall[t].op = "realloc" /\ mallocCall[t].hold = "whole"
            /\ mallocCall[t].src.len = len
        BY <3>4, <3>9
      <4> QED BY <1>3, <3>7, <3>11, <4>1 DEF M!Cut
    <3> QED BY <3>12 DEF M!MallocNext
  <2> QED BY <1>9, <2>4, <2>5, <2>6
<1>10. CASE FreeLoad(t)
  <2>1. /\ r[t].op \in {"free", "realloc"} /\ r[t].job \in {"none", "fast", "slow", "hit", "over", "fit"}
    <3>1. pc[t] = "free_load"
      BY <1>10 DEF FreeLoad
    <3> QED BY <1>1, <3>1 DEF Place, Leaving
  <2>2. PICK b, size, k : b = BlockOf(r[t].src) /\ size = header_size(At(word0, b)) /\ k = bin_index(size)
    OBVIOUS
  <2>3. PICK top : top = b + size
    OBVIOUS
  <2>4. \/ r' = [r EXCEPT ![t].job = "free"]
        \/ r' = [r EXCEPT ![t].job = "free", ![t].blk = b, ![t].top = top, ![t].bin = k]
    BY <1>10, <2>2, <2>3 DEF FreeLoad
  <2>5. r'[t].op = r[t].op /\ r'[t].size = r[t].size /\ r'[t].src = r[t].src /\ r'[t].job = "free"
    BY <1>1, <2>4, Fields DEF Typed
  <2>6. mallocCall[t] = [op |-> r[t].op, size |-> r[t].size, src |-> r[t].src, hold |-> "whole"]
    BY <2>1, CallIs DEF CallOf
  <2>7. CallOf(r'[t]) = [mallocCall[t] EXCEPT !.hold = "given"]
    BY <2>1, <2>5, <2>6 DEF CallOf
  <2>8. mallocCall' = [mallocCall EXCEPT ![t].hold = "given"]
    BY <1>5, <2>7, CallIs
  <2>9. M!Give(t)
    BY <1>3, <2>1, <2>6, <2>8 DEF M!Give
  <2> QED BY <2>9 DEF M!MallocNext
<1> QED BY <1>6, <1>7, <1>8, <1>9, <1>10 DEF Turning

\* A slice, with the block before it, is a region of id's.
Region(own, st, id, s) ==
  /\ s.ptr \in Int /\ s.len \in Int
  /\ Held(own, st, id, s.ptr - MIN_ALIGN, s.ptr + s.len)

LEMMA SliceRegion ==
  ASSUME NEW own, NEW st, NEW id, NEW s \in SliceSet, SliceHeld(own, st, id, s)
  PROVE  Region(own, st, id, s)
<1>1. PICK b, size : b = BlockOf(s) /\ size = s.len + MIN_ALIGN
  OBVIOUS
<1>2. /\ Held(own, st, id, b, b + size) /\ b \in Nat /\ s.len \in Nat
      /\ s.ptr = b + MIN_ALIGN
  BY <1>1, SliceFacts DEF Block
<1>3. s.ptr - MIN_ALIGN = b /\ s.ptr + s.len = b + size /\ s.ptr \in Int
  BY <1>1, <1>2, HeapBounds
<1> QED BY <1>2, <1>3 DEF Region

\* Regions of two owners do not meet.
LEMMA RegionsApart ==
  ASSUME NEW own, NEW st, NEW i, NEW j, NEW s, NEW u, i # j,
         Region(own, st, i, s), Region(own, st, j, u)
  PROVE  ~M!Meet(s, u)
<1> SUFFICES ASSUME M!Meet(s, u) PROVE FALSE
  OBVIOUS
<1>1. PICK lo, hi, lo2, hi2 : /\ lo = s.ptr - MIN_ALIGN /\ hi = s.ptr + s.len
                              /\ lo2 = u.ptr - MIN_ALIGN /\ hi2 = u.ptr + u.len
  OBVIOUS
<1>2. Held(own, st, i, lo, hi) /\ Held(own, st, j, lo2, hi2)
  BY <1>1 DEF Region
<1>3. /\ lo \in Granules /\ lo \in Int /\ hi \in Int /\ lo < hi
      /\ lo2 \in Granules /\ lo2 \in Int /\ hi2 \in Int /\ lo2 < hi2
  BY <1>2, HeldFacts
<1>4. lo < hi2 /\ lo2 < hi
  <2>1. s.ptr \in Int /\ u.ptr \in Int /\ MIN_ALIGN \in Nat
    BY HeapBounds DEF Region
  <2>2. s.ptr < hi2 /\ u.ptr < hi
    BY <1>1 DEF M!Meet
  <2> QED BY <1>1, <1>3, <2>1, <2>2
<1>5. PICK a : a = IF lo <= lo2 THEN lo2 ELSE lo
  OBVIOUS
<1>6. a \in Granules /\ lo <= a /\ a < hi /\ lo2 <= a /\ a < hi2
  BY <1>3, <1>4, <1>5
<1>7. own[a] = i /\ own[a] = j
  BY <1>2, <1>6 DEF Held
<1> QED BY <1>7

\* What belongs to somebody else is somebody else's region.
LEMMA OthersRegions ==
  ASSUME NEW own, NEW st, NEW el, NEW n, HInv(own, st, el, n), booted, LInv, ContentsInv,
         NEW t \in Threads, NEW u \in M!Others(t)
  PROVE  \E id : id # DstId(t) /\ Region(own, st, id, u)
<1>1. CASE u \in live
  <2>1. u \in SliceSet /\ SliceHeld(own, st, LiveId(u), u)
    BY <1>1 DEF HInv, Types, LiveSlices
  <2>2. LiveId(u) # DstId(t)
    BY IdsDiffer DEF MyIds
  <2> QED BY <2>1, <2>2, SliceRegion
<1>2. CASE u \notin live
  <2>1. PICK v \in Threads \ {t} : mallocCall[v].hold \in {"whole", "cut"} /\ u = mallocCall[v].src
    BY <1>2 DEF M!Others
  <2>2. CallOf(r[v]).hold \in {"whole", "cut"} /\ u = CallOf(r[v]).src
    BY <2>1, CallIs
  <2>3. Typed(r[v]) /\ Hands(own, st, v) /\ Place(v) /\ Kept(v)
    BY <2>1, Here DEF ContentsInv
  <2>4. r[v].op \in {"free", "realloc"} /\ r[v].job # "free"
    BY <2>2, <2>3 DEF CallOf, Typed
  <2>5. PICK src, dst, b, top : src = r[v].src /\ dst = r[v].dst /\ b = r[v].blk /\ top = r[v].top
    OBVIOUS
  <2>6. src \in SliceSet /\ dst \in SliceSet /\ src.ptr # 0 /\ src.ptr \in Int
    BY <2>3, <2>4, <2>5 DEF Typed, Place, SliceSet
  <2>7. \A id \in MyIds(v) : id # DstId(t)
    <3>1. DstId(t) \in MyIds(t)
      BY DEF MyIds
    <3> QED BY <2>1, <3>1, IdsDiffer
  <2>8. SrcId(v) \in MyIds(v) /\ DstId(v) \in MyIds(v) /\ BlockId(v) \in MyIds(v)
    BY DEF MyIds
  <2>9. CASE r[v].job \notin {"keep", "shrink"}
    <3>1. HoldsSrc(v) /\ u = src
      BY <2>2, <2>4, <2>5, <2>6, <2>9 DEF HoldsSrc, CallOf
    <3>2. SliceHeld(own, st, SrcId(v), src)
      BY <2>3, <2>5, <3>1 DEF Hands
    <3> QED BY <2>6, <2>7, <2>8, <3>1, <3>2, SliceRegion
  <2>10. CASE r[v].job = "keep"
    <3>1. u = src /\ dst = src
      BY <2>2, <2>3, <2>4, <2>5, <2>10 DEF CallOf, Kept
    <3>2. SliceHeld(own, st, DstId(v), src)
      BY <2>3, <2>5, <2>6, <3>1 DEF Hands
    <3> QED BY <2>6, <2>7, <2>8, <3>1, <3>2, SliceRegion
  <2>11. CASE r[v].job = "shrink" /\ b = 0
    <3>1. u = [ptr |-> src.ptr, len |-> dst.len] /\ dst.ptr = src.ptr
      BY <2>2, <2>3, <2>4, <2>5, <2>11 DEF CallOf, Kept
    <3>2. u = dst
      BY <2>6, <3>1 DEF SliceSet
    <3>3. SliceHeld(own, st, DstId(v), dst)
      BY <2>3, <2>5, <2>6, <3>1 DEF Hands
    <3> QED BY <2>6, <2>7, <2>8, <3>2, <3>3, SliceRegion
  <2>12. CASE r[v].job = "shrink" /\ b # 0
    <3>1. u = [ptr |-> src.ptr, len |-> top - src.ptr] /\ b = src.ptr - MIN_ALIGN
      BY <2>2, <2>3, <2>4, <2>5, <2>12 DEF CallOf, Kept, BlockOf
    <3>2. Held(own, st, BlockId(v), b, top)
      BY <2>3, <2>5, <2>12 DEF Hands, Block
    <3>3. top \in Int
      BY <3>2 DEF Held
    <3>4. u.ptr \in Int /\ u.len \in Int /\ u.ptr - MIN_ALIGN = b /\ u.ptr + u.len = top
      BY <2>6, <3>1, <3>3
    <3>5. Region(own, st, BlockId(v), u)
      BY <3>2, <3>4 DEF Region
    <3> QED BY <2>7, <2>8, <3>5
  <2> QED BY <2>9, <2>10, <2>11, <2>12
<1> QED BY <1>1, <1>2

\* A slice that is handed out is a good one, and a new one.
LEMMA DstIsGood ==
  ASSUME SafeUse, NEW own, NEW st, NEW el, NEW n, HInv(own, st, el, n), booted, LInv, ContentsInv,
         NEW t \in Threads, r[t].dst.ptr # 0
  PROVE  M!Good(t, r[t].dst, r[t].size) /\ r[t].dst \notin live
<1>1. PICK s : s = r[t].dst
  OBVIOUS
<1>2. Typed(r[t]) /\ Hands(own, st, t) /\ Place(t)
  BY Here
<1>3. s \in SliceSet /\ SliceHeld(own, st, DstId(t), s) /\ r[t].size \in Nat /\ r[t].size <= s.len
  BY <1>1, <1>2 DEF Typed, Hands, Place
<1>4. PICK b : b = BlockOf(s)
  OBVIOUS
<1>5. /\ Block(own, st, DstId(t), b, b + (s.len + MIN_ALIGN)) /\ b \in Nat /\ b % MIN_ALIGN = 0
      /\ s.len \in Nat /\ s.ptr = b + MIN_ALIGN
      /\ b + (s.len + MIN_ALIGN) <= heap_end
  BY <1>3, <1>4, SliceFacts
<1>6. own[b] = DstId(t) /\ HeapStart <= b
  BY <1>5, HeldFacts DEF Block
<1>7. s \notin live
  <2>1. s \in live => Block(own, st, LiveId(s), b, b + (s.len + MIN_ALIGN))
    BY <1>3, <1>4 DEF HInv, LiveSlices, SliceHeld, UsedBlock
  <2>2. s \in live => own[b] = LiveId(s)
    BY <2>1, HeldFacts DEF Block
  <2>3. LiveId(s) # DstId(t)
    BY IdsDiffer DEF MyIds
  <2> QED BY <1>6, <2>2, <2>3
<1>8. s.ptr % MIN_ALIGN = 0
  <2>1. /\ MIN_ALIGN \in Nat \ {0} /\ MIN_ALIGN \in Int /\ b \in Int
        /\ b % MIN_ALIGN = 0 /\ MIN_ALIGN % MIN_ALIGN = 0
    BY <1>5, HeapBounds
  <2>2. (b + MIN_ALIGN) % MIN_ALIGN = 0
    BY <2>1, ModSum
  <2> QED BY <1>5, <2>2
<1>9. HeapStart <= s.ptr /\ s.ptr + s.len <= heap_end /\ s.len >= r[t].size
  BY <1>3, <1>5, <1>6, HeapBounds
<1>10. \A u \in M!Others(t) : ~M!Meet(s, u)
  <2>1. Region(own, st, DstId(t), s)
    BY <1>3, SliceRegion
  <2> QED BY <2>1, OthersRegions, RegionsApart
<1> QED BY <1>1, <1>7, <1>8, <1>9, <1>10 DEF M!Good

\* A call returns.
LEMMA ReturnMalloc ==
  ASSUME SafeUse, NEW own, NEW st, NEW el, NEW n, HInv(own, st, el, n), booted, LInv, ContentsInv,
         NEW t \in Threads, Return(t), Answered(t)
  PROVE  M!MallocNext
<1>1. /\ Typed(r[t]) /\ Hands(own, st, t) /\ Place(t) /\ Kept(t) /\ DOMAIN r = Threads
  BY Here DEF ContentsInv
<1>2. PICK src, dst, kept :
        /\ src = r[t].src /\ dst = r[t].dst
        /\ kept = IF r[t].op = "realloc" /\ dst = NullSlice THEN src ELSE dst
  OBVIOUS
<1>3. /\ pc[t] = "return" /\ live' = live \cup ({kept} \ {NullSlice})
      /\ r' = [r EXCEPT ![t] = NoLocals]
  BY <1>2 DEF Return
<1>4. /\ r[t].op \in {"alloc", "free", "realloc"} /\ r[t].blk = 0
      /\ (dst.ptr = 0) = (dst = NullSlice)
      /\ r[t].op = "free" => dst.ptr = 0
      /\ r[t].op = "realloc" /\ dst.ptr = 0 => r[t].job \notin {"keep", "shrink", "free"}
      /\ r[t].op \in {"free", "realloc"} => src.ptr # 0
  BY <1>1, <1>2, <1>3 DEF Place, Hands, NullSlice
<1>5. mallocCall' = [mallocCall EXCEPT ![t] = M!NoCall]
  <2>1. CallOf(r'[t]) = M!NoCall
    BY <1>1, <1>3 DEF CallOf, NoLocals, M!NoCall, M!Null, NullSlice
  <2>2. \A u \in Threads \ {t} : r'[u] = r[u]
    BY <1>1, <1>3
  <2> QED BY <2>1, <2>2, CallMoves
<1>6. mallocCall[t] = CallOf(r[t])
  BY CallIs
<1>7. CASE dst.ptr = 0 /\ r[t].op = "alloc"
  <2>1. mallocCall[t].op = "alloc" /\ live' = live
    BY <1>2, <1>3, <1>4, <1>6, <1>7 DEF CallOf
  <2>2. M!Fail(t)
    BY <1>5, <2>1 DEF M!Fail
  <2> QED BY <2>2 DEF M!MallocNext
<1>8. CASE r[t].op = "free"
  <2>1. r[t].job = "free"
    BY <1>1, <1>3, <1>8 DEF Answered, Kept
  <2>2. mallocCall[t].op = "free" /\ mallocCall[t].hold = "given"
    BY <1>6, <1>8, <2>1 DEF CallOf
  <2>3. live' = live
    BY <1>2, <1>3, <1>4, <1>8
  <2>4. M!Finish(t)
    BY <1>5, <2>2, <2>3 DEF M!Finish
  <2> QED BY <2>4 DEF M!MallocNext
<1>9. CASE dst.ptr = 0 /\ r[t].op = "realloc"
  <2>1. mallocCall[t].op = "realloc" /\ mallocCall[t].hold = "whole" /\ mallocCall[t].src = src
    BY <1>2, <1>4, <1>6, <1>9 DEF CallOf
  <2>2. live' = live \cup {src}
    BY <1>2, <1>3, <1>4, <1>9 DEF NullSlice
  <2>3. M!Fail(t)
    BY <1>5, <2>1, <2>2 DEF M!Fail
  <2> QED BY <2>3 DEF M!MallocNext
<1>10. CASE dst.ptr # 0 /\ r[t].op \in {"alloc", "realloc"}
  <2>1. M!Good(t, dst, r[t].size) /\ dst \notin live
    BY <1>2, <1>10, DstIsGood
  <2>2. kept = dst /\ dst # NullSlice /\ live' = live \cup {dst}
    BY <1>2, <1>3, <1>4, <1>10
  <2>3. mallocCall[t].op \in {"alloc", "realloc"} /\ mallocCall[t].size = r[t].size
    BY <1>6, <1>10 DEF CallOf
  <2>4. mallocCall[t].hold \in {"whole", "cut"} =>
          dst.ptr = mallocCall[t].src.ptr /\ dst.len <= mallocCall[t].src.len
    <3>1. CASE r[t].op = "alloc"
      BY <1>6, <3>1 DEF CallOf
    <3>2. CASE r[t].op = "realloc" /\ r[t].job = "free"
      BY <1>6, <3>2 DEF CallOf
    <3>3. CASE r[t].op = "realloc" /\ r[t].job = "keep"
      <4>1. dst = src /\ dst.len \in Int
        BY <1>1, <1>2, <3>3 DEF Kept, Typed, SliceSet
      <4>2. mallocCall[t].src = src
        BY <1>2, <1>6, <3>3 DEF CallOf
      <4> QED BY <4>1, <4>2
    <3>4. CASE r[t].op = "realloc" /\ r[t].job = "shrink"
      <4>1. dst.ptr = src.ptr /\ dst.len \in Int
        BY <1>1, <1>2, <1>4, <3>4 DEF Kept, Typed, SliceSet
      <4>2. mallocCall[t].src = [ptr |-> src.ptr, len |-> dst.len]
        BY <1>2, <1>4, <1>6, <3>4 DEF CallOf
      <4> QED BY <4>1, <4>2
    <3>5. r[t].op = "realloc" => r[t].job \in {"keep", "shrink", "free"}
      BY <1>2, <1>3, <1>10 DEF Answered
    <3> QED BY <1>10, <3>1, <3>2, <3>3, <3>4, <3>5
  <2>5. M!Succeed(t, dst)
    BY <1>5, <2>1, <2>2, <2>3, <2>4 DEF M!Succeed
  <2>6. dst \in live' \ live
    BY <2>1, <2>2
  <2> QED BY <2>5, <2>6 DEF M!MallocNext
<1> QED BY <1>4, <1>7, <1>8, <1>9, <1>10

\* A heap that is being prepared has nobody returning.
LEMMA EarlyAnswered == ~booted /\ HeapInv => \A t \in Threads : Answered(t)
<1> SUFFICES ASSUME ~booted, HeapInv, NEW t \in Threads PROVE Answered(t)
  OBVIOUS
<1>1. OffHeap(t) \/ Initialising(t)
  BY DEF HeapInv, Preparing
<1> QED BY <1>1 DEF OffHeap, Initialising, Answered

\* Nor has it after a step.
LEMMA EarlyAnsweredNext == (~booted /\ HeapInv => \A t \in Threads : Answered(t))'
BY EarlyAnswered, PTL

\* Every answer settles the old block.
LEMMA NextAnswered ==
  ASSUME SafeUse, LInv, HeapInv, HeapInv', \A t \in Threads : Answered(t), [Next]_vars
  PROVE  \A t \in Threads : Answered(t)'
<1>1. CASE UNCHANGED vars
  BY <1>1 DEF vars, Answered
<1>2. ASSUME NEW t \in Threads, SetupStep(t) PROVE \A u \in Threads : Answered(u)'
  <2>1. CASE ~booted'
    BY <2>1, EarlyAnsweredNext
  <2>2. CASE booted' /\ ~booted
    <3>1. \A u \in Threads : OffHeap(u) \/ Initialising(u)
      BY <2>2 DEF HeapInv, Preparing
    <3>2. InitLock(t)
      BY <1>2, <2>2 DEF SetupStep, InitCall, VerifyMagic, Prepare, InitMagic, InitPrint, InitHead,
         InitBump, VerifyPrint, client, setup
    <3>3. \A u \in Threads : pc'[u] # "return"
      <4>1. DOMAIN pc = Threads
        BY <2>2 DEF HeapInv, Preparing
      <4> QED BY <3>1, <3>2, <4>1 DEF InitLock, Goto, OffHeap, Initialising
    <3> QED BY <3>3 DEF Answered
  <2>3. CASE booted
    <3>1. VerifyMagic(t) \/ VerifyPrint(t)
      <4>1. ~Initialising(t)
        BY <2>3 DEF LInv, InitAlone
      <4> QED BY <1>2, <2>3, <4>1 DEF SetupStep, InitCall, Prepare, InitMagic, InitPrint, InitHead,
              InitBump, InitLock, Initialising
    <3>2. PICK own, st, el, n : HInv(own, st, el, n)
      BY <2>3 DEF HeapInv
    <3>3. \A u \in Threads : r'[u] = r[u] /\ (pc'[u] = "return" => pc[u] = "return")
      <4>1. pc \in [Threads -> Labels]
        BY <3>2, Here
      <4> QED BY <3>1, <4>1 DEF VerifyMagic, VerifyPrint, Goto
    <3> QED BY <3>3 DEF Answered
  <2> QED BY <2>1, <2>2, <2>3
<1>3. ASSUME NEW t \in Threads, Call(t) \/ Step(t) PROVE \A u \in Threads : Answered(u)'
  <2>1. booted
    <3>1. ~booted => Preparing
      BY DEF HeapInv
    <3> QED BY <1>3, <3>1, EarlyIdle
  <2>2. PICK own, st, el, n : HInv(own, st, el, n)
    BY <2>1 DEF HeapInv
  <2> QED BY <1>3, <2>1, <2>2, AnsweredStep
<1> QED BY <1>1, <1>2, <1>3 DEF Next, SetupStep

\* Every step is one of the contract, or none.
LEMMA NextMalloc ==
  ASSUME SafeUse, LInv, HeapInv, ContentsInv, \A t \in Threads : Answered(t), [Next]_vars
  PROVE  M!MallocNext \/ UNCHANGED M!mallocVars
<1>1. CASE UNCHANGED vars
  BY <1>1 DEF vars, M!mallocVars, mallocCall
<1>2. ASSUME NEW t \in Threads, SetupStep(t) PROVE UNCHANGED M!mallocVars
  BY <1>2, SetupMalloc
<1>3. ASSUME NEW t \in Threads, Call(t) \/ Step(t) PROVE M!MallocNext \/ UNCHANGED M!mallocVars
  <2>1. booted
    <3>1. ~booted => Preparing
      BY DEF HeapInv
    <3> QED BY <1>3, <3>1, EarlyIdle
  <2>2. PICK own, st, el, n : HInv(own, st, el, n)
    BY <2>1 DEF HeapInv
  <2>3. Alone(t)
    BY <1>3, StepAlone DEF LInv
  <2>4. CASE Call(t)
    BY <2>2, <2>4, CallMalloc
  <2>5. CASE Return(t)
    BY <2>1, <2>2, <2>5, ReturnMalloc
  <2>6. CASE Step(t) /\ Turning(t) /\ ~Return(t)
    BY <2>2, <2>6, TurnMalloc
  <2>7. CASE Step(t) /\ ~Turning(t)
    <3>1. Plain(t)
      BY <2>1, <2>2, <2>7, PlainSteps
    <3> QED BY <2>2, <2>3, <3>1, PlainMalloc
  <2> QED BY <1>3, <2>4, <2>5, <2>6, <2>7
<1> QED BY <1>1, <1>2, <1>3 DEF Next, SetupStep

(* Seen by its callers the allocator is a concurrent malloc: whatever the     *)
(* other threads are doing, a call that succeeds returns an aligned slice in  *)
(* the heap that is as large as requested and apart from every slice anybody  *)
(* else owns, and a realloc that fails returns the slice untouched            *)
(* (allocator.rs, alloc, free and realloc).                                   *)
THEOREM AllocatorIsMalloc ==
  ASSUME SafeUse
  PROVE  Spec /\ HonestPops => RefinesMalloc
<1>1. Init => M!MallocInit /\ ContentsInv /\ \A t \in Threads : Answered(t)
  <2> SUFFICES ASSUME Init PROVE M!MallocInit /\ ContentsInv /\ \A t \in Threads : Answered(t)
    OBVIOUS
  <2>1. live = {} /\ r = [t \in Threads |-> NoLocals] /\ pc = [t \in Threads |-> "idle"]
    BY DEF Init
  <2>2. CallOf(NoLocals) = M!NoCall
    BY DEF CallOf, NoLocals, M!NoCall, M!Null, NullSlice
  <2>3. mallocCall = [t \in Threads |-> CallOf(r[t])]
    BY DEF mallocCall, CallOf
  <2>4. mallocCall = [t \in Threads |-> M!NoCall]
    BY <2>1, <2>2, <2>3
  <2>5. ContentsInv
    BY EmptyContents, InitPreparing DEF Preparing, EmptyHeap
  <2>6. \A t \in Threads : Answered(t)
    BY <2>1 DEF Answered
  <2> QED BY <2>1, <2>4, <2>5, <2>6 DEF M!MallocInit
<1>2. LInv /\ HeapInv /\ HeapInv' /\ ContentsInv /\ [Next]_vars => ContentsInv'
  BY NextContents
<1>3. LInv /\ HeapInv /\ HeapInv' /\ (\A t \in Threads : Answered(t)) /\ [Next]_vars
        => (\A t \in Threads : Answered(t))'
  BY NextAnswered
<1>4. LInv /\ HeapInv /\ ContentsInv /\ (\A t \in Threads : Answered(t)) /\ [Next]_vars
        => [M!MallocNext]_(M!mallocVars)
  BY NextMalloc
<1> QED BY <1>1, <1>2, <1>3, <1>4, LInvHolds, HeapInvHolds, PTL
        DEF Spec, RefinesMalloc, M!MallocSpec

-----------------------------------------------------------------------------
(* The bins are stacks: how a list is read off head and links.             *)

\* The links w lead from h through f[m], ..., f[1] to the 0 at the end.
Chain(w, h, f, m) ==
  /\ f \in [Nat -> Int] /\ m \in Nat /\ f[0] = 0 /\ f[m] = h
  /\ \A i \in 1 .. m : f[i] # 0 /\ w[f[i]] = f[i - 1]

\* Head and links determine a list.
LEMMA SameChain ==
  ASSUME NEW w, NEW h, NEW f, NEW m, NEW g, NEW p, Chain(w, h, f, m), Chain(w, h, g, p)
  PROVE  m = p /\ \A i \in 0 .. m : f[i] = g[i]
<1> DEFINE S == {j \in Nat : j <= m => j <= p /\ f[m - j] = g[p - j]}
<1>1. m \in Nat /\ p \in Nat /\ f[0] = 0 /\ g[0] = 0
  BY DEF Chain
<1>2. 0 \in S
  <2>1. f[m] = g[p] /\ m - 0 = m /\ p - 0 = p
    BY <1>1 DEF Chain
  <2> QED BY <1>1, <2>1
<1>3. ASSUME NEW j \in Nat, j \in S PROVE j + 1 \in S
  <2>1. SUFFICES ASSUME j + 1 <= m PROVE j + 1 <= p /\ f[m - (j + 1)] = g[p - (j + 1)]
    OBVIOUS
  <2>2. PICK a \in Nat : a = m - j
    BY <1>1, <2>1
  <2>3. a \in 1 .. m /\ j <= p /\ f[a] = g[p - j]
    BY <1>1, <1>3, <2>1, <2>2
  <2>4. PICK b \in Nat : b = p - j
    BY <1>1, <2>3
  <2>5. f[a] # 0 /\ w[f[a]] = f[a - 1]
    BY <2>3 DEF Chain
  <2>6. b # 0
    BY <1>1, <2>3, <2>4, <2>5
  <2>7. b \in 1 .. p
    BY <1>1, <2>4, <2>6
  <2>8. w[g[b]] = g[b - 1]
    BY <2>7 DEF Chain
  <2>9. a - 1 = m - (j + 1) /\ b - 1 = p - (j + 1) /\ j + 1 <= p
    BY <1>1, <2>2, <2>4, <2>7
  <2> QED BY <2>3, <2>4, <2>5, <2>8, <2>9
<1>4. Nat \subseteq S
  <2> HIDE DEF S
  <2> QED BY <1>2, <1>3, SetInduction
<1>5. \A j \in 0 .. m : j <= p /\ f[m - j] = g[p - j]
  BY <1>1, <1>4
<1>6. m = p
  <2>1. m <= p /\ f[m - m] = g[p - m] /\ m - m = 0
    BY <1>1, <1>5
  <2>2. p - m \in 1 .. p => g[p - m] # 0
    BY DEF Chain
  <2> QED BY <1>1, <2>1, <2>2
<1>7. ASSUME NEW i \in 0 .. m PROVE f[i] = g[i]
  <2>1. m - i \in 0 .. m /\ m - (m - i) = i
    BY <1>1
  <2> QED BY <1>5, <1>6, <2>1
<1> QED BY <1>6, <1>7

\* A list from its top down.
FromTop(f, m) == [i \in 1 .. m |-> f[m + 1 - i]]

\* What push and pop do to it.
LEMMA PushOnTop ==
  ASSUME NEW m \in Nat, NEW f \in [Nat -> Int], NEW g \in [Nat -> Int],
         \A i \in 1 .. m : g[i] = f[i]
  PROVE  FromTop(g, m + 1) = <<g[m + 1]>> \o FromTop(f, m)
<1>1. PICK s, u : s = FromTop(g, m + 1) /\ u = FromTop(f, m)
  OBVIOUS
<1>2. /\ s = [i \in 1 .. m + 1 |-> g[m + 2 - i]] /\ u = [i \in 1 .. m |-> f[m + 1 - i]]
  <2>1. m + 1 + 1 = m + 2
    OBVIOUS
  <2> QED BY <1>1, <2>1 DEF FromTop
<1>3. u \in Seq(Int) /\ Len(u) = m
  <2>1. \A i \in 1 .. m : m + 1 - i \in Nat
    OBVIOUS
  <2> QED BY <1>2, <2>1
<1>4. PICK x \in Int : x = g[m + 1]
  OBVIOUS
<1>5. PICK v : v = <<x>> \o u
  OBVIOUS
<1>6. v \in Seq(Int) /\ Len(v) = m + 1 /\ v[1] = x /\ \A i \in 2 .. m + 1 : v[i] = u[i - 1]
  BY <1>3, <1>5
<1>7. s \in Seq(Int) /\ Len(s) = m + 1
  <2>1. \A i \in 1 .. m + 1 : m + 2 - i \in Nat
    OBVIOUS
  <2> QED BY <1>2, <2>1
<1>8. ASSUME NEW i \in 1 .. m + 1 PROVE s[i] = v[i]
  <2>1. CASE i = 1
    <3>1. m + 2 - 1 = m + 1
      OBVIOUS
    <3> QED BY <1>2, <1>4, <1>6, <2>1, <3>1
  <2>2. CASE i # 1
    <3>1. i \in 2 .. m + 1 /\ i - 1 \in 1 .. m /\ m + 1 - (i - 1) = m + 2 - i /\ m + 2 - i \in 1 .. m
      BY <2>2
    <3>2. u[i - 1] = f[m + 2 - i] /\ s[i] = g[m + 2 - i]
      BY <1>2, <3>1
    <3> QED BY <1>6, <3>1, <3>2
  <2> QED BY <2>1, <2>2
<1>9. s = v
  BY <1>6, <1>7, <1>8, SeqEqual
<1> QED BY <1>1, <1>4, <1>5, <1>9

LEMMA PopOffTop ==
  ASSUME NEW m \in Nat \ {0}, NEW f \in [Nat -> Int]
  PROVE  LET s == FromTop(f, m)
         IN s # <<>> /\ Head(s) = f[m] /\ Tail(s) = FromTop(f, m - 1)
<1>1. PICK s, u : s = FromTop(f, m) /\ u = FromTop(f, m - 1)
  OBVIOUS
<1>2. s = [i \in 1 .. m |-> f[m + 1 - i]] /\ u = [i \in 1 .. m - 1 |-> f[m - i]]
  <2>1. m - 1 + 1 = m
    OBVIOUS
  <2> QED BY <1>1, <2>1 DEF FromTop
<1>3. s \in Seq(Int) /\ Len(s) = m
  <2>1. \A i \in 1 .. m : m + 1 - i \in Nat
    OBVIOUS
  <2> QED BY <1>2, <2>1
<1>4. u \in Seq(Int) /\ Len(u) = m - 1
  <2>1. \A i \in 1 .. m - 1 : m - i \in Nat
    OBVIOUS
  <2> QED BY <1>2, <2>1
<1>5. s # <<>> /\ Head(s) = s[1] /\ Tail(s) \in Seq(Int) /\ Len(Tail(s)) = m - 1
      /\ \A i \in 1 .. m - 1 : Tail(s)[i] = s[i + 1]
  BY <1>3
<1>6. s[1] = f[m]
  <2>1. m + 1 - 1 = m /\ 1 \in 1 .. m
    OBVIOUS
  <2> QED BY <1>2, <2>1
<1>7. ASSUME NEW i \in 1 .. m - 1 PROVE Tail(s)[i] = u[i]
  <2>1. i + 1 \in 1 .. m /\ m + 1 - (i + 1) = m - i
    OBVIOUS
  <2> QED BY <1>2, <1>5, <2>1
<1>8. Tail(s) = u
  BY <1>4, <1>5, <1>7, SeqEqual
<1> QED BY <1>1, <1>5, <1>6, <1>8

\* The invariant's list is the one read off head and links.
LEMMA ListChain ==
  \A own, st, el, n : HInv(own, st, el, n) =>
    \A k \in Bins : /\ Chain(word1, AddrOf(head[k]), el[k], n[k])
                    /\ FreeSeq(k) = FromTop(el[k], n[k])
<1> SUFFICES ASSUME NEW own, NEW st, NEW el, NEW n, HInv(own, st, el, n), NEW k \in Bins
             PROVE  /\ Chain(word1, AddrOf(head[k]), el[k], n[k])
                    /\ FreeSeq(k) = FromTop(el[k], n[k])
  OBVIOUS
<1>1. /\ Lists(own, st, el, n) /\ n[k] \in Nat /\ el[k] \in [Nat -> Int]
  BY DEF HInv, Types
<1>2. Chain(word1, AddrOf(head[k]), el[k], n[k])
  <2>1. el[k][0] = 0 /\ el[k][n[k]] = AddrOf(head[k])
    BY <1>1 DEF Lists
  <2>2. \A i \in 1 .. n[k] : el[k][i] # 0 /\ word1[el[k][i]] = el[k][i - 1]
    BY <1>1, ListBlock
  <2> QED BY <1>1, <2>1, <2>2 DEF Chain
<1>3. FreeSeq(k) = FromTop(el[k], n[k])
  <2>1. PICK w, e, f : w = Walk(k) /\ e = n[k] /\ f = el[k]
    OBVIOUS
  <2>2. w = [j \in 1 .. e + 1 |-> f[e + 1 - j]] /\ e \in Nat /\ f \in [Nat -> Int]
    BY <1>1, <2>1, WalkIs
  <2>3. \A j \in 1 .. e + 1 : e + 1 - j \in Nat
    BY <2>2
  <2>4. w \in Seq(Int) /\ Len(w) = e + 1
    BY <2>2, <2>3
  <2>5. w[Len(w)] = 0
    BY <2>1, FreeSetIs
  <2>6. FreeSeq(k) = SubSeq(w, 1, e)
    <3>1. FreeSeq(k) = SubSeq(w, 1, Len(w) - 1)
      BY <2>1, <2>5 DEF FreeSeq
    <3>2. Len(w) - 1 = e
      BY <2>2, <2>4
    <3> QED BY <3>1, <3>2
  <2>7. PICK u : u = SubSeq(w, 1, e)
    OBVIOUS
  <2>8. u = [j \in 1 .. e |-> w[j]]
    <3>1. u = [j \in 1 .. e - 1 + 1 |-> w[1 + j - 1]]
      BY <2>2, <2>4, <2>7
    <3>2. e - 1 + 1 = e /\ \A j \in 1 .. e : 1 + j - 1 = j
      BY <2>2
    <3> QED BY <3>1, <3>2
  <2>9. \A j \in 1 .. e : w[j] = f[e + 1 - j]
    BY <2>2
  <2>10. u = [j \in 1 .. e |-> f[e + 1 - j]]
    BY <2>8, <2>9
  <2> QED BY <2>1, <2>6, <2>7, <2>10 DEF FromTop
<1> QED BY <1>2, <1>3

-----------------------------------------------------------------------------
(* What a thread is doing on a bin.                                        *)

IdleCall == [op |-> "idle", blk |-> 0]
PopCall == [op |-> "pop", blk |-> 0]
PushCall(b) == [op |-> "push", blk |-> b]
GotCall(b) == [op |-> "got", blk |-> b]

Claim(k, t) ==
  IF r[t].bin # k THEN IdleCall
  ELSE IF Pushing(t) THEN PushCall(Piece(t))
  ELSE IF Popping(t) THEN PopCall
  ELSE IF pc[t] \in {"stamp", "unlock"} /\ r[t].job \in {"fast", "hit"} THEN GotCall(r[t].blk)
  ELSE IdleCall

\* Where it is doing nothing on any bin.
Away(t) ==
  /\ ~Pushing(t) /\ ~Popping(t)
  /\ pc[t] \in {"stamp", "unlock"} => r[t].job \notin {"fast", "hit"}

LEMMA ClaimIs ==
  ASSUME NEW k
  PROVE  DOMAIN binCall(k) = Threads /\ \A t \in Threads : binCall(k)[t] = Claim(k, t)
BY DEF binCall, Claim, IdleCall, PushCall, PopCall, GotCall

\* A step changes the claim of its thread.
LEMMA ClaimMoves ==
  ASSUME NEW k, NEW t \in Threads, Alone(t)
  PROVE  binCall(k)' = [binCall(k) EXCEPT ![t] = Claim(k, t)']
<1>1. binCall(k)' = [u \in Threads |-> Claim(k, u)']
  BY DEF binCall, Claim, IdleCall, PushCall, PopCall, GotCall
<1>2. binCall(k) = [u \in Threads |-> Claim(k, u)]
  BY DEF binCall, Claim, IdleCall, PushCall, PopCall, GotCall
<1>3. \A u \in Threads \ {t} : Claim(k, u)' = Claim(k, u)
  BY DEF Alone, Claim, Pushing, Popping, Piece
<1> QED BY <1>1, <1>2, <1>3

LEMMA AwayIsIdle ==
  ASSUME NEW k, NEW t
  PROVE  /\ Away(t) => Claim(k, t) = IdleCall
         /\ Away(t)' => Claim(k, t)' = IdleCall
<1>1. Away(t) => Claim(k, t) = IdleCall
  BY DEF Away, Claim
<1>2. Away(t)' => Claim(k, t)' = IdleCall
  BY DEF Away, Claim
<1> QED BY <1>1, <1>2

SameBin(k) == (Bin(k)!absVars)' = Bin(k)!absVars

\* What the contract calls a step.
LEMMA BinSteps ==
  ASSUME NEW k, NEW t \in Threads, booted, booted', Alone(t)
  PROVE  /\ FreeSeq(k)' = FreeSeq(k) /\ Claim(k, t)' = Claim(k, t) => SameBin(k)
         /\ FreeSeq(k)' = FreeSeq(k) /\ Claim(k, t) = IdleCall /\ Claim(k, t)' = PopCall
              => Bin(k)!AbsNext
         /\ FreeSeq(k)' = FreeSeq(k) /\ Claim(k, t).op = "got" /\ Claim(k, t)' = IdleCall
              => Bin(k)!AbsNext
         /\ FreeSeq(k)' = FreeSeq(k) /\ FreeSeq(k) = <<>> /\ Claim(k, t) = PopCall /\ Claim(k, t)' = IdleCall
              => Bin(k)!AbsNext
         /\ \A b \in Granules : FreeSeq(k)' = FreeSeq(k) /\ Claim(k, t) = IdleCall /\ Claim(k, t)' = PushCall(b)
              /\ b \notin Bin(k)!Taken => Bin(k)!AbsNext
         /\ \A b : FreeSeq(k)' = <<b>> \o FreeSeq(k) /\ Claim(k, t) = PushCall(b) /\ Claim(k, t)' = IdleCall
              => Bin(k)!AbsNext
         /\ FreeSeq(k) # <<>> /\ FreeSeq(k)' = Tail(FreeSeq(k)) /\ Claim(k, t) = PopCall
              /\ Claim(k, t)' = GotCall(Head(FreeSeq(k)))
              => Bin(k)!AbsNext
<1>1. /\ binCall(k)' = [binCall(k) EXCEPT ![t] = Claim(k, t)']
      /\ binCall(k)[t] = Claim(k, t) /\ DOMAIN binCall(k) = Threads
  BY ClaimMoves, ClaimIs
<1>2. FreeSeq(k)' = FreeSeq(k) /\ Claim(k, t)' = Claim(k, t) => SameBin(k)
  <2>1. Bin(k)!absVars = <<FreeSeq(k), binCall(k)>>
    BY DEF Bin!absVars
  <2>2. (Bin(k)!absVars)' = <<FreeSeq(k)', binCall(k)'>>
    BY DEF Bin!absVars
  <2>3. binCall(k) = [u \in Threads |-> binCall(k)[u]]
    BY DEF binCall
  <2>4. Claim(k, t)' = binCall(k)[t] => binCall(k)' = binCall(k)
    BY <1>1, <2>3
  <2> QED BY <1>1, <2>1, <2>2, <2>4 DEF SameBin
<1>3. FreeSeq(k)' = FreeSeq(k) /\ Claim(k, t) = IdleCall /\ Claim(k, t)' = PopCall => Bin(k)!CallPop(t)
  BY <1>1 DEF Bin!CallPop, Bin!Idle, Bin!Popping, IdleCall, PopCall
<1>4. FreeSeq(k)' = FreeSeq(k) /\ Claim(k, t).op = "got" /\ Claim(k, t)' = IdleCall => Bin(k)!Return(t)
  BY <1>1 DEF Bin!Return, Bin!Idle, IdleCall
<1>5. FreeSeq(k)' = FreeSeq(k) /\ FreeSeq(k) = <<>> /\ Claim(k, t) = PopCall /\ Claim(k, t)' = IdleCall
        => Bin(k)!PopEmpty(t)
  BY <1>1 DEF Bin!PopEmpty, Bin!Idle, Bin!Popping, IdleCall, PopCall
<1>6. ASSUME NEW b \in Granules, FreeSeq(k)' = FreeSeq(k), Claim(k, t) = IdleCall, Claim(k, t)' = PushCall(b),
             b \notin Bin(k)!Taken
      PROVE  Bin(k)!CallPush(t, b)
  BY <1>1, <1>6 DEF Bin!CallPush, Bin!Idle, Bin!Pushing, IdleCall, PushCall
<1>7. ASSUME NEW b, FreeSeq(k)' = <<b>> \o FreeSeq(k), Claim(k, t) = PushCall(b), Claim(k, t)' = IdleCall
      PROVE  Bin(k)!Push(t)
  BY <1>1, <1>7 DEF Bin!Push, Bin!Idle, IdleCall, PushCall
<1>8. FreeSeq(k) # <<>> /\ FreeSeq(k)' = Tail(FreeSeq(k)) /\ Claim(k, t) = PopCall
        /\ Claim(k, t)' = GotCall(Head(FreeSeq(k))) => Bin(k)!Pop(t)
  BY <1>1 DEF Bin!Pop, Bin!Popping, PopCall, GotCall
<1> QED BY <1>2, <1>3, <1>4, <1>5, <1>6, <1>7, <1>8 DEF Bin!AbsNext

-----------------------------------------------------------------------------
(* What a step makes of a list.                                            *)

LEMMA ListChainPrimed ==
  (\A own, st, el, n : HInv(own, st, el, n) =>
     \A k \in Bins : /\ Chain(word1, AddrOf(head[k]), el[k], n[k])
                     /\ FreeSeq(k) = FromTop(el[k], n[k]))'
BY ListChain, PTL

LEMMA ListChainNext ==
  ASSUME NEW own, NEW st, NEW el, NEW n, HInv(own, st, el, n)', NEW k \in Bins
  PROVE  /\ Chain(word1', AddrOf(head'[k]), el[k], n[k])
         /\ FreeSeq(k)' = FromTop(el[k], n[k])
<1>1. \A own2, st2, el2, n2 : HInv(own2, st2, el2, n2)' =>
        \A k2 \in Bins : /\ Chain(word1, AddrOf(head[k2]), el2[k2], n2[k2])'
                         /\ FreeSeq(k2)' = FromTop(el2[k2], n2[k2])
  BY ListChainPrimed
<1>2. Chain(word1, AddrOf(head[k]), el[k], n[k])' /\ FreeSeq(k)' = FromTop(el[k], n[k])
  BY <1>1
<1> QED BY <1>2 DEF Chain, AddrOf

\* However the new list is found, it is the one that head and links say.
LEMMA ListAfter ==
  ASSUME booted', HeapInv', NEW k \in Bins, NEW f, NEW m, Chain(word1', AddrOf(head'[k]), f, m)
  PROVE  FreeSeq(k)' = FromTop(f, m)
<1>1. PICK own, st, el, n : HInv(own, st, el, n)'
  BY DEF HeapInv
<1>2. PICK g, p : g = el[k] /\ p = n[k]
  OBVIOUS
<1>3. Chain(word1', AddrOf(head'[k]), g, p) /\ FreeSeq(k)' = FromTop(g, p)
  BY <1>1, <1>2, ListChainNext
<1>4. m = p /\ \A i \in 0 .. m : f[i] = g[i]
  BY <1>3, SameChain
<1>5. m \in Nat
  BY DEF Chain
<1>6. \A i \in 1 .. m : m + 1 - i \in 0 .. m
  BY <1>5
<1>7. FromTop(f, m) = FromTop(g, p)
  BY <1>4, <1>6 DEF FromTop
<1> QED BY <1>3, <1>7

\* Which steps change the head of a fixed bin.
LEMMA OnlySwapsMoveHeads ==
  ASSUME head \in [Bins -> Nat], NEW t \in Threads, Call(t) \/ Step(t), NEW k \in FixedBins,
         ~(Swap(t) /\ r[t].bin = k)
  PROVE  head'[k] = head[k]
<1> USE DEF control
<1>1. k \in Bins /\ k # oversize_bin
  BY FixedFacts
<1>2. CASE Swap(t)
  BY <1>1, <1>2 DEF Swap, PushCas, PopCas
<1>3. CASE CarveGap(t) \/ SplitCarve(t) \/ OverPush(t) \/ FitTake(t)
  BY <1>1, <1>3 DEF CarveGap, SplitCarve, Release, OverPush, FitTake
<1>4. CASE ~Swap(t) /\ ~(CarveGap(t) \/ SplitCarve(t) \/ OverPush(t) \/ FitTake(t))
  <2>1. head' = head
    BY <1>4 DEF Call, Step, AllocCall, FreeCall, FreeAgain, ReallocCall, MayCall, Lock, Unlock,
       PushLoad, PushStore, PushRetry, PopEmpty, PopLoad, PopNext, PopRetry, Stamp, Got,
       RefillFixed, Bump, FitHead, FitSkip, RefillOversize, OverStamp, SplitDone,
       ReallocKeep, ReallocShrink, ReallocGrow, Copy, FreeLoad, FreeStamp, Return
  <2> QED BY <2>1
<1> QED BY <1>2, <1>3, <1>4

\* No step writes the link of a block on a fixed list.
LEMMA LinksStay ==
  ASSUME SafeUse, NEW own, NEW st, NEW el, NEW n, HInv(own, st, el, n), booted, LInv,
         NEW t \in Threads, Call(t) \/ Step(t), NEW k \in FixedBins, NEW i \in 1 .. n[k]
  PROVE  word1'[el[k][i]] = word1[el[k][i]]
<1>1. CASE ~Writes(t)
  BY <1>1, OnlyWritesWrite
<1>2. CASE Step(t)
  <2>1. Lists(own, st, el, n) /\ k \in Bins /\ k # oversize_bin
    BY FixedFacts DEF HInv
  <2>2. PICK a : a = el[k][i]
    OBVIOUS
  <2>3. a \in Granules /\ own[a] = BinId(k, a)
    BY <2>1, <2>2, ListBlock
  <2>4. ~Touchable(own, t, a)
    <3>1. own[a] \notin MyIds(t)
      BY <2>3, IdsDiffer
    <3>2. \A b : own[a] # BinId(oversize_bin, b)
      BY <2>1, <2>3, IdsDiffer
    <3> QED BY <3>1, <3>2 DEF Touchable, MyIds
  <2>5. Unwritten(own, t)
    BY <1>2, StepWrites
  <2> QED BY <2>2, <2>3, <2>4, <2>5 DEF Unwritten
<1>3. Call(t) => ~Writes(t)
  BY DEF Call, AllocCall, FreeCall, FreeAgain, ReallocCall, MayCall, Writes, PushStore, Stamp,
     OverStamp, SplitDone, FreeStamp, OverPush, CarveGap, SplitCarve, FitTake, Copy, Return
<1> QED BY <1>1, <1>2, <1>3

\* A step other than a swap on it leaves a fixed list alone.
LEMMA ListStays ==
  ASSUME SafeUse, NEW own, NEW st, NEW el, NEW n, HInv(own, st, el, n), booted, LInv,
         booted', HeapInv',
         NEW t \in Threads, Call(t) \/ Step(t), NEW k \in FixedBins, ~(Swap(t) /\ r[t].bin = k)
  PROVE  FreeSeq(k)' = FreeSeq(k)
<1>1. k \in Bins
  BY FixedFacts
<1>2. PICK f, m : f = el[k] /\ m = n[k]
  OBVIOUS
<1>3. Chain(word1, AddrOf(head[k]), f, m) /\ FreeSeq(k) = FromTop(f, m)
  BY <1>1, <1>2, ListChain
<1>4. head'[k] = head[k]
  <2>1. head \in [Bins -> Nat]
    BY Here
  <2> QED BY <2>1, OnlySwapsMoveHeads
<1>5. \A i \in 1 .. m : word1'[f[i]] = word1[f[i]]
  BY <1>2, LinksStay
<1>6. Chain(word1', AddrOf(head'[k]), f, m)
  BY <1>3, <1>4, <1>5 DEF Chain
<1> QED BY <1>1, <1>3, <1>6, ListAfter

\* push_fixed puts a block on top.
LEMMA ListPushed ==
  ASSUME SafeUse, NEW own, NEW st, NEW el, NEW n, HInv(own, st, el, n), booted, LInv,
         booted', HeapInv', NEW t \in Threads, PushCas(t), NEW k, k = r[t].bin
  PROVE  FreeSeq(k)' = <<Piece(t)>> \o FreeSeq(k)
<1>1. PICK b, old : b = Piece(t) /\ old = r[t].old
  OBVIOUS
<1>2. /\ Moving(own, st, t) /\ head \in [Bins -> Nat] /\ pc[t] = "push_cas" /\ Pushing(t)
  BY Here DEF PushCas, Pushing
<1>3. /\ k \in FixedBins /\ k \in Bins /\ FreeBlock(own, st, PushId(t), k, b)
      /\ old \in Nat /\ word1[b] = AddrOf(old) /\ head[k] = old
  BY <1>1, <1>2, FixedFacts DEF Moving, PushCas, HeadAsLoaded
<1>4. b \in Nat \ {0} /\ b % MIN_ALIGN = 0
  BY <1>3, HeldFacts DEF FreeBlock, Block
<1>5. PICK f, m : f = el[k] /\ m = n[k]
  OBVIOUS
<1>6. Chain(word1, AddrOf(old), f, m) /\ FreeSeq(k) = FromTop(f, m)
  BY <1>3, <1>5, ListChain
<1>7. word1' = word1 /\ AddrOf(head'[k]) = b
  <2>1. head'[k] = b + NextTag(old) /\ word1' = word1
    BY <1>1, <1>2, <1>3 DEF PushCas, memory
  <2> QED BY <1>3, <1>4, <2>1, HeadFacts
<1>8. PICK g : g = [f EXCEPT ![m + 1] = b]
  OBVIOUS
<1>9. f \in [Nat -> Int] /\ m \in Nat /\ f[m] = AddrOf(old)
  BY <1>6 DEF Chain
<1>10. g \in [Nat -> Int] /\ g[m + 1] = b /\ \A i \in 0 .. m : g[i] = f[i]
  BY <1>4, <1>8, <1>9
<1>11. Chain(word1', AddrOf(head'[k]), g, m + 1)
  <2>1. g[0] = 0 /\ m + 1 \in Nat
    BY <1>6, <1>9, <1>10 DEF Chain
  <2>2. ASSUME NEW i \in 1 .. m + 1 PROVE g[i] # 0 /\ word1[g[i]] = g[i - 1]
    <3>1. CASE i = m + 1
      <4>1. i - 1 = m /\ g[m] = f[m]
        BY <1>9, <1>10, <3>1
      <4> QED BY <1>3, <1>4, <1>9, <1>10, <3>1, <4>1
    <3>2. CASE i # m + 1
      <4>1. i \in 1 .. m /\ i \in 0 .. m /\ i - 1 \in 0 .. m
        BY <1>9, <3>2
      <4>2. f[i] # 0 /\ word1[f[i]] = f[i - 1]
        BY <1>6, <4>1 DEF Chain
      <4> QED BY <1>10, <4>1, <4>2
    <3> QED BY <3>1, <3>2
  <2> QED BY <1>7, <1>10, <2>1, <2>2 DEF Chain
<1>12. FreeSeq(k)' = FromTop(g, m + 1)
  BY <1>3, <1>11, ListAfter
<1>13. FromTop(g, m + 1) = <<g[m + 1]>> \o FromTop(f, m)
  <2>1. \A i \in 1 .. m : g[i] = f[i]
    BY <1>9, <1>10
  <2> QED BY <1>9, <1>10, <2>1, PushOnTop
<1> QED BY <1>1, <1>6, <1>10, <1>12, <1>13

\* pop_fixed takes the top block off.
LEMMA ListPopped ==
  ASSUME SafeUse, NEW own, NEW st, NEW el, NEW n, HInv(own, st, el, n), booted, LInv,
         booted', HeapInv', NEW t \in Threads, PopCas(t), HonestPop(t), NEW k, k = r[t].bin
  PROVE  /\ FreeSeq(k) # <<>> /\ AddrOf(r[t].old) = Head(FreeSeq(k))
         /\ FreeSeq(k)' = Tail(FreeSeq(k))
<1>1. PICK b, old, nxt : b = AddrOf(r[t].old) /\ old = r[t].old /\ nxt = r[t].nxt
  OBVIOUS
<1>2. /\ Moving(own, st, t) /\ Place(t) /\ FixedBinOnly(t) /\ head \in [Bins -> Nat]
      /\ pc[t] = "pop_cas" /\ Popping(t)
  BY Here DEF PopCas, Popping
<1>3. r[t].bin = RequestBin(r[t].size) /\ r[t].size \in Requests
  BY <1>2 DEF Place, AskingAt, Asking, Serving
<1>4. k \in Bins /\ b \in st /\ old \in Nat /\ head[k] = old /\ nxt = At(word1, b)
  <2>1. k \in Bins
    BY <1>1, <1>2, <1>3, RequestOk
  <2>2. nxt = At(word1, b)
    BY <1>1 DEF HonestPop
  <2> QED BY <1>1, <1>2, <2>1, <2>2 DEF Moving, PopCas, HeadAsLoaded
<1>5. PICK f, m : f = el[k] /\ m = n[k]
  OBVIOUS
<1>6. Chain(word1, b, f, m) /\ FreeSeq(k) = FromTop(f, m)
  BY <1>1, <1>4, <1>5, ListChain
<1>7. b \in Granules \ {0}
  BY <1>4 DEF HInv, Types
<1>8. f \in [Nat -> Int] /\ m \in Nat /\ f[0] = 0 /\ f[m] = b /\ m # 0
  BY <1>6, <1>7 DEF Chain
<1>9. m \in 1 .. m /\ m - 1 \in Nat
  BY <1>8
<1>10. nxt = f[m - 1]
  BY <1>4, <1>6, <1>7, <1>8, <1>9 DEF Chain, At
<1>11. nxt \in Nat /\ nxt % MIN_ALIGN = 0
  <2>1. CASE m = 1
    <3>1. nxt = 0
      BY <1>8, <1>10, <2>1
    <3>2. MIN_ALIGN \in Nat \ {0}
      BY HeapBounds
    <3> QED BY <3>1, <3>2
  <2>2. CASE m # 1
    <3>1. m - 1 \in 1 .. m
      BY <1>8, <2>2
    <3>2. Lists(own, st, el, n)
      BY DEF HInv
    <3> QED BY <1>4, <1>5, <1>10, <3>1, <3>2, ListBlock
  <2> QED BY <2>1, <2>2
<1>12. word1' = word1 /\ AddrOf(head'[k]) = nxt
  <2>1. head'[k] = nxt + NextTag(old) /\ word1' = word1
    BY <1>1, <1>2, <1>4 DEF PopCas, memory
  <2> QED BY <1>4, <1>11, <2>1, HeadFacts
<1>13. Chain(word1', AddrOf(head'[k]), f, m - 1)
  <2>1. \A i \in 1 .. m - 1 : i \in 1 .. m
    BY <1>8
  <2> QED BY <1>6, <1>9, <1>10, <1>12, <2>1 DEF Chain
<1>14. FreeSeq(k)' = FromTop(f, m - 1)
  BY <1>4, <1>13, ListAfter
<1>15. LET s == FromTop(f, m) IN s # <<>> /\ Head(s) = f[m] /\ Tail(s) = FromTop(f, m - 1)
  BY <1>8, PopOffTop
<1> QED BY <1>1, <1>6, <1>8, <1>14, <1>15

\* A pop that finds no block found an empty list.
LEMMA ListEmpty ==
  ASSUME NEW own, NEW st, NEW el, NEW n, HInv(own, st, el, n), NEW k \in Bins, AddrOf(head[k]) = 0
  PROVE  FreeSeq(k) = <<>>
<1>1. PICK f, m : f = el[k] /\ m = n[k]
  OBVIOUS
<1>2. Chain(word1, 0, f, m) /\ FreeSeq(k) = FromTop(f, m)
  BY <1>1, ListChain
<1>3. m \in Nat /\ (m # 0 => m \in 1 .. m)
  BY <1>2 DEF Chain
<1>4. m = 0
  BY <1>2, <1>3 DEF Chain
<1>5. 1 .. 0 = {}
  OBVIOUS
<1> QED BY <1>2, <1>4, <1>5 DEF FromTop

-----------------------------------------------------------------------------
(* What a step makes of the claim of its thread.                           *)

\* The steps that begin, carry out or end a push or a pop.
OnBins(t) ==
  \/ AllocCall(t) \/ ReallocGrow(t) \/ Lock(t) \/ Unlock(t) \/ Stamp(t) \/ FreeStamp(t)
  \/ CarveGap(t) \/ SplitCarve(t)
  \/ PushLoad(t) \/ PushStore(t) \/ PushCas(t) \/ PushRetry(t)
  \/ PopEmpty(t) \/ PopLoad(t) \/ PopNext(t) \/ PopCas(t) \/ PopRetry(t)

\* The other steps have nothing to do with a bin.
LEMMA AwayStays ==
  ASSUME SafeUse, NEW own, NEW st, NEW el, NEW n, HInv(own, st, el, n), LInv,
         NEW t \in Threads, Call(t) \/ Step(t), ~OnBins(t)
  PROVE  Away(t) /\ Away(t)'
<1> USE DEF Goto, Away, Pushing, Popping
<1>1. /\ Typed(r[t]) /\ JobInPlace(t) /\ pc \in [Threads -> Labels] /\ DOMAIN r = Threads
  BY Here
<1>2. CASE FreeCall(t) \/ ReallocCall(t)
  BY <1>1, <1>2 DEF FreeCall, ReallocCall, MayCall
<1>3. CASE FreeAgain(t)
  BY <1>3 DEF FreeAgain, SafeUse
<1>4. CASE Got(t) \/ FitHead(t) \/ FitSkip(t) \/ FitTake(t) \/ Return(t) \/ Copy(t)
  BY <1>1, <1>4 DEF Got, AfterGot, FitHead, FitSkip, FitTake, Return, Copy
<1>5. CASE ReallocKeep(t) \/ ReallocShrink(t) \/ FreeLoad(t)
  BY <1>1, <1>5 DEF ReallocKeep, ReallocShrink, FreeLoad
<1>6. CASE RefillFixed(t) \/ RefillOversize(t)
  <2>1. pc[t] \in {"refill", "fit"} /\ r[t].job \in {"slow", "over"}
    BY <1>1, <1>6 DEF RefillFixed, RefillOversize, JobInPlace
  <2>2. PICK align, size : Refill(t, align, size)
    BY <1>6 DEF RefillFixed, RefillOversize
  <2>3. PICK aligned, top : aligned = align_up(bump, align) /\ top = Wrap(aligned + size)
    OBVIOUS
  <2>4. /\ \/ r' = [r EXCEPT ![t].blk = aligned, ![t].top = top,
                             ![t].lo = bump, ![t].end = aligned, ![t].prev = 0]
           \/ r' = [r EXCEPT ![t].prev = 0]
        /\ pc'[t] \in {"gap", "unlock"}
    BY <1>1, <2>2, <2>3 DEF Refill
  <2>5. r'[t].job = r[t].job
    BY <1>1, <2>4, Fields DEF Typed
  <2> QED BY <2>1, <2>4, <2>5
<1>7. CASE Bump(t)
  <2>1. pc[t] = "gap" /\ r[t].job \in {"slow", "over"} /\ pc'[t] \in {"over_stamp", "unlock"}
    BY <1>1, <1>7 DEF Bump, JobInPlace
  <2>2. \E k : r' = [r EXCEPT ![t].lo = 0, ![t].end = 0, ![t].bin = k]
    BY <1>7 DEF Bump
  <2>3. r'[t].job = r[t].job
    BY <1>1, <2>2, Fields DEF Typed
  <2> QED BY <2>1, <2>3
<1>8. CASE OverStamp(t)
  <2>1. pc[t] = "over_stamp" /\ pc'[t] = "unlock" /\ r' = r
    BY <1>1, <1>8 DEF OverStamp
  <2>2. r[t].job = "over"
    BY <2>1, Here DEF Place
  <2> QED BY <2>1, <2>2
<1>9. CASE SplitDone(t)
  <2>1. pc[t] = "split" /\ r[t].job \in {"fit", "shrink"} /\ pc'[t] = "unlock"
    BY <1>1, <1>9 DEF SplitDone, JobInPlace
  <2>2. \E top : r' = [r EXCEPT ![t].top = top, ![t].iter = 0]
    BY <1>9 DEF SplitDone
  <2>3. r'[t].job = r[t].job
    BY <1>1, <2>2, Fields DEF Typed
  <2> QED BY <2>1, <2>3
<1>10. CASE OverPush(t)
  <2>1. pc[t] = "over_push" /\ r[t].job = "free" /\ pc'[t] = "unlock"
    BY <1>1, <1>10 DEF OverPush, JobInPlace
  <2>2. r' = [r EXCEPT ![t].blk = 0, ![t].top = 0]
    BY <1>10 DEF OverPush
  <2>3. r'[t].job = r[t].job
    BY <1>1, <2>2, Fields DEF Typed
  <2> QED BY <2>1, <2>3
<1> QED BY <1>2, <1>3, <1>4, <1>5, <1>6, <1>7, <1>8, <1>9, <1>10 DEF Call, Step, Swap, OnBins

\* A request that goes to pop.
LEMMA PopCalls ==
  ASSUME SafeUse, NEW own, NEW st, NEW el, NEW n, HInv(own, st, el, n), LInv,
         NEW t \in Threads, AllocCall(t) \/ ReallocGrow(t) \/ Lock(t), NEW k
  PROVE  Claim(k, t) = IdleCall /\ Claim(k, t)' \in {IdleCall, PopCall}
<1> USE DEF Goto
<1>1. /\ Typed(r[t]) /\ JobInPlace(t) /\ pc \in [Threads -> Labels] /\ DOMAIN r = Threads
  BY Here
<1>2. Claim(k, t) = IdleCall
  <2>1. pc[t] \in {"idle", "realloc_load", "lock"}
    BY DEF AllocCall, MayCall, ReallocGrow, Lock
  <2> QED BY <2>1 DEF Claim, Pushing, Popping
<1>3. pc'[t] \in {"pop_load", "fit_head", "split", "over_push", "lock"}
  <2>1. CASE AllocCall(t) \/ ReallocGrow(t)
    BY <1>1, <2>1 DEF AllocCall, ReallocGrow, AllocEntry
  <2>2. CASE Lock(t)
    BY <1>1, <2>2 DEF Lock, JobInPlace
  <2> QED BY <2>1, <2>2
<1>4. Claim(k, t)' \in {IdleCall, PopCall}
  BY <1>3 DEF Claim, Pushing, Popping
<1> QED BY <1>2, <1>4

\* What push and pop do before they succeed or give up.
LEMMA ClaimKeeps ==
  ASSUME NEW own, NEW st, NEW el, NEW n, HInv(own, st, el, n), LInv,
         NEW t \in Threads, PushLoad(t) \/ PushStore(t) \/ PushRetry(t) \/ PopLoad(t) \/ PopNext(t) \/ PopRetry(t),
         NEW k
  PROVE  Claim(k, t)' = Claim(k, t)
<1> USE DEF Goto
<1>1. /\ Typed(r[t]) /\ pc \in [Threads -> Labels] /\ DOMAIN r = Threads
  BY Here
<1>2. \/ r' = r
      \/ \E w : r' = [r EXCEPT ![t].old = w]
      \/ \E w : r' = [r EXCEPT ![t].nxt = w]
      \/ r' = [r EXCEPT ![t].old = 0, ![t].nxt = 0]
  BY DEF PushLoad, PushStore, PushRetry, PopLoad, PopNext, PopRetry
<1>3. /\ r'[t].bin = r[t].bin /\ r'[t].job = r[t].job /\ r'[t].blk = r[t].blk
      /\ r'[t].top = r[t].top /\ r'[t].end = r[t].end
  BY <1>1, <1>2, Fields DEF Typed
<1>4. Pushing(t)' = Pushing(t) /\ Popping(t)' = Popping(t) /\ (Pushing(t) \/ Popping(t))
  BY <1>1 DEF PushLoad, PushStore, PushRetry, PopLoad, PopNext, PopRetry, Pushing, Popping
<1>5. Piece(t)' = Piece(t)
  BY <1>3 DEF Piece
<1> QED BY <1>3, <1>4, <1>5 DEF Claim

\* A pop that found nothing.
LEMMA EmptyClaim ==
  ASSUME NEW own, NEW st, NEW el, NEW n, HInv(own, st, el, n), LInv,
         NEW t \in Threads, PopEmpty(t), NEW k
  PROVE  /\ Claim(k, t)' = IdleCall
         /\ Claim(k, t) = IdleCall \/ (Claim(k, t) = PopCall /\ k = r[t].bin)
<1>1. pc \in [Threads -> Labels]
  BY Here
<1>2. pc[t] = "pop_load" /\ pc'[t] \in {"lock", "refill"}
  BY <1>1 DEF PopEmpty, Goto
<1> QED BY <1>2 DEF Claim, Pushing, Popping

\* A popped block leaves for the caller's hand.
LEMMA GotClaim ==
  ASSUME NEW own, NEW st, NEW el, NEW n, HInv(own, st, el, n), LInv,
         NEW t \in Threads, Stamp(t) \/ Unlock(t), NEW k
  PROVE  \/ Claim(k, t)' = Claim(k, t)
         \/ Claim(k, t).op = "got" /\ Claim(k, t)' = IdleCall
<1> USE DEF Goto
<1>1. /\ Typed(r[t]) /\ Place(t) /\ pc \in [Threads -> Labels] /\ DOMAIN r = Threads
  BY Here
<1>2. pc[t] \in {"stamp", "unlock"}
  BY DEF Stamp, Unlock
<1>3. ~Pushing(t) /\ ~Popping(t)
  BY <1>2 DEF Pushing, Popping
<1>4. CASE pc'[t] # "stamp"
  <2>1. pc'[t] \in {"got", "return"}
    BY <1>1, <1>4 DEF Stamp, Unlock
  <2>2. Claim(k, t)' = IdleCall
    BY <2>1 DEF Claim, Pushing, Popping
  <2> QED BY <1>3, <2>2 DEF Claim, GotCall
<1>5. CASE pc'[t] = "stamp"
  <2>1. r' = r /\ pc[t] = "unlock"
    BY <1>1, <1>5 DEF Stamp, Unlock
  <2>2. ~Pushing(t)' /\ ~Popping(t)'
    BY <1>5 DEF Pushing, Popping
  <2> QED BY <1>3, <1>5, <2>1, <2>2 DEF Claim
<1> QED BY <1>4, <1>5

\* A push that is done, a pop that has its block.
LEMMA SwapClaim ==
  ASSUME SafeUse, NEW own, NEW st, NEW el, NEW n, HInv(own, st, el, n), LInv,
         NEW t \in Threads, NEW k
  PROVE  /\ PushCas(t) => /\ Claim(k, t)' = IdleCall
                          /\ Claim(k, t) = IF r[t].bin = k THEN PushCall(Piece(t)) ELSE IdleCall
         /\ PopCas(t) => /\ Claim(k, t)' = IF r[t].bin = k THEN GotCall(AddrOf(r[t].old)) ELSE IdleCall
                         /\ Claim(k, t) = IF r[t].bin = k THEN PopCall ELSE IdleCall
<1> USE DEF Goto
<1>1. /\ Typed(r[t]) /\ JobInPlace(t) /\ pc \in [Threads -> Labels] /\ DOMAIN r = Threads
  BY Here
<1>2. ASSUME PushCas(t)
      PROVE  /\ Claim(k, t)' = IdleCall
             /\ Claim(k, t) = IF r[t].bin = k THEN PushCall(Piece(t)) ELSE IdleCall
  <2>1. pc[t] = "push_cas" /\ pc'[t] \in {"gap", "split", "return"}
    BY <1>1, <1>2 DEF PushCas, AfterPush
  <2> QED BY <2>1 DEF Claim, Pushing, Popping
<1>3. ASSUME PopCas(t)
      PROVE  /\ Claim(k, t)' = IF r[t].bin = k THEN GotCall(AddrOf(r[t].old)) ELSE IdleCall
             /\ Claim(k, t) = IF r[t].bin = k THEN PopCall ELSE IdleCall
  <2>1. pc[t] = "pop_cas" /\ pc'[t] \in {"unlock", "stamp"} /\ r[t].job \in {"fast", "slow"}
    BY <1>1, <1>3 DEF PopCas, JobInPlace, Popping
  <2>2. PICK b, top : b = AddrOf(r[t].old) /\ top = b + bin_class(r[t].bin)
    OBVIOUS
  <2>3. r' = [r EXCEPT ![t].old = 0, ![t].nxt = 0, ![t].blk = b, ![t].top = top,
                       ![t].job = IF @ = "slow" THEN "hit" ELSE @]
    BY <1>3, <2>2 DEF PopCas
  <2>4. r'[t].job \in {"fast", "hit"} /\ r'[t].blk = b /\ r'[t].bin = r[t].bin
    BY <1>1, <2>1, <2>3, Fields DEF Typed
  <2>5. Claim(k, t)' = IF r[t].bin = k THEN GotCall(b) ELSE IdleCall
    BY <2>1, <2>4 DEF Claim, Pushing, Popping
  <2> QED BY <2>1, <2>2, <2>5 DEF Claim, Pushing, Popping
<1> QED BY <1>2, <1>3

-----------------------------------------------------------------------------
(* The bins are stacks: every step.                                        *)

\* A block still in the hand of a thread is on no list, nor on its way there.
LEMMA NotTaken ==
  ASSUME NEW own, NEW st, NEW el, NEW n, HInv(own, st, el, n), booted, LInv,
         NEW t \in Threads, ~Pushing(t), NEW b, own[b] \in MyIds(t), NEW k \in FixedBins
  PROVE  b \notin Bin(k)!Taken
<1>1. k \in Bins /\ Lists(own, st, el, n)
  BY FixedFacts DEF HInv
<1>2. PICK f, m : f = el[k] /\ m = n[k]
  OBVIOUS
<1>3. FreeSeq(k) = [i \in 1 .. m |-> f[m + 1 - i]] /\ m \in Nat
  BY <1>1, <1>2, ListChain DEF FromTop, Chain
<1>4. ASSUME NEW i \in DOMAIN FreeSeq(k) PROVE b # FreeSeq(k)[i]
  <2>1. i \in 1 .. m /\ m + 1 - i \in 1 .. m /\ FreeSeq(k)[i] = f[m + 1 - i]
    BY <1>3, <1>4
  <2>2. PICK j \in 1 .. m : j = m + 1 - i
    BY <2>1
  <2>3. own[f[j]] = BinId(k, f[j])
    BY <1>1, <1>2, ListBlock
  <2> QED BY <2>1, <2>2, <2>3, IdsDiffer
<1>5. ASSUME NEW u \in Threads, binCall(k)[u].op = "push" PROVE b # binCall(k)[u].blk
  <2>1. Pushing(u) /\ binCall(k)[u].blk = Piece(u)
    <3>1. binCall(k)[u] = Claim(k, u)
      BY ClaimIs
    <3>2. \/ Claim(k, u) \in {IdleCall, PopCall, GotCall(r[u].blk)}
          \/ Pushing(u) /\ Claim(k, u) = PushCall(Piece(u))
      BY DEF Claim
    <3>3. IdleCall.op # "push" /\ PopCall.op # "push" /\ GotCall(r[u].blk).op # "push"
      BY DEF IdleCall, PopCall, GotCall
    <3>4. PushCall(Piece(u)).blk = Piece(u)
      BY DEF PushCall
    <3> QED BY <1>5, <3>1, <3>2, <3>3, <3>4
  <2>2. FreeBlock(own, st, PushId(u), r[u].bin, Piece(u))
    BY <2>1, Here DEF Moving
  <2>3. own[Piece(u)] = PushId(u)
    BY <2>2, HeldFacts DEF FreeBlock, Block
  <2>4. own[Piece(u)] \in MyIds(u)
    BY <2>3 DEF PushId, MyIds
  <2>5. u # t
    BY <2>1
  <2> QED BY <2>1, <2>4, <2>5, IdsDiffer
<1> QED BY <1>4, <1>5 DEF Bin!Taken

\* A block that goes to be pushed comes from the hand of the thread.
LEMMA PushCalls ==
  ASSUME SafeUse, NEW own, NEW st, NEW el, NEW n, HInv(own, st, el, n), booted, LInv,
         NEW t \in Threads, CarveGap(t) \/ SplitCarve(t) \/ FreeStamp(t), NEW k
  PROVE  /\ Claim(k, t) = IdleCall /\ ~Pushing(t)
         /\ \/ Claim(k, t)' = IdleCall
            \/ \E b \in Granules : Claim(k, t)' = PushCall(b) /\ own[b] \in MyIds(t)
<1> USE DEF Goto
<1>1. /\ Typed(r[t]) /\ JobInPlace(t) /\ Hands(own, st, t) /\ Place(t)
      /\ pc \in [Threads -> Labels] /\ DOMAIN r = Threads
  BY Here
<1>2. pc[t] \in {"gap", "split", "free_stamp"}
  BY DEF CarveGap, SplitCarve, FreeStamp
<1>3. Claim(k, t) = IdleCall /\ ~Pushing(t)
  BY <1>2 DEF Claim, Pushing, Popping
<1>4. ASSUME NEW b \in Granules, own[b] \in MyIds(t),
             pc'[t] = "push_load" => Piece(t)' = b,
             pc'[t] \in {"push_load", "gap", "split", "lock"}
      PROVE  \/ Claim(k, t)' = IdleCall
             \/ \E c \in Granules : Claim(k, t)' = PushCall(c) /\ own[c] \in MyIds(t)
  <2>1. Claim(k, t)' \in {IdleCall, PushCall(b)}
    BY <1>4 DEF Claim, Pushing, Popping
  <2> QED BY <1>4, <2>1
<1>5. LNR_FLOOR \in Nat \ {0}
  BY GeoConstants, CadAssumption
<1>6. CASE FreeStamp(t)
  <2>1. pc[t] = "free_stamp" /\ r[t].job = "free" /\ r' = r /\ pc'[t] \in {"push_load", "lock"}
    BY <1>1, <1>6 DEF FreeStamp, FreeEntry, JobInPlace
  <2>2. r[t].blk # 0
    BY <1>1, <2>1 DEF Place, Freeing
  <2>3. PICK b : b = r[t].blk
    OBVIOUS
  <2>4. b \in Granules /\ own[b] \in MyIds(t)
    BY <1>1, <2>2, <2>3, InHandFacts DEF MyIds
  <2>5. Piece(t)' = b
    BY <2>1, <2>3 DEF Piece
  <2> QED BY <1>3, <1>4, <2>1, <2>4, <2>5
<1>7. CASE CarveGap(t)
  <2>1. PICK lo, hi, piece, size, b, start :
          /\ lo = r[t].lo /\ hi = r[t].end
          /\ piece = largest_carvable(hi, hi - lo) /\ size = piece.size /\ b = piece.bin
          /\ start = hi - size
          /\ Held(own, st, GapId(t), lo, hi) /\ lo < hi
          /\ lo \in Nat \ {0} /\ hi \in Nat /\ hi <= heap_end /\ hi % MIN_ALIGN = 0 /\ lo % MIN_ALIGN = 0
          /\ size \in Nat /\ size <= hi - lo /\ b \in Bins /\ Valid(start, size) /\ bin_index(size) = b
          /\ start \in Nat /\ lo <= start /\ start <= hi /\ start % MIN_ALIGN = 0
          /\ b # oversize_bin => b \in FixedBins
    BY <1>7, GapCut
  <2>2. start < hi
    <3>1. size >= LNR_FLOOR
      BY <2>1 DEF Valid
    <3> QED BY <1>5, <2>1, <3>1
  <2>3. start \in Granules
    BY <2>1, <2>2, GranuleAt, HeapBounds
  <2>4. own[start] \in MyIds(t)
    BY <2>1, <2>2, <2>3 DEF Held, MyIds
  <2>5. r[t].job \in {"slow", "over"} /\ pc'[t] \in {"push_load", "gap"}
    BY <1>1, <1>7 DEF CarveGap, Release, JobInPlace
  <2>6. r' = [r EXCEPT ![t].end = start, ![t].bin = b]
    BY <1>7, <2>1 DEF CarveGap
  <2>7. r'[t].end = start /\ r'[t].job = r[t].job
    BY <1>1, <2>6, Fields DEF Typed
  <2>8. Piece(t)' = start
    BY <2>5, <2>7 DEF Piece
  <2> QED BY <1>3, <1>4, <2>3, <2>4, <2>5, <2>8
<1>8. CASE SplitCarve(t)
  <2>1. PICK lo, hi, piece, size, need, b, start, iter :
          /\ lo = r[t].blk /\ hi = r[t].top /\ need = Target(t) /\ iter = r[t].iter
          /\ piece = largest_carvable(hi, (hi - lo) - need) /\ size = piece.size /\ b = piece.bin
          /\ start = hi - size
          /\ Held(own, st, BlockId(t), lo, hi) /\ lo \in st
          /\ lo \in Nat \ {0} /\ hi \in Nat /\ lo < hi /\ hi <= heap_end /\ hi % MIN_ALIGN = 0
          /\ lo % MIN_ALIGN = 0
          /\ need \in Nat /\ need > 0 /\ need <= hi - lo /\ lo % align_of_bin(bin_index(hi - lo)) = 0
          /\ size \in Nat /\ size <= (hi - lo) - need /\ b \in Bins /\ Valid(start, size)
          /\ bin_index(size) = b
          /\ start \in Nat /\ lo < start /\ start <= hi /\ need <= start - lo
          /\ b # oversize_bin => b \in FixedBins
    BY <1>8, SplitCut
  <2>2. start < hi /\ start % MIN_ALIGN = 0
    <3>1. size >= LNR_FLOOR /\ size % MIN_ALIGN = 0
      BY <2>1 DEF Valid
    <3>2. start % MIN_ALIGN = 0
      BY <2>1, <3>1, HeapBounds, ModSum, ModGap
    <3> QED BY <1>5, <2>1, <3>1, <3>2
  <2>3. start \in Granules
    BY <2>1, <2>2, GranuleAt, HeapBounds
  <2>4. own[start] \in MyIds(t)
    BY <2>1, <2>2, <2>3 DEF Held, MyIds
  <2>5. r[t].job \in {"fit", "shrink"} /\ pc'[t] \in {"push_load", "split"}
    BY <1>1, <1>8 DEF SplitCarve, Release, JobInPlace
  <2>6. PICK i : i = r[t].iter + 1
    OBVIOUS
  <2>7. r' = [r EXCEPT ![t].top = start, ![t].iter = i, ![t].bin = b]
    <3>1. largest_carvable(r[t].top, InHand(t) - Target(t)) = piece
      BY <2>1 DEF InHand
    <3> QED BY <1>8, <2>1, <2>6, <3>1 DEF SplitCarve
  <2>8. r'[t].top = start /\ r'[t].job = r[t].job
    BY <1>1, <2>7, Fields DEF Typed
  <2>9. Piece(t)' = start
    BY <2>5, <2>8 DEF Piece
  <2> QED BY <1>3, <1>4, <2>3, <2>4, <2>5, <2>9
<1> QED BY <1>3, <1>6, <1>7, <1>8

\* A step of a call.
LEMMA StepBin ==
  ASSUME SafeUse, NEW own, NEW st, NEW el, NEW n, HInv(own, st, el, n), booted, LInv,
         booted', HeapInv', NEW t \in Threads, Call(t) \/ Step(t), HonestPop(t), NEW k \in FixedBins
  PROVE  Bin(k)!AbsNext \/ SameBin(k)
<1>1. Alone(t)
  BY StepAlone DEF LInv
<1>2. k \in Bins /\ IdleCall # PopCall
  BY FixedFacts DEF IdleCall, PopCall
<1>3. CASE ~Swap(t)
  <2>1. FreeSeq(k)' = FreeSeq(k)
    BY <1>3, ListStays
  <2>2. CASE ~OnBins(t)
    <3>1. Claim(k, t)' = Claim(k, t)
      BY <2>2, AwayStays, AwayIsIdle
    <3> QED BY <1>1, <2>1, <3>1, BinSteps
  <2>3. CASE AllocCall(t) \/ ReallocGrow(t) \/ Lock(t)
    <3>1. Claim(k, t) = IdleCall /\ Claim(k, t)' \in {IdleCall, PopCall}
      BY <2>3, PopCalls
    <3> QED BY <1>1, <2>1, <3>1, BinSteps
  <2>4. CASE PushLoad(t) \/ PushStore(t) \/ PushRetry(t) \/ PopLoad(t) \/ PopNext(t) \/ PopRetry(t)
    <3>1. Claim(k, t)' = Claim(k, t)
      BY <2>4, ClaimKeeps
    <3> QED BY <1>1, <2>1, <3>1, BinSteps
  <2>5. CASE PopEmpty(t)
    <3>1. /\ Claim(k, t)' = IdleCall
          /\ Claim(k, t) = IdleCall \/ (Claim(k, t) = PopCall /\ k = r[t].bin)
      BY <2>5, EmptyClaim
    <3>2. k = r[t].bin => FreeSeq(k) = <<>>
      <4>1. k = r[t].bin => AddrOf(head[k]) = 0
        BY <2>5 DEF PopEmpty
      <4> QED BY <1>2, <4>1, ListEmpty
    <3> QED BY <1>1, <2>1, <3>1, <3>2, BinSteps
  <2>6. CASE Stamp(t) \/ Unlock(t)
    <3>1. \/ Claim(k, t)' = Claim(k, t)
          \/ Claim(k, t).op = "got" /\ Claim(k, t)' = IdleCall
      BY <2>6, GotClaim
    <3> QED BY <1>1, <2>1, <3>1, BinSteps
  <2>7. CASE CarveGap(t) \/ SplitCarve(t) \/ FreeStamp(t)
    <3>1. /\ Claim(k, t) = IdleCall /\ ~Pushing(t)
          /\ \/ Claim(k, t)' = IdleCall
             \/ \E b \in Granules : Claim(k, t)' = PushCall(b) /\ own[b] \in MyIds(t)
      BY <2>7, PushCalls
    <3>2. CASE Claim(k, t)' = IdleCall
      BY <1>1, <2>1, <3>1, <3>2, BinSteps
    <3>3. ASSUME NEW b \in Granules, Claim(k, t)' = PushCall(b), own[b] \in MyIds(t)
          PROVE  Bin(k)!AbsNext
      <4>1. b \notin Bin(k)!Taken
        BY <3>1, <3>3, NotTaken
      <4> QED BY <1>1, <2>1, <3>1, <3>3, <4>1, BinSteps
    <3> QED BY <3>1, <3>2, <3>3
  <2> QED BY <1>3, <2>2, <2>3, <2>4, <2>5, <2>6, <2>7 DEF OnBins, Swap
<1>4. CASE PushCas(t)
  <2>1. /\ Claim(k, t)' = IdleCall
        /\ Claim(k, t) = IF r[t].bin = k THEN PushCall(Piece(t)) ELSE IdleCall
    BY <1>4, SwapClaim
  <2>2. CASE r[t].bin = k
    <3>1. PICK b : b = Piece(t)
      OBVIOUS
    <3>2. FreeSeq(k)' = <<b>> \o FreeSeq(k)
      BY <1>4, <2>2, <3>1, ListPushed
    <3> QED BY <1>1, <2>1, <2>2, <3>1, <3>2, BinSteps
  <2>3. CASE r[t].bin # k
    <3>1. FreeSeq(k)' = FreeSeq(k)
      BY <2>3, ListStays
    <3> QED BY <1>1, <2>1, <2>3, <3>1, BinSteps
  <2> QED BY <2>2, <2>3
<1>5. CASE PopCas(t)
  <2>1. /\ Claim(k, t)' = IF r[t].bin = k THEN GotCall(AddrOf(r[t].old)) ELSE IdleCall
        /\ Claim(k, t) = IF r[t].bin = k THEN PopCall ELSE IdleCall
    BY <1>5, SwapClaim
  <2>2. CASE r[t].bin = k
    <3>1. /\ FreeSeq(k) # <<>> /\ AddrOf(r[t].old) = Head(FreeSeq(k))
          /\ FreeSeq(k)' = Tail(FreeSeq(k))
      BY <1>5, <2>2, ListPopped
    <3> QED BY <1>1, <2>1, <2>2, <3>1, BinSteps
  <2>3. CASE r[t].bin # k
    <3>1. FreeSeq(k)' = FreeSeq(k)
      BY <2>3, ListStays
    <3> QED BY <1>1, <2>1, <2>3, <3>1, BinSteps
  <2> QED BY <2>2, <2>3
<1> QED BY <1>3, <1>4, <1>5 DEF Swap

\* Where head and links stay, the list does.
LEMMA ListSame ==
  ASSUME NEW own, NEW st, NEW el, NEW n, HInv(own, st, el, n), booted', HeapInv', NEW k \in Bins,
         head' = head, word1' = word1
  PROVE  FreeSeq(k)' = FreeSeq(k)
<1>1. PICK f, m : f = el[k] /\ m = n[k]
  OBVIOUS
<1>2. Chain(word1, AddrOf(head[k]), f, m) /\ FreeSeq(k) = FromTop(f, m)
  BY <1>1, ListChain
<1> QED BY <1>2, ListAfter

\* A thread that prepares or verifies the heap is away from the bins.
LEMMA SetupAway ==
  ASSUME NEW u \in Threads, OffHeap(u) \/ Initialising(u)
  PROVE  Away(u)
BY DEF Away, OffHeap, Initialising, Pushing, Popping

LEMMA SetupStays ==
  ASSUME pc \in [Threads -> Labels], NEW t \in Threads, SetupStep(t)
  PROVE  /\ Away(t) /\ Away(t)'
         /\ \A u \in Threads \ {t} : pc'[u] = pc[u]
<1> USE DEF Goto, Away, Pushing, Popping
<1>1. pc[t] \in {"idle", "verify_print", "init_magic", "init_print", "init_head", "init_bump", "init_lock"}
  BY DEF SetupStep, InitCall, VerifyMagic, Prepare, InitMagic, InitPrint, InitHead, InitBump, InitLock,
     VerifyPrint
<1>2. /\ pc'[t] \in {"idle", "verify_print", "init_magic", "init_print", "init_head", "init_bump", "init_lock"}
      /\ \A u \in Threads \ {t} : pc'[u] = pc[u]
  BY <1>1 DEF SetupStep, InitCall, VerifyMagic, Prepare, InitMagic, InitPrint, InitHead, InitBump,
     InitLock, VerifyPrint
<1> QED BY <1>1, <1>2

\* Where no thread has a claim before or after a step, none has changed.
LEMMA NoClaims ==
  ASSUME \A u \in Threads : Away(u) /\ Away(u)', NEW k
  PROVE  binCall(k)' = binCall(k)
<1>1. binCall(k)' = [u \in Threads |-> Claim(k, u)']
  BY DEF binCall, Claim, IdleCall, PushCall, PopCall, GotCall
<1>2. binCall(k) = [u \in Threads |-> Claim(k, u)]
  BY DEF binCall, Claim, IdleCall, PushCall, PopCall, GotCall
<1>3. \A u \in Threads : Claim(k, u)' = Claim(k, u)
  BY AwayIsIdle
<1> QED BY <1>1, <1>2, <1>3

\* init and verify.
LEMMA SetupBin ==
  ASSUME LInv, HeapInv, HeapInv', NEW t \in Threads, SetupStep(t), NEW k \in FixedBins
  PROVE  SameBin(k)
<1> USE DEF control, memory, setup, client
<1>1. k \in Bins
  BY FixedFacts
<1>2. CASE booted
  <2>1. PICK own, st, el, n : HInv(own, st, el, n)
    BY <1>2 DEF HeapInv
  <2>2. ~Initialising(t)
    BY <1>2 DEF LInv, InitAlone
  <2>3. VerifyMagic(t) \/ VerifyPrint(t)
    BY <1>2, <2>2 DEF SetupStep, InitCall, Prepare, InitMagic, InitPrint, InitHead, InitBump, InitLock,
       Initialising
  <2>4. booted' /\ head' = head /\ word1' = word1 /\ r' = r
    BY <1>2, <2>3 DEF VerifyMagic, VerifyPrint
  <2>5. FreeSeq(k)' = FreeSeq(k)
    BY <1>1, <2>1, <2>4, ListSame
  <2>6. Away(t) /\ Away(t)' /\ Alone(t)
    BY <2>1, <2>4, Here, SetupStays DEF Alone
  <2> QED BY <1>2, <2>4, <2>5, <2>6, AwayIsIdle, BinSteps
<1>3. CASE ~booted
  <2>1. Preparing
    BY <1>3 DEF HeapInv
  <2>2. \A u \in Threads : Away(u)
    BY <2>1, SetupAway DEF Preparing
  <2>3. \A u \in Threads : Away(u)'
    <3>1. pc \in [Threads -> Labels]
      BY <2>1 DEF Preparing
    <3>2. Away(t)' /\ \A u \in Threads \ {t} : pc'[u] = pc[u]
      BY <3>1, SetupStays
    <3>3. \A u \in Threads : OffHeap(u) \/ Initialising(u)
      BY <2>1 DEF Preparing
    <3> QED BY <3>2, <3>3 DEF Away, OffHeap, Initialising, Pushing, Popping
  <2>4. binCall(k)' = binCall(k)
    BY <2>2, <2>3, NoClaims
  <2>5. booted' => FreeSeq(k)' = <<>>
    <3> SUFFICES ASSUME booted' PROVE FreeSeq(k)' = <<>>
      OBVIOUS
    <3>1. InitLock(t)
      BY <1>3 DEF SetupStep, InitCall, VerifyMagic, Prepare, InitMagic, InitPrint, InitHead, InitBump,
         VerifyPrint
    <3>2. head'[k] = 0
      BY <1>1, <2>1, <3>1 DEF Preparing, InitLock
    <3>3. AddrOf(head'[k]) = 0
      BY <3>2, HeapBounds DEF AddrOf
    <3>4. PICK f : f = [i \in Nat |-> 0]
      OBVIOUS
    <3>5. Chain(word1', AddrOf(head'[k]), f, 0)
      BY <3>3, <3>4 DEF Chain
    <3>6. FreeSeq(k)' = FromTop(f, 0)
      BY <1>1, <3>5, ListAfter
    <3>7. 1 .. 0 = {}
      OBVIOUS
    <3> QED BY <3>6, <3>7 DEF FromTop
  <2>6. Bin(k)!absVars = << <<>>, binCall(k) >>
    BY <1>3 DEF Bin!absVars
  <2>7. (Bin(k)!absVars)' = << <<>>, binCall(k)' >>
    BY <2>5 DEF Bin!absVars
  <2> QED BY <2>4, <2>6, <2>7 DEF SameBin
<1> QED BY <1>2, <1>3

LEMMA NextBin ==
  ASSUME SafeUse, LInv, HeapInv, HeapInv', [Next]_vars,
         UNCHANGED vars \/ \A t \in Threads : HonestPop(t), NEW k \in FixedBins
  PROVE  [Bin(k)!AbsNext]_(Bin(k)!absVars)
<1>1. CASE UNCHANGED vars
  <2>1. binCall(k)' = binCall(k) /\ booted' = booted /\ head' = head /\ word1' = word1
    BY <1>1 DEF vars, binCall, Pushing, Popping, Piece
  <2>2. booted => FreeSeq(k)' = FreeSeq(k)
    <3> SUFFICES ASSUME booted PROVE FreeSeq(k)' = FreeSeq(k)
      OBVIOUS
    <3>1. PICK own, st, el, n : HInv(own, st, el, n)
      BY DEF HeapInv
    <3> QED BY <2>1, <3>1, FixedFacts, ListSame
  <2>3. Bin(k)!absVars = <<IF booted THEN FreeSeq(k) ELSE <<>>, binCall(k)>>
    BY DEF Bin!absVars
  <2>4. (Bin(k)!absVars)' = <<IF booted' THEN FreeSeq(k)' ELSE <<>>, binCall(k)'>>
    BY DEF Bin!absVars
  <2> QED BY <2>1, <2>2, <2>3, <2>4
<1>2. ASSUME NEW t \in Threads, SetupStep(t) PROVE SameBin(k)
  BY <1>2, SetupBin
<1>3. ASSUME NEW t \in Threads, Call(t) \/ Step(t), ~(UNCHANGED vars)
      PROVE  Bin(k)!AbsNext \/ SameBin(k)
  <2>1. booted
    <3>1. ~booted => Preparing
      BY DEF HeapInv
    <3> QED BY <1>3, <3>1, EarlyIdle
  <2>2. PICK own, st, el, n : HInv(own, st, el, n)
    BY <2>1 DEF HeapInv
  <2>3. booted'
    BY <1>3, <2>1, StepAlone DEF LInv
  <2> QED BY <1>3, <2>1, <2>2, <2>3, StepBin
<1>4. Bin(k)!AbsNext \/ SameBin(k) => [Bin(k)!AbsNext]_(Bin(k)!absVars)
  BY DEF SameBin
<1> QED BY <1>1, <1>2, <1>3, <1>4 DEF Next, SetupStep

(* Under the allocator's own traffic every fixed bin is an atomic stack: a    *)
(* push and a pop take effect at their compare-and-swap, a failed pop where   *)
(* the head was read, and no block is ever pushed on a bin that has it, or    *)
(* that another thread is pushing it on (allocator.rs, push_fixed and         *)
(* pop_fixed with all their callers).                                         *)
THEOREM BinsAreStacks ==
  ASSUME SafeUse
  PROVE  Spec /\ HonestPops => BinsRefineStacks
<1>1. Init => \A k \in FixedBins : Bin(k)!AbsInit
  <2> SUFFICES ASSUME Init, NEW k \in FixedBins PROVE Bin(k)!AbsInit
    OBVIOUS
  <2>1. ~booted /\ pc = [t \in Threads |-> "idle"]
    BY DEF Init
  <2>2. \A t \in Threads : Away(t)
    BY <2>1 DEF Away, Pushing, Popping
  <2>3. binCall(k) = [t \in Threads |-> Claim(k, t)]
    BY DEF binCall, Claim, IdleCall, PushCall, PopCall, GotCall
  <2>4. binCall(k) = [t \in Threads |-> IdleCall]
    BY <2>2, <2>3, AwayIsIdle
  <2> QED BY <2>1, <2>4 DEF Bin!AbsInit, Bin!Idle, IdleCall
<1>2. LInv /\ HeapInv /\ HeapInv' /\ [Next]_vars
        /\ [\A t \in Threads : PopCas(t) => r[t].nxt = At(word1, AddrOf(r[t].old))]_vars
      => [\A k \in FixedBins : [Bin(k)!AbsNext]_(Bin(k)!absVars)]_vars
  <2> SUFFICES ASSUME LInv, HeapInv, HeapInv', [Next]_vars,
                      [\A t \in Threads : PopCas(t) => r[t].nxt = At(word1, AddrOf(r[t].old))]_vars,
                      NEW k \in FixedBins
               PROVE  [Bin(k)!AbsNext]_(Bin(k)!absVars)
    OBVIOUS
  <2>1. UNCHANGED vars \/ \A t \in Threads : HonestPop(t)
    BY DEF HonestPop
  <2> QED BY <2>1, NextBin
<1> QED BY <1>1, <1>2, LInvHolds, HeapInvHolds, PTL DEF Spec, HonestPops, BinsRefineStacks

-----------------------------------------------------------------------------
(* What the documentation promises, kept in safe use.                      *)

\* The places of which the promises speak are reached after init only.
LEMMA BootedThere ==
  ASSUME HeapInv, NEW t \in Threads, pc[t] \notin {"idle", "verify_print"}, ~Initialising(t)
  PROVE  booted
<1>1. ~booted => OffHeap(t) \/ Initialising(t)
  BY DEF HeapInv, Preparing
<1> QED BY <1>1 DEF OffHeap

\* No caller owns a slice of a heap that init has not prepared, when none is
\* asked for before (alloc, and the GlobalAlloc adapter).
THEOREM NullBeforeInitHolds ==
  ASSUME SafeUse
  PROVE  Spec /\ HonestPops => []NullBeforeInit
<1>1. HeapInv => NullBeforeInit
  BY DEF HeapInv, Preparing, NullBeforeInit
<1> QED BY <1>1, HeapInvHolds, PTL

\* No block is returned to a bin or to the oversized list that has it, when no
\* slice is freed twice: not by a free, and not by the free a realloc ends with.
THEOREM NotReturnedTwiceHolds ==
  ASSUME SafeUse
  PROVE  Spec /\ HonestPops => []NotReturnedTwice
<1>1. HeapInv => NotReturnedTwice
  <2> SUFFICES ASSUME HeapInv, NEW t \in Threads, Pushing(t) \/ pc[t] = "over_push",
                      r[t].job = "free", r[t].blk \in FreeSet(r[t].bin)
               PROVE  FALSE
    BY DEF NotReturnedTwice
  <2>1. booted
    BY BootedThere DEF Pushing, Initialising
  <2>2. PICK own, st, el, n : HInv(own, st, el, n)
    BY <2>1, Ghosts
  <2>3. Typed(r[t]) /\ Hands(own, st, t) /\ Moving(own, st, t) /\ Place(t)
    BY <2>2 DEF HInv, Types, Thread
  <2>4. r[t].bin \in Bins
    <3>1. pc[t] = "over_push" => r[t].bin = oversize_bin
      BY <2>3 DEF Place
    <3>2. oversize_bin \in Bins
      BY BinRange
    <3> QED BY <2>3, <3>1, <3>2, FixedFacts DEF Moving
  <2>5. PICK b, k : b = r[t].blk /\ k = r[t].bin
    OBVIOUS
  <2>6. own[b] = BinId(k, b)
    <3>1. PICK i \in 1 .. n[k] : b = el[k][i]
      BY <2>2, <2>4, <2>5, FreeSetIs
    <3> QED BY <2>2, <2>4, <2>5, <3>1, ListBlock DEF HInv
  <2>7. b # 0
    BY <2>3, <2>5 DEF Place, Freeing
  <2>8. own[b] \in MyIds(t)
    BY <2>3, <2>5, <2>7, InHandFacts DEF MyIds
  <2> QED BY <2>6, <2>8, IdsDiffer
<1> QED BY <1>1, HeapInvHolds, PTL

\* What alloc returns has at least the size requested and is in the heap, for
\* every size that does not wrap on the way.
THEOREM AllocKeepsItsPromiseHolds ==
  ASSUME SafeUse
  PROVE  Spec /\ HonestPops => []AllocKeepsItsPromise
<1>1. HeapInv => AllocKeepsItsPromise
  <2> SUFFICES ASSUME HeapInv, NEW t \in Threads, pc[t] = "return", r[t].dst # NullSlice
               PROVE  r[t].dst.len >= r[t].size /\ r[t].dst.ptr + r[t].dst.len <= heap_end
    BY DEF AllocKeepsItsPromise
  <2>1. booted
    BY BootedThere DEF Initialising
  <2>2. PICK own, st, el, n : HInv(own, st, el, n)
    BY <2>1, Ghosts
  <2>3. Typed(r[t]) /\ Hands(own, st, t) /\ Place(t)
    BY <2>2 DEF HInv, Types, Thread
  <2>4. PICK s : s = r[t].dst
    OBVIOUS
  <2>5. s.ptr # 0 /\ s \in SliceSet /\ SliceHeld(own, st, DstId(t), s)
    BY <2>3, <2>4 DEF Hands, Typed
  <2>6. r[t].size <= s.len
    BY <2>3, <2>4, <2>5 DEF Place
  <2>7. PICK b, size : b = BlockOf(s) /\ size = s.len + MIN_ALIGN
    OBVIOUS
  <2>8. /\ Block(own, st, DstId(t), b, b + size) /\ s.ptr = b + MIN_ALIGN
        /\ b \in Nat /\ size \in Nat /\ s.len \in Nat
    BY <2>5, <2>7, SliceFacts
  <2>9. b + size <= heap_end /\ MIN_ALIGN \in Nat
    BY <2>8, HeapBounds DEF Block, Held
  <2>10. r[t].size \in Nat
    BY <2>3 DEF Typed
  <2> QED BY <2>4, <2>6, <2>7, <2>8, <2>9, <2>10
<1> QED BY <1>1, HeapInvHolds, PTL

-----------------------------------------------------------------------------
(* Nothing leaks.  What a step makes of the free lists.                    *)

FreeOf == [k \in Bins |-> FreeSet(k)]

\* A call begins without touching the heap.
LEMMA CallsTouchNothing ==
  ASSUME NEW t \in Threads, Call(t)
  PROVE  ~FitTake(t) /\ ~Swap(t) /\ ~Bump(t) /\ head' = head /\ bump' = bump /\ word0' = word0 /\ word1' = word1
BY DEF Call, AllocCall, FreeCall, FreeAgain, ReallocCall, MayCall, FitTake, Swap, PushCas, PopCas, Bump,
   control, memory

\* Which granules of a free block a step may write: none but the link of the
\* block that first fit unlinks another one from.
LEMMA FreeStaysWritten ==
  ASSUME SafeUse, NEW own, NEW st, NEW el, NEW n, HInv(own, st, el, n), booted, LInv,
         NEW t \in Threads, Call(t) \/ Step(t), NEW k, NEW b, NEW a \in Granules, own[a] = BinId(k, b)
  PROVE  /\ word0'[a] = word0[a]
         /\ ~FitTake(t) => word1'[a] = word1[a]
<1>1. CASE Call(t)
  BY <1>1, CallsTouchNothing
<1>2. CASE FitTake(t)
  BY <1>2 DEF FitTake
<1>3. CASE Step(t) /\ ~FitTake(t)
  <2>1. own[a] \notin MyIds(t)
    BY IdsDiffer
  <2>2. ~Touchable(own, t, a)
    BY <1>3, <2>1 DEF Touchable, MyIds
  <2>3. Unwritten(own, t)
    BY <1>3, StepWrites
  <2> QED BY <2>2, <2>3 DEF Unwritten
<1> QED BY <1>1, <1>2, <1>3

\* A free block keeps its header.
LEMMA FreeHeaderStays ==
  ASSUME SafeUse, NEW own, NEW st, NEW el, NEW n, HInv(own, st, el, n), booted, LInv,
         NEW t \in Threads, Call(t) \/ Step(t), NEW k \in Bins, NEW b \in FreeOf[k]
  PROVE  /\ b \in Granules /\ own[b] = BinId(k, b) /\ b \in st /\ b \in Nat \ {0}
         /\ At(word0, b)' = At(word0, b)
<1>1. Block(own, st, BinId(k, b), b, b + header_size(At(word0, b)))
  BY FreeBlockFacts DEF FreeOf
<1>2. b \in Granules /\ own[b] = BinId(k, b) /\ b \in st /\ b \in Nat \ {0}
  BY <1>1, HeldFacts DEF Block
<1>3. word0'[b] = word0[b]
  BY <1>2, FreeStaysWritten
<1> QED BY <1>2, <1>3 DEF At

\* The blocks of a list, seen from head and links.
LEMMA FreeOfIs ==
  ASSUME NEW own, NEW st, NEW el, NEW n, HInv(own, st, el, n), NEW k \in Bins
  PROVE  \A b : b \in FreeOf[k] <=> \E i \in 1 .. n[k] : b = el[k][i]
BY FreeSetIs DEF FreeOf
LEMMA FreeChain ==
  \A own, st, el, n : HInv(own, st, el, n) =>
    \A k \in Bins : \A b : b \in FreeOf[k] <=> \E i \in 1 .. n[k] : b = el[k][i]
BY FreeOfIs
LEMMA FreeChainNext ==
  (\A own, st, el, n : HInv(own, st, el, n) =>
    \A k \in Bins : \A b : b \in FreeOf[k] <=> \E i \in 1 .. n[k] : b = el[k][i])'
BY FreeChain, PTL
LEMMA GhostsNext == (HeapInv /\ booted => \E own, st, el, n : HInv(own, st, el, n))'
<1>1. HeapInv /\ booted => \E own, st, el, n : HInv(own, st, el, n)
  BY Ghosts
<1> QED BY <1>1, PTL

\* Whether a block is one of the first m of a list.
Among(b, f, m) == \E i \in 1 .. m : b = f[i]

\* However the new list is found, its blocks are those of the bin.
LEMMA FreeAfter ==
  ASSUME booted', HeapInv', NEW k \in Bins, NEW f, NEW m, Chain(word1', AddrOf(head'[k]), f, m), NEW b
  PROVE  b \in FreeOf'[k] <=> Among(b, f, m)
<1>1. PICK own, st, el, n : HInv(own, st, el, n)'
  BY GhostsNext
<1>2. Chain(word1', AddrOf(head'[k]), el[k], n[k])
  BY <1>1, ListChainNext
<1>3. PICK g, p : g = el[k] /\ p = n[k]
  OBVIOUS
<1>4. m = p /\ \A i \in 0 .. m : f[i] = g[i]
  BY <1>2, <1>3, SameChain
<1>5. m \in Nat
  BY DEF Chain
<1>6. b \in FreeOf'[k] <=> \E i \in 1 .. p : b = g[i]
  BY <1>1, <1>3, FreeChainNext
<1> QED BY <1>4, <1>5, <1>6 DEF Among

\* Where neither the head nor a link of the list moves, its blocks stay.
LEMMA FreeSame ==
  ASSUME NEW own, NEW st, NEW el, NEW n, HInv(own, st, el, n), booted', HeapInv', NEW k \in Bins,
         head'[k] = head[k], \A i \in 1 .. n[k] : word1'[el[k][i]] = word1[el[k][i]], NEW b
  PROVE  b \in FreeOf'[k] <=> b \in FreeOf[k]
<1>1. PICK f, m : f = el[k] /\ m = n[k]
  OBVIOUS
<1>2. Chain(word1, AddrOf(head[k]), f, m)
  BY <1>1, ListChain
<1>3. Chain(word1', AddrOf(head'[k]), f, m)
  BY <1>1, <1>2 DEF Chain
<1>4. b \in FreeOf'[k] <=> Among(b, f, m)
  BY <1>3, FreeAfter
<1> QED BY <1>1, <1>4, FreeOfIs DEF Among

\* A block put on top of the oversized list, or of another one.
LEMMA FreeGrows ==
  ASSUME NEW own, NEW st, NEW el, NEW n, HInv(own, st, el, n), booted', HeapInv', NEW k \in Bins,
         NEW x \in Nat \ {0}, AddrOf(head'[k]) = x, word1'[x] = AddrOf(head[k]),
         \A i \in 1 .. n[k] : word1'[el[k][i]] = word1[el[k][i]], NEW b
  PROVE  b \in FreeOf'[k] <=> b = x \/ b \in FreeOf[k]
<1>1. PICK f, m : f = el[k] /\ m = n[k]
  OBVIOUS
<1>2. Chain(word1, AddrOf(head[k]), f, m)
  BY <1>1, ListChain
<1>3. f \in [Nat -> Int] /\ m \in Nat /\ f[0] = 0 /\ f[m] = AddrOf(head[k])
  BY <1>2 DEF Chain
<1>4. PICK g : g = [f EXCEPT ![m + 1] = x]
  OBVIOUS
<1>5. g \in [Nat -> Int] /\ g[m + 1] = x /\ (\A i \in 0 .. m : g[i] = f[i]) /\ g[0] = 0 /\ m + 1 \in Nat
  BY <1>3, <1>4
<1>6. ASSUME NEW i \in 1 .. m + 1 PROVE g[i] # 0 /\ word1'[g[i]] = g[i - 1]
  <2>1. CASE i = m + 1
    <3>1. i - 1 = m /\ m \in 0 .. m
      BY <1>3, <2>1
    <3> QED BY <1>3, <1>5, <2>1, <3>1
  <2>2. CASE i # m + 1
    <3>1. i \in 1 .. m /\ i \in 0 .. m /\ i - 1 \in 0 .. m
      BY <1>3, <2>2
    <3>2. f[i] # 0 /\ word1[f[i]] = f[i - 1] /\ word1'[f[i]] = word1[f[i]]
      BY <1>1, <1>2, <3>1 DEF Chain
    <3> QED BY <1>5, <3>1, <3>2
  <2> QED BY <2>1, <2>2
<1>7. Chain(word1', AddrOf(head'[k]), g, m + 1)
  BY <1>5, <1>6 DEF Chain
<1>8. b \in FreeOf'[k] <=> Among(b, g, m + 1)
  BY <1>7, FreeAfter
<1>9. Among(b, g, m + 1) <=> b = x \/ \E i \in 1 .. m : b = f[i]
  <2>1. \A i \in 1 .. m + 1 : i = m + 1 \/ i \in 1 .. m
    BY <1>3
  <2>2. \A i \in 1 .. m : i \in 1 .. m + 1 /\ i \in 0 .. m
    BY <1>3
  <2>3. m + 1 \in 1 .. m + 1
    BY <1>3
  <2> QED BY <1>5, <2>1, <2>2, <2>3 DEF Among
<1> QED BY <1>1, <1>8, <1>9, FreeOfIs

\* A bin by name.  (An equation among the hypotheses would be applied inside
\* FreeOf'[k], too.)
On(t, k) == k = r[t].bin
Over(k) == k = oversize_bin

\* A step that puts block x on top of list k.
Puts(own, k, x) ==
  /\ x \in Nat \ {0} /\ x \in Granules /\ (\A j, y : own[x] # BinId(j, y))
  /\ AddrOf(head'[k]) = x /\ word1'[x] = AddrOf(head[k])
  /\ \A a \in Granules : a # x => word1'[a] = word1[a]

LEMMA PutsGrow ==
  ASSUME NEW own, NEW st, NEW el, NEW n, HInv(own, st, el, n), booted', HeapInv', NEW k \in Bins,
         NEW x, Puts(own, k, x), NEW b
  PROVE  b \in FreeOf'[k] <=> b = x \/ b \in FreeOf[k]
<1>1. ASSUME NEW i \in 1 .. n[k] PROVE word1'[el[k][i]] = word1[el[k][i]]
  <2>1. Lists(own, st, el, n)
    BY DEF HInv
  <2>2. PICK c : c = el[k][i]
    OBVIOUS
  <2>3. c \in Granules /\ own[c] = BinId(k, c)
    BY <2>1, <2>2, ListBlock
  <2>4. c # x
    BY <2>3 DEF Puts
  <2> QED BY <2>2, <2>3, <2>4 DEF Puts
<1> QED BY <1>1, FreeGrows DEF Puts

\* push_fixed puts its block on top.
LEMMA PushPuts ==
  ASSUME NEW own, NEW st, NEW el, NEW n, HInv(own, st, el, n), LInv,
         NEW t \in Threads, PushCas(t), NEW k, On(t, k), NEW x, x = Piece(t)
  PROVE  k \in FixedBins /\ k \in Bins /\ Puts(own, k, x)
<1>1. PICK old : old = r[t].old
  OBVIOUS
<1>2. /\ Moving(own, st, t) /\ head \in [Bins -> Nat] /\ pc[t] = "push_cas" /\ Pushing(t)
  BY Here DEF PushCas, Pushing
<1>3. /\ k \in FixedBins /\ k \in Bins /\ FreeBlock(own, st, PushId(t), k, x)
      /\ old \in Nat /\ word1[x] = AddrOf(old) /\ head[k] = old
  BY <1>1, <1>2, FixedFacts DEF On, Moving, PushCas, HeadAsLoaded
<1>4. x \in Nat \ {0} /\ x % MIN_ALIGN = 0 /\ x \in Granules /\ own[x] = PushId(t)
  BY <1>3, HeldFacts DEF FreeBlock, Block
<1>5. \A j, y : own[x] # BinId(j, y)
  BY <1>4, IdsDiffer DEF PushId, MyIds
<1>6. word1' = word1 /\ AddrOf(head'[k]) = x
  <2>1. head'[k] = x + NextTag(old) /\ word1' = word1
    BY <1>1, <1>2, <1>3 DEF On, PushCas, memory
  <2> QED BY <1>3, <1>4, <2>1, HeadFacts
<1> QED BY <1>3, <1>4, <1>5, <1>6 DEF Puts

\* What heads the oversized list, without a tag.
LEMMA OverHead ==
  ASSUME NEW own, NEW st, NEW el, NEW n, HInv(own, st, el, n)
  PROVE  /\ oversize_bin \in Bins /\ head \in [Bins -> Nat]
         /\ AddrOf(head[oversize_bin]) = head[oversize_bin]
BY OversizeIsABin DEF HInv, Types, Lists

LEMMA OverPuts ==
  ASSUME NEW own, NEW st, NEW el, NEW n, HInv(own, st, el, n), NEW k, Over(k),
         NEW x \in Granules, x \in Nat \ {0}, \A j, y : own[x] # BinId(j, y),
         head' = [head EXCEPT ![k] = x], word1' = [word1 EXCEPT ![x] = head[k]]
  PROVE  Puts(own, k, x)
<1>1. k \in Bins /\ head \in [Bins -> Nat] /\ AddrOf(head[k]) = head[k] /\ word1 \in [Granules -> Int]
  BY OverHead DEF Over, HInv, Types
<1>2. x % MIN_ALIGN = 0
  BY HeapBounds
<1>3. AddrOf(x) = x
  BY <1>2, HeadFacts
<1>4. head'[k] = x /\ word1'[x] = head[k] /\ \A a \in Granules : a # x => word1'[a] = word1[a]
  BY <1>1
<1> QED BY <1>1, <1>3, <1>4 DEF Puts

\* push_oversize_locked puts the block in hand on top.
LEMMA OverPushPuts ==
  ASSUME NEW own, NEW st, NEW el, NEW n, HInv(own, st, el, n), LInv,
         NEW t \in Threads, OverPush(t), NEW k, Over(k), NEW x, x = r[t].blk
  PROVE  Puts(own, k, x)
<1>1. Hands(own, st, t) /\ Typed(r[t]) /\ Place(t)
  BY Here
<1>2. x # 0
  BY <1>1 DEF OverPush, Place, Freeing
<1>3. x \in Granules /\ x \in Nat \ {0} /\ own[x] = BlockId(t)
  BY <1>1, <1>2, InHandFacts
<1>4. \A j, y : own[x] # BinId(j, y)
  BY <1>3, IdsDiffer DEF MyIds
<1>5. head' = [head EXCEPT ![k] = x] /\ word1' = [word1 EXCEPT ![x] = head[k]]
  BY DEF Over, OverPush
<1> QED BY <1>3, <1>4, <1>5, OverPuts

\* A piece above EXP_CEIL that is cut off a gap, or off a block.
LEMMA GapPuts ==
  ASSUME SafeUse, NEW own, NEW st, NEW el, NEW n, HInv(own, st, el, n), LInv,
         NEW t \in Threads, CarveGap(t), NEW k, Over(k),
         NEW piece, piece = largest_carvable(r[t].end, r[t].end - r[t].lo), piece.bin = k,
         NEW x, x = r[t].end - piece.size
  PROVE  Puts(own, k, x)
<1>1. PICK lo, hi, p, size, j, start :
        /\ lo = r[t].lo /\ hi = r[t].end
        /\ p = largest_carvable(hi, hi - lo) /\ size = p.size /\ j = p.bin
        /\ start = hi - size
        /\ Held(own, st, GapId(t), lo, hi) /\ lo < hi
        /\ lo \in Nat \ {0} /\ hi \in Nat /\ hi <= heap_end /\ hi % MIN_ALIGN = 0 /\ lo % MIN_ALIGN = 0
        /\ size \in Nat /\ size <= hi - lo /\ j \in Bins /\ Valid(start, size) /\ bin_index(size) = j
        /\ start \in Nat /\ lo <= start /\ start <= hi /\ start % MIN_ALIGN = 0
        /\ j # oversize_bin => j \in FixedBins
  BY GapCut
<1>2. x = start /\ p = piece
  BY <1>1
<1>3. start < hi
  <2>1. size >= LNR_FLOOR /\ LNR_FLOOR \in Nat \ {0}
    BY <1>1, GeoConstants, CadAssumption DEF Valid
  <2> QED BY <1>1, <2>1
<1>4. start \in Granules /\ start \in Nat \ {0}
  BY <1>1, <1>3, GranuleAt, HeapBounds
<1>5. own[start] = GapId(t)
  BY <1>1, <1>3, <1>4 DEF Held
<1>6. \A i, y : own[start] # BinId(i, y)
  BY <1>5, IdsDiffer DEF MyIds
<1>7. head' = [head EXCEPT ![k] = start] /\ word1' = [word1 EXCEPT ![start] = head[k]]
  BY <1>1, <1>2 DEF Over, CarveGap, Release
<1> QED BY <1>2, <1>4, <1>6, <1>7, OverPuts

LEMMA SplitPuts ==
  ASSUME SafeUse, NEW own, NEW st, NEW el, NEW n, HInv(own, st, el, n), LInv,
         NEW t \in Threads, SplitCarve(t), NEW k, Over(k),
         NEW piece, piece = largest_carvable(r[t].top, InHand(t) - Target(t)), piece.bin = k,
         NEW x, x = r[t].top - piece.size
  PROVE  Puts(own, k, x)
<1>1. PICK lo, hi, p, size, need, j, start, iter :
        /\ lo = r[t].blk /\ hi = r[t].top /\ need = Target(t) /\ iter = r[t].iter
        /\ p = largest_carvable(hi, (hi - lo) - need) /\ size = p.size /\ j = p.bin
        /\ start = hi - size
        /\ Held(own, st, BlockId(t), lo, hi) /\ lo \in st
        /\ lo \in Nat \ {0} /\ hi \in Nat /\ lo < hi /\ hi <= heap_end /\ hi % MIN_ALIGN = 0
        /\ lo % MIN_ALIGN = 0
        /\ need \in Nat /\ need > 0 /\ need <= hi - lo /\ lo % align_of_bin(bin_index(hi - lo)) = 0
        /\ size \in Nat /\ size <= (hi - lo) - need /\ j \in Bins /\ Valid(start, size)
        /\ bin_index(size) = j
        /\ start \in Nat /\ lo < start /\ start <= hi /\ need <= start - lo
        /\ j # oversize_bin => j \in FixedBins
  BY SplitCut
<1>2. x = start /\ p = piece
  BY <1>1 DEF InHand
<1>3. start < hi /\ start % MIN_ALIGN = 0
  <2>1. size >= LNR_FLOOR /\ LNR_FLOOR \in Nat \ {0} /\ size % MIN_ALIGN = 0
    BY <1>1, GeoConstants, CadAssumption DEF Valid
  <2>2. start < hi
    BY <1>1, <2>1
  <2> QED BY <1>1, <2>1, <2>2, HeapBounds, ModSum, ModGap
<1>4. start \in Granules /\ start \in Nat \ {0}
  BY <1>1, <1>3, GranuleAt, HeapBounds
<1>5. own[start] = BlockId(t)
  BY <1>1, <1>3, <1>4 DEF Held
<1>6. \A i, y : own[start] # BinId(i, y)
  BY <1>5, IdsDiffer DEF MyIds
<1>7. head' = [head EXCEPT ![k] = start] /\ word1' = [word1 EXCEPT ![start] = head[k]]
  <2>1. largest_carvable(r[t].top, InHand(t) - Target(t)) = p
    BY <1>2
  <2> QED BY <1>1, <1>2, <2>1 DEF Over, SplitCarve, Release
<1> QED BY <1>2, <1>4, <1>6, <1>7, OverPuts

\* What is left of list f when it loses block c is list g.
Left(f, m, c, g, p) ==
  /\ \E j \in 1 .. m : f[j] = c
  /\ \A i \in 1 .. m : f[i] = c \/ \E i2 \in 1 .. p : g[i2] = f[i]

LEMMA Loses ==
  ASSUME NEW own, NEW st, NEW el, NEW n, HInv(own, st, el, n), booted', HeapInv', NEW k \in Bins,
         NEW f, NEW m, f = el[k], m = n[k], NEW p, NEW g, Chain(word1', AddrOf(head'[k]), g, p),
         NEW c, Left(f, m, c, g, p)
  PROVE  /\ \A b : b \in FreeOf[k] => b \in FreeOf'[k] \/ b = c
         /\ c \in FreeOf[k]
<1>1. ASSUME NEW b \in FreeOf[k] PROVE b \in FreeOf'[k] \/ b = c
  <2>1. b \in FreeOf'[k] <=> \E i \in 1 .. p : b = g[i]
    BY FreeAfter DEF Among
  <2>2. b \in FreeOf[k] <=> \E i \in 1 .. n[k] : b = el[k][i]
    BY FreeOfIs
  <2> QED BY <2>1, <2>2 DEF Left
<1>2. c \in FreeOf[k] <=> \E i \in 1 .. n[k] : c = el[k][i]
  BY FreeOfIs
<1> QED BY <1>1, <1>2 DEF Left

\* pop_fixed takes the top block, and only it, off its list.
LEMMA PopTakes ==
  ASSUME SafeUse, NEW own, NEW st, NEW el, NEW n, HInv(own, st, el, n), booted, LInv,
         booted', HeapInv', NEW t \in Threads, PopCas(t), HonestPop(t), NEW k, On(t, k)
  PROVE  /\ k \in FixedBins /\ k \in Bins
         /\ \A b : b \in FreeOf[k] => b \in FreeOf'[k] \/ b = AddrOf(r[t].old)
         /\ AddrOf(r[t].old) \in FreeOf[k]
<1>1. PICK c, old, nxt : c = AddrOf(r[t].old) /\ old = r[t].old /\ nxt = r[t].nxt
  OBVIOUS
<1>2. /\ Moving(own, st, t) /\ Place(t) /\ FixedBinOnly(t) /\ head \in [Bins -> Nat]
      /\ pc[t] = "pop_cas" /\ Popping(t)
  BY Here DEF PopCas, Popping
<1>3. r[t].bin = RequestBin(r[t].size) /\ r[t].size \in Requests
  BY <1>2 DEF Place, AskingAt, Asking, Serving
<1>4. k \in Bins /\ k \in FixedBins /\ c \in st /\ old \in Nat /\ head[k] = old /\ nxt = At(word1, c)
  <2>1. k \in Bins /\ k \in FixedBins
    BY <1>1, <1>2, <1>3, RequestOk DEF On, FixedBinOnly
  <2>2. nxt = At(word1, c)
    BY <1>1 DEF HonestPop
  <2> QED BY <1>1, <1>2, <2>1, <2>2 DEF On, Moving, PopCas, HeadAsLoaded
<1>5. PICK f, m : f = el[k] /\ m = n[k]
  OBVIOUS
<1>6. Chain(word1, c, f, m)
  BY <1>1, <1>4, <1>5, ListChain
<1>7. c \in Granules \ {0} /\ Lists(own, st, el, n)
  BY <1>4 DEF HInv, Types
<1>8. f \in [Nat -> Int] /\ m \in Nat /\ f[0] = 0 /\ f[m] = c /\ m # 0
  BY <1>6, <1>7 DEF Chain
<1>9. m \in 1 .. m /\ m - 1 \in Nat
  BY <1>8
<1>10. nxt = f[m - 1]
  BY <1>4, <1>6, <1>7, <1>8, <1>9 DEF Chain, At
<1>11. nxt \in Nat /\ nxt % MIN_ALIGN = 0
  <2>1. CASE m = 1
    <3>1. nxt = 0
      BY <1>8, <1>10, <2>1
    <3>2. MIN_ALIGN \in Nat \ {0}
      BY HeapBounds
    <3> QED BY <3>1, <3>2
  <2>2. CASE m # 1
    <3>1. m - 1 \in 1 .. m
      BY <1>8, <2>2
    <3> QED BY <1>4, <1>5, <1>7, <1>10, <3>1, ListBlock
  <2> QED BY <2>1, <2>2
<1>12. word1' = word1 /\ AddrOf(head'[k]) = nxt
  <2>1. head'[k] = nxt + NextTag(old) /\ word1' = word1
    BY <1>1, <1>2, <1>4 DEF On, PopCas, memory
  <2> QED BY <1>4, <1>11, <2>1, HeadFacts
<1>13. Chain(word1', AddrOf(head'[k]), f, m - 1)
  <2>1. \A i \in 1 .. m - 1 : i \in 1 .. m
    BY <1>8
  <2> QED BY <1>6, <1>9, <1>10, <1>12, <2>1 DEF Chain
<1>14. \A i \in 1 .. m : f[i] = c \/ \E i2 \in 1 .. m - 1 : f[i2] = f[i]
  <2>1. \A i \in 1 .. m : i = m \/ i \in 1 .. m - 1
    BY <1>8
  <2> QED BY <1>8, <2>1
<1>15. PICK p : p = m - 1
  OBVIOUS
<1>16. (\A b : b \in FreeOf[k] => b \in FreeOf'[k] \/ b = c) /\ c \in FreeOf[k]
  <2>1. k \in Bins /\ f[m] = c /\ m \in 1 .. m
    BY <1>4, <1>8, <1>9
  <2>2. Chain(word1', AddrOf(head'[k]), f, p)
    BY <1>13, <1>15
  <2>3. Left(f, m, c, f, p)
    BY <1>14, <1>15, <2>1 DEF Left
  <2>4. k \in Bins
    BY <2>1
  <2> QED BY <1>5, <2>2, <2>3, <2>4, Loses
<1> QED BY <1>1, <1>4, <1>16

\* First fit takes the block it stopped at, and only it, off the oversized list.
LEMMA FitTakes ==
  ASSUME SafeUse, NEW own, NEW st, NEW el, NEW n, HInv(own, st, el, n), booted, LInv,
         booted', HeapInv', NEW t \in Threads, FitTake(t), NEW k, Over(k)
  PROVE  /\ \A b : b \in FreeOf[k] => b \in FreeOf'[k] \/ b = r[t].cur
         /\ r[t].cur \in FreeOf[k]
<1>1. /\ k \in Bins /\ head \in [Bins -> Nat] /\ Lists(own, st, el, n) /\ n \in [Bins -> Nat]
      /\ word1 \in [Granules -> Int] /\ Fitting(el, n, t)
      /\ head[k] = el[k][n[k]]
  BY OversizeIsABin, Here DEF Over, HInv, Types, Lists
<1>2. PICK f, m : f = el[k] /\ m = n[k]
  OBVIOUS
<1>3. Chain(word1, AddrOf(head[k]), f, m) /\ m \in Nat
  BY <1>1, <1>2, ListChain DEF Chain
<1>4. PICK c, prev : c = r[t].cur /\ prev = r[t].prev
  OBVIOUS
<1>5. PICK j \in 0 .. m : c = f[j] /\ prev = IF j = m THEN 0 ELSE f[j + 1]
  BY <1>1, <1>2, <1>4 DEF Over, Fitting, FitTake
<1>6. c # 0 /\ f[0] = 0 /\ f \in [Nat -> Int]
  BY <1>3, <1>4 DEF FitTake, Chain
<1>7. j # 0 /\ j \in 1 .. m /\ j - 1 \in 0 .. m
  BY <1>3, <1>5, <1>6
<1>8. \A i \in 1 .. m : /\ f[i] \in Granules /\ f[i] # 0 /\ word1[f[i]] = f[i - 1]
                        /\ f[i] \in Nat /\ f[i] % MIN_ALIGN = 0
                        /\ \A i2 \in 1 .. m : f[i] = f[i2] => i = i2
  <2>1. ASSUME NEW i \in 1 .. n[k]
        PROVE  /\ el[k][i] \in Granules /\ el[k][i] # 0 /\ word1[el[k][i]] = el[k][i - 1]
               /\ el[k][i] \in Nat /\ el[k][i] % MIN_ALIGN = 0
               /\ \A i2 \in 1 .. n[k] : el[k][i] = el[k][i2] => i = i2
    <3>1. el[k][i] \in Granules /\ el[k][i] \in Nat \ {0} /\ word1[el[k][i]] = el[k][i - 1]
          /\ el[k][i] % MIN_ALIGN = 0
      BY <1>1, ListBlock
    <3>2. \A i2 \in 1 .. n[k] : el[k][i] = el[k][i2] => i = i2
      BY <1>1 DEF Lists
    <3> QED BY <3>1, <3>2
  <2> QED BY <1>2, <2>1
<1>9. PICK d : d = f[j - 1]
  OBVIOUS
<1>10. At(word1, c) = d
  BY <1>5, <1>7, <1>8, <1>9 DEF At
<1>11. d \in Nat /\ d % MIN_ALIGN = 0
  <2>1. CASE j = 1
    <3>1. d = 0 /\ MIN_ALIGN \in Nat \ {0}
      BY <1>6, <1>9, <2>1, HeapBounds
    <3> QED BY <3>1
  <2>2. CASE j # 1
    <3>1. j - 1 \in 1 .. m
      BY <1>3, <1>7, <2>2
    <3> QED BY <1>8, <1>9, <3>1
  <2> QED BY <2>1, <2>2
<1>12. AddrOf(d) = d
  BY <1>11, HeadFacts
<1> DEFINE g == [i \in Nat |-> IF i < j THEN f[i] ELSE f[i + 1]]
<1>13. g \in [Nat -> Int] /\ m - 1 \in Nat /\ g[0] = 0
  BY <1>3, <1>6, <1>7
<1>14. \A i \in Nat : g[i] = IF i < j THEN f[i] ELSE f[i + 1]
  OBVIOUS
<1> HIDE DEF g
<1>15. AddrOf(head'[k]) = g[m - 1] /\ \A i \in 1 .. m - 1 : g[i] # 0 /\ word1'[g[i]] = g[i - 1]
  <2>1. CASE j = m
    <3>1. prev = 0
      BY <1>5, <2>1
    <3>2. head'[k] = d /\ word1' = word1
      BY <1>1, <1>4, <1>10, <3>1 DEF Over, FitTake
    <3>3. g[m - 1] = d
      BY <1>3, <1>7, <1>9, <1>13, <1>14, <2>1
    <3>4. \A i \in 1 .. m - 1 : i \in 1 .. m /\ i \in Nat /\ i - 1 \in Nat /\ i < j /\ i - 1 < j
      BY <1>3, <2>1
    <3> QED BY <1>8, <1>12, <1>14, <3>2, <3>3, <3>4
  <2>2. CASE j # m
    <3>1. j + 1 \in 1 .. m /\ prev = f[j + 1] /\ prev # 0 /\ prev \in Granules
      <4>1. j + 1 \in 1 .. m
        BY <1>3, <1>7, <2>2
      <4> QED BY <1>5, <1>8, <2>2, <4>1
    <3>2. head' = head /\ word1' = [word1 EXCEPT ![prev] = d]
      BY <1>4, <1>10, <3>1 DEF FitTake
    <3>3. word1'[prev] = d /\ \A a \in Granules : a # prev => word1'[a] = word1[a]
      BY <1>1, <3>1, <3>2
    <3>4. g[m - 1] = f[m] /\ f[m] = AddrOf(head[k])
      <4>1. m - 1 \in Nat /\ ~(m - 1 < j) /\ (m - 1) + 1 = m
        BY <1>3, <1>7, <2>2
      <4> QED BY <1>3, <1>14, <4>1 DEF Chain
    <3>5. ASSUME NEW i \in 1 .. m - 1 PROVE g[i] # 0 /\ word1'[g[i]] = g[i - 1]
      <4>0. i \in Nat /\ i - 1 \in Nat /\ i \in 1 .. m /\ i + 1 \in 1 .. m /\ (i + 1) - 1 = i
            /\ (i - 1) + 1 = i
        BY <1>3
      <4>1. CASE i < j
        <5>1. g[i] = f[i] /\ g[i - 1] = f[i - 1] /\ i # j + 1
          BY <1>14, <4>0, <4>1
        <5>2. f[i] # prev
          BY <1>8, <3>1, <4>0, <5>1
        <5> QED BY <1>8, <3>3, <4>0, <5>1, <5>2
      <4>2. CASE i = j
        <5>1. g[i] = f[j + 1] /\ g[i - 1] = f[j - 1]
          BY <1>14, <4>0, <4>2
        <5> QED BY <1>9, <3>1, <3>3, <5>1
      <4>3. CASE i > j
        <5>1. g[i] = f[i + 1] /\ g[i - 1] = f[i] /\ i + 1 # j + 1
          BY <1>7, <1>14, <4>0, <4>3
        <5>2. f[i + 1] # prev /\ f[i + 1] \in Granules /\ word1[f[i + 1]] = f[i] /\ f[i + 1] # 0
          BY <1>8, <3>1, <4>0, <5>1
        <5> QED BY <3>3, <5>1, <5>2
      <4> QED BY <1>7, <4>0, <4>1, <4>2, <4>3
    <3> QED BY <3>2, <3>4, <3>5
  <2> QED BY <2>1, <2>2
<1>16. Chain(word1', AddrOf(head'[k]), g, m - 1)
  BY <1>13, <1>15 DEF Chain
<1>17. ASSUME NEW i \in 1 .. m, i # j PROVE \E i2 \in 1 .. m - 1 : g[i2] = f[i]
  <2>1. CASE i < j
    <3>1. i \in 1 .. m - 1 /\ g[i] = f[i]
      BY <1>3, <1>7, <1>14, <2>1
    <3> QED BY <3>1
  <2>2. CASE i > j
    <3>1. i - 1 \in 1 .. m - 1 /\ ~(i - 1 < j) /\ (i - 1) + 1 = i /\ i - 1 \in Nat
      BY <1>3, <1>7, <2>2
    <3>2. g[i - 1] = f[i]
      BY <1>14, <3>1
    <3> QED BY <3>1, <3>2
  <2> QED BY <1>7, <1>17, <2>1, <2>2
<1>18. PICK p, h : p = m - 1 /\ h = g
  OBVIOUS
<1>19. (\A b : b \in FreeOf[k] => b \in FreeOf'[k] \/ b = c) /\ c \in FreeOf[k]
  <2>1. k \in Bins /\ f[j] = c /\ j \in 1 .. m
    BY <1>1, <1>5, <1>7
  <2>2. Chain(word1', AddrOf(head'[k]), h, p)
    BY <1>16, <1>18
  <2>3. Left(f, m, c, h, p)
    BY <1>5, <1>17, <1>18, <2>1 DEF Left
  <2>4. k \in Bins
    BY <2>1
  <2> QED BY <1>2, <2>2, <2>3, <2>4, Loses
<1> QED BY <1>4, <1>19

\* Step t puts block x on list k.
GapPiece(t) == largest_carvable(r[t].end, r[t].end - r[t].lo)
SplitPiece(t) == largest_carvable(r[t].top, InHand(t) - Target(t))
PutBy(t, k, x) ==
  \/ PushCas(t) /\ On(t, k) /\ x = Piece(t)
  \/ OverPush(t) /\ Over(k) /\ x = r[t].blk
  \/ CarveGap(t) /\ Over(k) /\ GapPiece(t).bin = k /\ x = r[t].end - GapPiece(t).size
  \/ SplitCarve(t) /\ Over(k) /\ SplitPiece(t).bin = k /\ x = r[t].top - SplitPiece(t).size

LEMMA PutByPuts ==
  ASSUME SafeUse, NEW own, NEW st, NEW el, NEW n, HInv(own, st, el, n), LInv,
         NEW t \in Threads, NEW k, NEW x, PutBy(t, k, x)
  PROVE  k \in Bins /\ Puts(own, k, x)
<1>1. CASE PushCas(t) /\ On(t, k) /\ x = Piece(t)
  BY <1>1, PushPuts
<1>2. Over(k) => k \in Bins
  BY OversizeIsABin DEF Over
<1>3. CASE OverPush(t) /\ Over(k) /\ x = r[t].blk
  BY <1>2, <1>3, OverPushPuts
<1>4. CASE CarveGap(t) /\ Over(k) /\ GapPiece(t).bin = k /\ x = r[t].end - GapPiece(t).size
  BY <1>2, <1>4, GapPuts DEF GapPiece
<1>5. CASE SplitCarve(t) /\ Over(k) /\ SplitPiece(t).bin = k /\ x = r[t].top - SplitPiece(t).size
  BY <1>2, <1>5, SplitPuts DEF SplitPiece
<1> QED BY <1>1, <1>3, <1>4, <1>5 DEF PutBy

\* No other step moves the head of a list.
LEMMA HeadMoves ==
  ASSUME head \in [Bins -> Nat], NEW t \in Threads, Call(t) \/ Step(t), NEW k \in Bins,
         Swap(t) => r[t].bin \in FixedBins
  PROVE  \/ head'[k] = head[k]
         \/ \E x : PutBy(t, k, x)
         \/ PopCas(t) /\ On(t, k)
         \/ FitTake(t) /\ Over(k)
<1> USE DEF control
<1>1. CASE Swap(t)
  BY <1>1 DEF Swap, PushCas, PopCas, PutBy, On
<1>2. CASE OverPush(t) \/ FitTake(t)
  BY <1>2 DEF OverPush, FitTake, PutBy, Over
<1>3. CASE CarveGap(t)
  BY <1>3 DEF CarveGap, GapPiece, Release, PutBy, Over
<1>4. CASE SplitCarve(t)
  BY <1>4 DEF SplitCarve, SplitPiece, Release, PutBy, Over
<1>5. CASE ~Swap(t) /\ ~(CarveGap(t) \/ SplitCarve(t) \/ OverPush(t) \/ FitTake(t))
  <2>1. head' = head
    BY <1>5 DEF Call, Step, AllocCall, FreeCall, FreeAgain, ReallocCall, MayCall, Lock, Unlock,
       PushLoad, PushStore, PushRetry, PopEmpty, PopLoad, PopNext, PopRetry, Stamp, Got,
       RefillFixed, Bump, FitHead, FitSkip, RefillOversize, OverStamp, SplitDone,
       ReallocKeep, ReallocShrink, ReallocGrow, Copy, FreeLoad, FreeStamp, Return
  <2> QED BY <2>1
<1> QED BY <1>1, <1>2, <1>3, <1>4, <1>5

\* A free block stays free but for the pop or the first fit that takes it.
TakenBy(t, k, b) ==
  \/ PopCas(t) /\ On(t, k) /\ b = AddrOf(r[t].old)
  \/ FitTake(t) /\ Over(k) /\ b = r[t].cur

LEMMA FreeStays ==
  ASSUME SafeUse, NEW own, NEW st, NEW el, NEW n, HInv(own, st, el, n), booted, LInv,
         booted', HeapInv', NEW t \in Threads, Call(t) \/ Step(t), HonestPop(t),
         NEW k \in Bins, NEW b \in FreeOf[k]
  PROVE  b \in FreeOf'[k] \/ TakenBy(t, k, b)
<1>1. CASE \E x : PutBy(t, k, x)
  <2>1. PICK x : PutBy(t, k, x)
    BY <1>1
  <2>2. Puts(own, k, x)
    BY <2>1, PutByPuts
  <2>3. b \in FreeOf'[k] <=> b = x \/ b \in FreeOf[k]
    BY <2>2, PutsGrow
  <2> QED BY <2>3
<1>2. CASE PopCas(t) /\ On(t, k)
  <2>1. \A c : c \in FreeOf[k] => c \in FreeOf'[k] \/ c = AddrOf(r[t].old)
    BY <1>2, PopTakes
  <2> QED BY <1>2, <2>1 DEF TakenBy
<1>3. CASE FitTake(t) /\ Over(k)
  <2>1. \A c : c \in FreeOf[k] => c \in FreeOf'[k] \/ c = r[t].cur
    BY <1>3, FitTakes
  <2> QED BY <1>3, <2>1 DEF TakenBy
<1>4. CASE head'[k] = head[k] /\ ~(FitTake(t) /\ Over(k))
  <2>1. ASSUME NEW i \in 1 .. n[k] PROVE word1'[el[k][i]] = word1[el[k][i]]
    <3>1. CASE FitTake(t)
      <4>1. k \in FixedBins
        BY <1>4, <3>1, OversizeIsABin DEF Over, Bins, FixedBins
      <4> QED BY <4>1, LinksStay
    <3>2. CASE ~FitTake(t)
      <4>1. PICK c : c = el[k][i]
        OBVIOUS
      <4>2. Lists(own, st, el, n)
        BY DEF HInv
      <4>3. c \in Granules /\ own[c] = BinId(k, c)
        BY <4>1, <4>2, ListBlock
      <4> QED BY <3>2, <4>1, <4>3, FreeStaysWritten
    <3> QED BY <3>1, <3>2
  <2>2. b \in FreeOf'[k] <=> b \in FreeOf[k]
    BY <1>4, <2>1, FreeSame
  <2> QED BY <2>2
<1>5. Swap(t) => r[t].bin \in FixedBins
  <2>1. CASE PushCas(t)
    BY <2>1, PushPuts DEF On
  <2>2. CASE PopCas(t)
    BY <2>2, PopTakes DEF On
  <2> QED BY <2>1, <2>2 DEF Swap
<1>6. head \in [Bins -> Nat]
  BY Here
<1> QED BY <1>1, <1>2, <1>3, <1>4, <1>5, <1>6, HeadMoves
=============================================================================
