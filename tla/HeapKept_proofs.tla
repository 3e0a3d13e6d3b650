-------------------------- MODULE HeapKept_proofs ---------------------------
(***************************************************************************)
(* No granule of the heap is ever lost, HeapInv is the same whether its    *)
(* four ghosts are chosen or read off the state, and every word of the     *)
(* control area, of a block and of a call's locals fits its type.  Last,   *)
(* what the theorems ask of the pops follows from how far the tag reaches. *)
(***************************************************************************)
EXTENDS HeapSafety_proofs, CadSwaps

\* The bounds of the spans, and of those whose start a pop may have loaded.
Boxes == {<<s.lo, s.hi>> : s \in Spans}
Solids == {<<s.lo, s.hi>> : s \in {x \in Spans : x.owner[1] \notin {"gap", "bump"}}}

\* The boxes of free blocks, of slices and of calls.
FreeBox(k, b, p) == b \in FreeOf[k] /\ p = <<b, b + header_size(At(word0, b))>>
SliceBox(s, p) == p = <<BlockOf(s), s.ptr + s.len>>
CallBox(t, p) ==
  \/ r[t].blk # 0 /\ p = <<r[t].blk, r[t].top>>
  \/ Pushing(t) /\ r[t].job # "free" /\ p = <<Piece(t), Piece(t) + header_size(At(word0, Piece(t)))>>
  \/ HoldsSrc(t) /\ SliceBox(r[t].src, p)
  \/ r[t].dst.ptr # 0 /\ SliceBox(r[t].dst, p)
GapBox(t, p) == r[t].lo < r[t].end /\ p = <<r[t].lo, r[t].end>>
BumpBox(p) == \E s \in Untouched : p = <<s.lo, s.hi>>

LEMMA FreeBoxes == \A k \in Bins : \A b \in FreeOf[k] : <<b, b + header_size(At(word0, b))>> \in Solids
<1>1. SUFFICES ASSUME NEW k \in Bins, NEW b \in FreeOf[k]
               PROVE  <<b, b + header_size(At(word0, b))>> \in Solids
  OBVIOUS
<1>2. PICK s : s = Span(<<"bin", k>>, b, b + header_size(At(word0, b)))
  OBVIOUS
<1>3. s \in Spans
  BY <1>2 DEF FreeOf, Spans, FreeSpans
<1>4. s.lo = b /\ s.hi = b + header_size(At(word0, b)) /\ s.owner[1] = "bin"
  BY <1>2 DEF Span
<1> QED BY <1>3, <1>4 DEF Solids

LEMMA LiveBoxes == \A s \in live : <<BlockOf(s), s.ptr + s.len>> \in Solids
<1>1. SUFFICES ASSUME NEW x \in live PROVE <<BlockOf(x), x.ptr + x.len>> \in Solids
  OBVIOUS
<1>2. PICK s : s = SliceSpan(<<"live", 0>>, x)
  OBVIOUS
<1>3. s \in Spans
  BY <1>2 DEF Spans, LiveSpans
<1>4. s.lo = BlockOf(x) /\ s.hi = x.ptr + x.len /\ s.owner[1] = "live"
  BY <1>2 DEF SliceSpan, Span
<1> QED BY <1>3, <1>4 DEF Solids

LEMMA CallsHave ==
  ASSUME NEW t \in Threads, NEW s \in InCall(t)
  PROVE  <<s.lo, s.hi>> \in Boxes /\ (s.owner[1] \notin {"gap", "bump"} => <<s.lo, s.hi>> \in Solids)
BY DEF Boxes, Solids, Spans, CallSpans

LEMMA CallBoxes == \A t \in Threads : \A p : CallBox(t, p) => p \in Solids
<1>1. SUFFICES ASSUME NEW t \in Threads, NEW p, CallBox(t, p) PROVE p \in Solids
  OBVIOUS
<1>2. CASE r[t].blk # 0 /\ p = <<r[t].blk, r[t].top>>
  <2>1. PICK s : s = Span(<<"block", t>>, r[t].blk, r[t].top)
    OBVIOUS
  <2>2. s \in InCall(t) /\ s.lo = r[t].blk /\ s.hi = r[t].top /\ s.owner[1] = "block"
    BY <1>2, <2>1 DEF InCall, Span
  <2> QED BY <1>2, <2>2, CallsHave
<1>3. CASE Pushing(t) /\ r[t].job # "free" /\ p = <<Piece(t), Piece(t) + header_size(At(word0, Piece(t)))>>
  <2>1. PICK s : s = Span(<<"piece", t>>, Piece(t), Piece(t) + header_size(At(word0, Piece(t))))
    OBVIOUS
  <2>2. s \in InCall(t) /\ p = <<s.lo, s.hi>> /\ s.owner[1] = "piece"
    BY <1>3, <2>1 DEF InCall, Span
  <2> QED BY <2>2, CallsHave
<1>4. CASE HoldsSrc(t) /\ SliceBox(r[t].src, p)
  <2>1. PICK s : s = SliceSpan(<<"src", t>>, r[t].src)
    OBVIOUS
  <2>2. s \in InCall(t) /\ p = <<s.lo, s.hi>> /\ s.owner[1] = "src"
    BY <1>4, <2>1 DEF InCall, SliceSpan, Span, SliceBox
  <2> QED BY <2>2, CallsHave
<1>5. CASE r[t].dst.ptr # 0 /\ SliceBox(r[t].dst, p)
  <2>1. PICK s : s = SliceSpan(<<"dst", t>>, r[t].dst)
    OBVIOUS
  <2>2. s \in InCall(t) /\ p = <<s.lo, s.hi>> /\ s.owner[1] = "dst"
    BY <1>5, <2>1 DEF InCall, SliceSpan, Span, SliceBox
  <2> QED BY <2>2, CallsHave
<1> QED BY <1>1, <1>2, <1>3, <1>4, <1>5 DEF CallBox

LEMMA OtherBoxes ==
  /\ \A t \in Threads : r[t].lo < r[t].end => <<r[t].lo, r[t].end>> \in Boxes
  /\ \A s \in Untouched : <<s.lo, s.hi>> \in Boxes
  /\ \A p \in Solids : p \in Boxes
<1>1. ASSUME NEW t \in Threads, r[t].lo < r[t].end PROVE <<r[t].lo, r[t].end>> \in Boxes
  <2>1. PICK s : s = Span(<<"gap", t>>, r[t].lo, r[t].end)
    OBVIOUS
  <2>2. s \in InCall(t) /\ <<r[t].lo, r[t].end>> = <<s.lo, s.hi>>
    BY <1>1, <2>1 DEF InCall, Span
  <2> QED BY <2>2, CallsHave
<1> QED BY <1>1 DEF Boxes, Solids, Spans

LEMMA SolidIs ==
  ASSUME NEW p \in Solids
  PROVE  \/ \E k, b : k \in Bins /\ FreeBox(k, b, p)
         \/ \E s \in live : SliceBox(s, p)
         \/ \E t \in Threads : CallBox(t, p)
<1>1. PICK s \in Spans : s.owner[1] \notin {"gap", "bump"} /\ p = <<s.lo, s.hi>>
  BY DEF Solids
<1>2. PICK id : SpanOf(s, id)
  BY SpanHasOwner
<1>3. CASE \E k \in Bins : \E b \in FreeSet(k) : s = Span(<<"bin", k>>, b, b + header_size(At(word0, b)))
  BY <1>1, <1>3 DEF FreeOf, Span, FreeBox
<1>4. CASE \E x \in live : s = SliceSpan(<<"live", 0>>, x)
  BY <1>1, <1>4 DEF SliceSpan, Span, SliceBox
<1>5. CASE \E t \in Threads : SpanOfCall(s, id, t)
  <2>1. PICK t \in Threads : SpanOfCall(s, id, t)
    BY <1>5
  <2>2. CallBox(t, p)
    BY <1>1, <2>1 DEF SpanOfCall, CallBox, Span, SliceSpan, SliceBox
  <2> QED BY <2>2
<1>6. CASE s \in Untouched
  BY <1>1, <1>6 DEF Untouched, Span
<1> QED BY <1>2, <1>3, <1>4, <1>5, <1>6 DEF SpanOf

LEMMA BoxIs ==
  ASSUME NEW p \in Boxes
  PROVE  p \in Solids \/ (\E t \in Threads : GapBox(t, p)) \/ BumpBox(p)
<1>1. PICK s \in Spans : p = <<s.lo, s.hi>>
  BY DEF Boxes
<1>2. CASE s.owner[1] \notin {"gap", "bump"}
  BY <1>1, <1>2 DEF Solids
<1>3. CASE s.owner[1] \in {"gap", "bump"}
  <2>1. PICK id : SpanOf(s, id)
    BY SpanHasOwner
  <2>2. CASE s \in Untouched
    BY <1>1, <2>2 DEF BumpBox
  <2>3. CASE \E t \in Threads : SpanOfCall(s, id, t)
    BY <1>1, <1>3, <2>3 DEF SpanOfCall, GapBox, Span, SliceSpan
  <2>4. CASE \E k \in Bins : \E b \in FreeSet(k) : s = Span(<<"bin", k>>, b, b + header_size(At(word0, b)))
    BY <1>3, <2>4 DEF Span
  <2>5. CASE \E x \in live : s = SliceSpan(<<"live", 0>>, x)
    BY <1>3, <2>5 DEF SliceSpan, Span
  <2> QED BY <2>1, <2>2, <2>3, <2>4, <2>5 DEF SpanOf
<1> QED BY <1>2, <1>3

\* The same after a step.
LEMMA FreeBoxesNext ==
  (\A k \in Bins : \A b \in FreeOf[k] : <<b, b + header_size(At(word0, b))>> \in Solids)'
BY FreeBoxes, PTL
LEMMA LiveBoxesNext == (\A s \in live : <<BlockOf(s), s.ptr + s.len>> \in Solids)'
BY LiveBoxes, PTL
LEMMA CallBoxesNext == (\A t \in Threads : \A p : CallBox(t, p) => p \in Solids)'
BY CallBoxes, PTL
LEMMA OtherBoxesNext ==
  (/\ \A t \in Threads : r[t].lo < r[t].end => <<r[t].lo, r[t].end>> \in Boxes
   /\ \A s \in Untouched : <<s.lo, s.hi>> \in Boxes
   /\ \A p \in Solids : p \in Boxes)'
BY OtherBoxes, PTL

\* What a call has in hand after a step.
LEMMA HandBoxesNext ==
  ASSUME NEW t \in Threads
  PROVE  /\ r'[t].blk # 0 => <<r'[t].blk, r'[t].top>> \in Solids'
         /\ HoldsSrc(t)' => <<BlockOf(r'[t].src), r'[t].src.ptr + r'[t].src.len>> \in Solids'
         /\ r'[t].dst.ptr # 0 => <<BlockOf(r'[t].dst), r'[t].dst.ptr + r'[t].dst.len>> \in Solids'
BY CallBoxesNext DEF CallBox, SliceBox

\* A free block: on its list, or in the hand of who takes it.
LEMMA FreeBoxStays ==
  ASSUME SafeUse, NEW own, NEW st, NEW el, NEW n, HInv(own, st, el, n), booted, LInv,
         booted', HeapInv', NEW t \in Threads, Call(t) \/ Step(t), HonestPop(t),
         NEW k \in Bins, NEW b, NEW p, FreeBox(k, b, p)
  PROVE  p \in Solids'
<1>1. b \in FreeOf[k] /\ p = <<b, b + header_size(At(word0, b))>>
  BY DEF FreeBox
<1>2. /\ b \in Granules /\ b \in Nat \ {0} /\ At(word0, b)' = At(word0, b)
  BY <1>1, FreeHeaderStays
<1>3. CASE b \in FreeOf'[k]
  BY <1>1, <1>2, <1>3, FreeBoxesNext DEF At
<1>4. CASE PopCas(t) /\ On(t, k) /\ b = AddrOf(r[t].old)
  <2>1. k \in FixedBins /\ k # oversize_bin
    BY <1>4, PopTakes, FixedFacts
  <2>2. Valid(b, header_size(At(word0, b))) /\ bin_index(header_size(At(word0, b))) = k
    BY <1>1, FreeBlockFacts DEF FreeOf
  <2>3. header_size(At(word0, b)) = bin_class(k)
    <3>1. PICK size : size = header_size(At(word0, b))
      OBVIOUS
    <3> QED BY <1>2, <2>1, <2>2, <3>1, ValidFacts, CadAssumption
  <2>4. r'[t].blk = b /\ r'[t].top = b + bin_class(k)
    BY <1>4, Here DEF PopCas, On, Typed
  <2> QED BY <1>1, <1>2, <2>3, <2>4, HandBoxesNext
<1>5. CASE FitTake(t) /\ b = r[t].cur
  <2>1. r'[t].blk = b /\ r'[t].top = b + header_size(At(word0, b))
    BY <1>5, Here DEF FitTake, Typed
  <2> QED BY <1>1, <1>2, <2>1, HandBoxesNext
<1> QED BY <1>1, <1>3, <1>4, <1>5, FreeStays DEF TakenBy

\* A slice: its caller's, or the argument of the call that begins with it.
LEMMA LiveBoxStays ==
  ASSUME NEW own, NEW st, NEW el, NEW n, HInv(own, st, el, n), LInv, ~EarlyCalls, ~SecondFrees,
         NEW t \in Threads, Call(t) \/ Step(t), NEW s \in live, NEW p, SliceBox(s, p)
  PROVE  p \in Solids'
<1>1. CASE s \in live'
  BY <1>1, LiveBoxesNext DEF SliceBox
<1>2. CASE s \notin live'
  <2>1. FreeCall(t) \/ ReallocCall(t)
    <3>1. CASE Return(t)
      BY <1>2, <3>1 DEF Return
    <3>2. CASE ~Return(t) /\ ~(FreeCall(t) \/ ReallocCall(t))
      <4>1. live' = live
        BY <3>2 DEF Call, Step, Swap, AllocCall, FreeAgain, MayCall, Lock, Unlock,
           PushLoad, PushStore, PushCas, PushRetry, PopEmpty, PopLoad, PopNext, PopCas, PopRetry, Stamp, Got,
           RefillFixed, CarveGap, Bump, FitHead, FitSkip, FitTake, RefillOversize, OverStamp, SplitCarve,
           SplitDone, ReallocKeep, ReallocShrink, ReallocGrow, Copy, FreeLoad, FreeStamp, OverPush, client
      <4> QED BY <1>2, <4>1
    <3> QED BY <3>1, <3>2
  <2>2. pc[t] = "idle" /\ r[t] = NoLocals
    BY <2>1, Here DEF FreeCall, ReallocCall, MayCall, Place
  <2>3. s.ptr # 0
    <3>1. SliceHeld(own, st, LiveId(s), s) /\ s \in SliceSet
      BY DEF HInv, LiveSlices, Types
    <3> QED BY <3>1, SliceFacts
  <2>4. r'[t].src = s /\ r'[t].op \in {"free", "realloc"} /\ r'[t].job = "none"
    <3>1. DOMAIN r = Threads
      BY Here
    <3>2. CASE FreeCall(t)
      <4>1. PICK x \in live : live' = live \ {x} /\ r' = [r EXCEPT ![t].op = "free", ![t].src = x]
        BY <3>2 DEF FreeCall
      <4>2. x = s
        BY <1>2, <4>1
      <4>3. r'[t] = [[NoLocals EXCEPT !.op = "free"] EXCEPT !.src = s]
        BY <2>2, <3>1, <4>1, <4>2
      <4> QED BY <4>3 DEF NoLocals
    <3>3. CASE ReallocCall(t)
      <4>1. PICK x \in live, size \in ReallocSizes :
              live' = live \ {x} /\ r' = [r EXCEPT ![t].op = "realloc", ![t].src = x, ![t].size = size]
        BY <3>3 DEF ReallocCall
      <4>2. x = s
        BY <1>2, <4>1
      <4>3. r'[t] = [[[NoLocals EXCEPT !.op = "realloc"] EXCEPT !.src = s] EXCEPT !.size = size]
        BY <2>2, <3>1, <4>1, <4>2
      <4> QED BY <4>3 DEF NoLocals
    <3> QED BY <2>1, <3>2, <3>3
  <2>5. HoldsSrc(t)'
    BY <2>3, <2>4 DEF HoldsSrc
  <2> QED BY <2>4, <2>5, HandBoxesNext DEF SliceBox
<1> QED BY <1>1, <1>2

\* What the other calls have in hand.
LEMMA OtherBoxStays ==
  ASSUME SafeUse, NEW own, NEW st, NEW el, NEW n, HInv(own, st, el, n), booted, LInv,
         NEW t \in Threads, Call(t) \/ Step(t), NEW u \in Threads \ {t}, NEW p, CallBox(u, p)
  PROVE  p \in Solids'
<1>1. pc'[u] = pc[u] /\ r'[u] = r[u]
  BY StepAlone DEF Alone, LInv
<1>2. CASE Pushing(u) /\ r[u].job # "free" /\ p = <<Piece(u), Piece(u) + header_size(At(word0, Piece(u)))>>
  <2>1. PICK c : c = Piece(u)
    OBVIOUS
  <2>2. Piece(u)' = c
    BY <1>1, <2>1 DEF Piece
  <2>3. Held(own, st, PieceId(u), c, c + header_size(word0[c]))
    <3>1. Moving(own, st, u)
      BY Here
    <3> QED BY <1>2, <2>1, <3>1 DEF Moving, PushId, FreeBlock, Block
  <2>4. c \in Granules /\ own[c] = PieceId(u)
    BY <2>3, HeldFacts
  <2>5. word0'[c] = word0[c]
    <3>1. CASE Call(t)
      BY <3>1, CallsTouchNothing
    <3>2. CASE Step(t)
      <4>1. own[c] \notin MyIds(t) /\ \A b : own[c] # BinId(oversize_bin, b)
        <5>1. own[c] \in MyIds(u) /\ u # t
          BY <2>4 DEF MyIds
        <5> QED BY <2>4, <5>1, IdsDiffer
      <4>2. ~Touchable(own, t, c)
        BY <4>1 DEF Touchable, MyIds
      <4>3. Unwritten(own, t)
        BY <3>2, StepWrites
      <4> QED BY <2>4, <4>2, <4>3 DEF Unwritten
    <3> QED BY <3>1, <3>2
  <2>6. CallBox(u, p)'
    BY <1>1, <1>2, <2>1, <2>2, <2>4, <2>5 DEF CallBox, Pushing, At
  <2> QED BY <2>6, CallBoxesNext
<1>3. CASE ~(Pushing(u) /\ r[u].job # "free" /\ p = <<Piece(u), Piece(u) + header_size(At(word0, Piece(u)))>>)
  <2>1. CallBox(u, p)'
    BY <1>1, <1>3 DEF CallBox, SliceBox, HoldsSrc
  <2> QED BY <2>1, CallBoxesNext
<1> QED BY <1>2, <1>3

\* Steps that leave what their call has in hand where it is.
LeavesHands(t) ==
  \/ Lock(t) \/ PushLoad(t) \/ PushStore(t) \/ PushRetry(t)
  \/ PopEmpty(t) \/ PopLoad(t) \/ PopNext(t) \/ PopRetry(t) \/ Stamp(t)
  \/ FitHead(t) \/ FitSkip(t) \/ OverStamp(t) \/ ReallocGrow(t) \/ Copy(t) \/ FreeStamp(t)
  \/ (Unlock(t) /\ r[t].job # "shrink")

KeepsHands(t) ==
  /\ r'[t].blk = r[t].blk /\ r'[t].top = r[t].top /\ r'[t].src = r[t].src /\ r'[t].dst = r[t].dst
  /\ r'[t].op = r[t].op /\ r'[t].lo = r[t].lo /\ r'[t].end = r[t].end

LEMMA QuietSteps ==
  ASSUME NEW own, NEW st, NEW el, NEW n, HInv(own, st, el, n), LInv, NEW t \in Threads, LeavesHands(t)
  PROVE  /\ KeepsHands(t)
         /\ \/ r'[t].job = r[t].job
            \/ r[t].job \in {"none", "fast"} /\ r'[t].job \in {"fast", "slow", "over"}
<1>1. Typed(r[t]) /\ DOMAIN r = Threads /\ Place(t) /\ JobInPlace(t)
  BY Here
<1>2. CASE Lock(t) \/ PushStore(t) \/ Stamp(t) \/ OverStamp(t) \/ Copy(t) \/ FreeStamp(t)
             \/ (Unlock(t) /\ r[t].job # "shrink")
  <2>1. r' = r
    BY <1>2 DEF Lock, PushStore, Stamp, OverStamp, Copy, FreeStamp, Unlock
  <2> QED BY <2>1 DEF KeepsHands
<1>3. CASE PushLoad(t) \/ PushRetry(t) \/ PopLoad(t)
  <2>1. PICK old : r' = [r EXCEPT ![t].old = old]
    BY <1>3 DEF PushLoad, PushRetry, PopLoad
  <2> QED BY <1>1, <2>1 DEF KeepsHands, Typed, NoLocals
<1>4. CASE PopNext(t) \/ PopRetry(t)
  <2>1. PICK old, nxt : r' = [r EXCEPT ![t].nxt = nxt] \/ r' = [r EXCEPT ![t].old = old, ![t].nxt = nxt]
    BY <1>4 DEF PopNext, PopRetry
  <2> QED BY <1>1, <2>1 DEF KeepsHands, Typed, NoLocals
<1>5. CASE FitHead(t) \/ FitSkip(t)
  <2>1. PICK prev, cur : r' = [r EXCEPT ![t].cur = cur] \/ r' = [r EXCEPT ![t].prev = prev, ![t].cur = cur]
    BY <1>5 DEF FitHead, FitSkip
  <2> QED BY <1>1, <2>1 DEF KeepsHands, Typed, NoLocals
<1>6. CASE PopEmpty(t)
  <2>1. r' = r \/ (r[t].job = "fast" /\ r' = [r EXCEPT ![t].job = "slow"])
    BY <1>6 DEF PopEmpty
  <2> QED BY <1>1, <2>1 DEF KeepsHands, Typed, NoLocals
<1>7. CASE ReallocGrow(t)
  <2>1. PICK job, bin, usable :
          /\ r' = [r EXCEPT ![t].job = job, ![t].bin = bin, ![t].usable = usable]
          /\ job \in {"over", "fast"}
    BY <1>7 DEF ReallocGrow, AllocJob
  <2>2. r[t].job = "none"
    BY <1>1, <1>7 DEF ReallocGrow, Place
  <2>3. KeepsHands(t) /\ r'[t].job = job
    BY <1>1, <2>1 DEF KeepsHands, Typed, NoLocals
  <2> QED BY <2>1, <2>2, <2>3
<1> QED BY <1>2, <1>3, <1>4, <1>5, <1>6, <1>7 DEF LeavesHands

\* The box of a slice.
LEMMA SliceOfBox ==
  ASSUME NEW b \in Int, NEW size \in Int, NEW s, s = SliceOf(b, size)
  PROVE  /\ BlockOf(s) = b /\ s.ptr + s.len = b + size
         /\ s.ptr = b + MIN_ALIGN
BY HeapBounds DEF SliceOf, BlockOf

\* The block in hand: it stays there, is handed out, or goes to its list.
LEMMA BlkStays ==
  ASSUME SafeUse, NEW own, NEW st, NEW el, NEW n, HInv(own, st, el, n), booted, LInv,
         booted', HeapInv', NEW t \in Threads, Call(t) \/ Step(t), r[t].blk # 0,
         ~SplitCarve(t), ~SplitDone(t)
  PROVE  <<r[t].blk, r[t].top>> \in Solids'
<1>1. /\ Typed(r[t]) /\ DOMAIN r = Threads /\ Place(t) /\ JobInPlace(t) /\ Hands(own, st, t) /\ Moving(own, st, t)
  BY Here
<1>2. PICK b, top : b = r[t].blk /\ top = r[t].top
  OBVIOUS
<1>3. b \in Granules /\ b \in Nat \ {0} /\ top \in Nat /\ InHand(t) = top - b
  BY <1>1, <1>2, InHandFacts DEF InHand
<1>3a. /\ b \in Int /\ top - b \in Int /\ b + (top - b) = top
       /\ MIN_ALIGN \in Nat /\ b + MIN_ALIGN # 0
  BY <1>3, HeapBounds
<1>4. CASE r'[t].blk = b /\ r'[t].top = top
  BY <1>2, <1>4, HandBoxesNext
<1>5. CASE LeavesHands(t)
  BY <1>2, <1>4, <1>5, QuietSteps DEF KeepsHands
<1>6. CASE Unlock(t) /\ r[t].job = "shrink"
  <2>1. r'[t].dst = SliceOf(b, top - b)
    BY <1>1, <1>2, <1>6 DEF Unlock, Typed, NoLocals
  <2>2. PICK s : s = SliceOf(b, top - b)
    OBVIOUS
  <2>3. BlockOf(s) = b /\ s.ptr + s.len = top /\ s.ptr # 0
    BY <1>3a, <2>2, SliceOfBox
  <2> QED BY <1>2, <2>1, <2>2, <2>3, HandBoxesNext
<1>7. CASE Got(t)
  <2>1. Served(t)
    BY <1>1, <1>7 DEF Got, Place
  <2>2. header_size(At(word0, b)) = top - b
    BY <1>2, <1>3, <2>1, HeaderFacts, ValidFacts, CadAssumption DEF Served, At
  <2>3. r'[t].dst = SliceOf(b, top - b)
    BY <1>1, <1>2, <1>3, <1>7, <2>2 DEF Got, Typed, NoLocals
  <2>4. PICK s : s = SliceOf(b, top - b)
    OBVIOUS
  <2>5. BlockOf(s) = b /\ s.ptr + s.len = top /\ s.ptr # 0
    BY <1>3a, <2>4, SliceOfBox
  <2> QED BY <1>2, <2>3, <2>4, <2>5, HandBoxesNext
<1>8. CASE PushCas(t) \/ OverPush(t)
  <2>1. CASE PushCas(t) /\ r[t].job # "free"
    <3>1. r'[t].blk = b /\ r'[t].top = top
      BY <1>1, <1>2, <2>1 DEF PushCas, Typed, NoLocals
    <3> QED BY <1>4, <3>1
  <2>2. CASE (PushCas(t) /\ r[t].job = "free") \/ OverPush(t)
    <3>1. Freeing(t) /\ (pc[t] = "over_push" => r[t].bin = oversize_bin)
      BY <1>1, <2>2 DEF PushCas, OverPush, Place, Pushing
    <3>2. word0[b] = pack(top - b, FREE) /\ header_size(At(word0, b)) = top - b
      <4>1. word0[b] = pack(top - b, FREE) /\ Valid(b, top - b)
        BY <1>2, <1>3, <2>2, <3>1 DEF Freeing, PushCas, OverPush
      <4> QED BY <1>3, <4>1, HeaderFacts, ValidFacts, CadAssumption DEF At
    <3>3. word0' = word0
      BY <2>2 DEF PushCas, OverPush, memory
    <3>4. PICK k : k \in Bins /\ PutBy(t, k, b)
      <4>1. CASE PushCas(t) /\ r[t].job = "free"
        <5>1. Piece(t) = b
          BY <1>2, <4>1 DEF Piece
        <5>2. PICK k : On(t, k)
          BY DEF On
        <5>3. PutBy(t, k, b)
          BY <4>1, <5>1, <5>2 DEF PutBy
        <5> QED BY <5>3, PutByPuts
      <4>2. CASE OverPush(t)
        <5>1. PICK k : Over(k)
          BY DEF Over
        <5>2. PutBy(t, k, b)
          BY <1>2, <4>2, <5>1 DEF PutBy
        <5> QED BY <5>2, PutByPuts
      <4> QED BY <2>2, <4>1, <4>2
    <3>5. Puts(own, k, b)
      BY <3>4, PutByPuts
    <3>6. b \in FreeOf'[k]
      BY <3>4, <3>5, PutsGrow
    <3>7. <<b, b + header_size(At(word0, b))>> \in Solids'
      BY <1>3, <3>3, <3>4, <3>6, FreeBoxesNext DEF At
    <3> QED BY <1>2, <1>3, <3>2, <3>7
  <2> QED BY <1>8, <2>1, <2>2
<1>9. CASE CarveGap(t) \/ Bump(t)
  <2>1. CASE CarveGap(t)
    <3>1. PICK end, bin : r' = [r EXCEPT ![t].end = end, ![t].bin = bin]
      BY <2>1 DEF CarveGap
    <3>2. r'[t].blk = b /\ r'[t].top = top
      BY <1>1, <1>2, <3>1 DEF Typed, NoLocals
    <3> QED BY <1>4, <3>2
  <2>2. CASE Bump(t)
    <3>1. PICK bin : r' = [r EXCEPT ![t].lo = 0, ![t].end = 0, ![t].bin = bin]
      BY <2>2 DEF Bump
    <3>2. r'[t].blk = b /\ r'[t].top = top
      BY <1>1, <1>2, <3>1 DEF Typed, NoLocals
    <3> QED BY <1>4, <3>2
  <2> QED BY <1>9, <2>1, <2>2
<1>10. CASE Call(t)
  <2>1. pc[t] = "idle" /\ r[t] = NoLocals
    BY <1>1, <1>10 DEF Call, AllocCall, FreeCall, FreeAgain, ReallocCall, MayCall, Place
  <2> QED BY <1>2, <1>3, <2>1 DEF NoLocals
<1>11. CASE PopCas(t) \/ RefillFixed(t) \/ RefillOversize(t) \/ FitTake(t)
  <2>1. pc[t] \in AskingAt
    BY <1>11 DEF PopCas, RefillFixed, RefillOversize, FitTake, AskingAt
  <2> QED BY <1>1, <1>2, <1>3, <2>1 DEF Place, Asking
<1>12. CASE ReallocKeep(t) \/ ReallocShrink(t) \/ FreeLoad(t) \/ Return(t)
  BY <1>1, <1>2, <1>3, <1>12 DEF ReallocKeep, ReallocShrink, FreeLoad, Return, Place
<1> QED BY <1>5, <1>6, <1>7, <1>8, <1>9, <1>10, <1>11, <1>12 DEF Step, Swap, LeavesHands

\* The piece being pushed: it goes to its list.
LEMMA PieceStays ==
  ASSUME SafeUse, NEW own, NEW st, NEW el, NEW n, HInv(own, st, el, n), booted, LInv,
         booted', HeapInv', NEW t \in Threads, Call(t) \/ Step(t), Pushing(t), r[t].job # "free",
         NEW c, c = Piece(t)
  PROVE  <<c, c + header_size(At(word0, c))>> \in Solids'
<1>1. Typed(r[t]) /\ DOMAIN r = Threads /\ Moving(own, st, t) /\ pc \in [Threads -> Labels]
  BY Here
<1>2. c \in Granules
  BY <1>1, HeldFacts DEF Moving, FreeBlock, Block
<1>3. PushLoad(t) \/ PushStore(t) \/ PushRetry(t) \/ PushCas(t)
  BY DEF Pushing, Call, AllocCall, FreeCall, FreeAgain, ReallocCall, MayCall, Step, Swap, Lock, Unlock,
     PopEmpty, PopLoad, PopNext, PopCas, PopRetry, Stamp, Got, RefillFixed, CarveGap, Bump,
     FitHead, FitSkip, FitTake, RefillOversize, OverStamp, SplitCarve, SplitDone,
     ReallocKeep, ReallocShrink, ReallocGrow, Copy, FreeLoad, FreeStamp, OverPush, Return
<1>4. word0' = word0
  BY <1>3 DEF PushLoad, PushStore, PushRetry, PushCas, memory
<1>5. CASE PushLoad(t) \/ PushStore(t) \/ PushRetry(t)
  <2>1. KeepsHands(t) /\ r'[t].job = r[t].job
    <3>1. r[t].job \notin {"none", "fast"}
      BY <1>1, Here DEF JobInPlace
    <3> QED BY <1>5, <3>1, QuietSteps DEF LeavesHands
  <2>2. Pushing(t)'
    BY <1>1, <1>5 DEF Pushing, PushLoad, PushStore, PushRetry, Goto
  <2>3. Piece(t)' = c
    BY <2>1 DEF Piece, KeepsHands
  <2>4. PICK p : p = <<c, c + header_size(At(word0, c))>>
    OBVIOUS
  <2>5. CallBox(t, p)'
    BY <1>2, <1>4, <2>1, <2>2, <2>3, <2>4 DEF CallBox, At
  <2> QED BY <2>4, <2>5, CallBoxesNext
<1>6. CASE PushCas(t)
  <2>1. PICK k : On(t, k)
    BY DEF On
  <2>2. PutBy(t, k, c)
    BY <1>6, <2>1 DEF PutBy
  <2>3. k \in Bins /\ Puts(own, k, c)
    BY <2>2, PutByPuts
  <2>4. c \in FreeOf'[k]
    BY <2>3, PutsGrow
  <2> QED BY <1>2, <1>4, <2>3, <2>4, FreeBoxesNext DEF At
<1> QED BY <1>3, <1>5, <1>6

\* The slice a call has yet to copy or free: it stays there, or its block is
\* taken in hand, or it goes back to its caller.
LEMMA SrcStays ==
  ASSUME SafeUse, NEW own, NEW st, NEW el, NEW n, HInv(own, st, el, n), booted, LInv,
         NEW t \in Threads, Call(t) \/ Step(t), Answered(t), HoldsSrc(t), NEW p, SliceBox(r[t].src, p)
  PROVE  p \in Solids'
<1>1. /\ Typed(r[t]) /\ DOMAIN r = Threads /\ Place(t) /\ JobInPlace(t) /\ Hands(own, st, t)
  BY Here
<1>2. PICK s : s = r[t].src
  OBVIOUS
<1>3. SliceHeld(own, st, SrcId(t), s) /\ s \in SliceSet /\ p = <<BlockOf(s), s.ptr + s.len>>
  BY <1>1, <1>2 DEF Hands, Typed, SliceBox
<1>4. /\ s.ptr \in Int /\ s.len \in Int /\ BlockOf(s) \in Nat \ {0} /\ BlockOf(s) \in Granules
      /\ header_size(At(word0, BlockOf(s))) = s.len + MIN_ALIGN
      /\ ~header_is_free(At(word0, BlockOf(s)))
      /\ BlockOf(s) + (s.len + MIN_ALIGN) = s.ptr + s.len
      /\ BlockOf(s) + MIN_ALIGN = s.ptr /\ s.ptr # 0
  <2>1. /\ Valid(BlockOf(s), s.len + MIN_ALIGN)
        /\ word0[BlockOf(s)] = pack(s.len + MIN_ALIGN, USED)
        /\ Held(own, st, SrcId(t), BlockOf(s), BlockOf(s) + (s.len + MIN_ALIGN))
    BY <1>3 DEF SliceHeld, UsedBlock, Block
  <2>2. s.ptr \in Int /\ s.len \in Int
    BY <1>3 DEF SliceSet
  <2>3. BlockOf(s) \in Nat \ {0} /\ BlockOf(s) \in Granules
    BY <2>1, HeldFacts
  <2>4. header_size(At(word0, BlockOf(s))) = s.len + MIN_ALIGN /\ ~header_is_free(At(word0, BlockOf(s)))
    BY <2>1, <2>3, HeaderFacts, ValidFacts, CadAssumption DEF At
  <2>5. /\ BlockOf(s) + (s.len + MIN_ALIGN) = s.ptr + s.len
        /\ BlockOf(s) + MIN_ALIGN = s.ptr
    BY <2>2, HeapBounds DEF BlockOf
  <2> QED BY <1>2, <2>2, <2>3, <2>4, <2>5 DEF HoldsSrc
<1>5. CASE r'[t].src = s /\ r'[t].op = r[t].op /\ r'[t].job \notin {"keep", "shrink", "free"}
  <2>1. HoldsSrc(t)'
    BY <1>2, <1>5 DEF HoldsSrc
  <2> QED BY <1>3, <1>5, <2>1, HandBoxesNext
<1>6. r[t].job \notin {"keep", "shrink", "free"}
  BY DEF HoldsSrc
<1>7. CASE LeavesHands(t)
  BY <1>2, <1>5, <1>6, <1>7, QuietSteps DEF KeepsHands
<1>8. CASE PushCas(t) \/ Got(t) \/ OverPush(t)
  <2>1. CASE PushCas(t)
    <3>1. PICK blk, top : r' = [r EXCEPT ![t].old = 0, ![t].blk = blk, ![t].top = top]
      BY <2>1 DEF PushCas
    <3>2. r'[t].src = s /\ r'[t].op = r[t].op /\ r'[t].job = r[t].job
      BY <1>1, <1>2, <3>1 DEF Typed, NoLocals
    <3> QED BY <1>5, <1>6, <3>2
  <2>2. CASE Got(t) \/ OverPush(t)
    <3>1. PICK dst : r' = [r EXCEPT ![t].dst = dst, ![t].blk = 0, ![t].top = 0]
                     \/ r' = [r EXCEPT ![t].blk = 0, ![t].top = 0]
      BY <2>2 DEF Got, OverPush
    <3>2. r'[t].src = s /\ r'[t].op = r[t].op /\ r'[t].job = r[t].job
      BY <1>1, <1>2, <3>1 DEF Typed, NoLocals
    <3> QED BY <1>5, <1>6, <3>2
  <2> QED BY <1>8, <2>1, <2>2
<1>9. CASE PopCas(t)
  <2>1. PICK blk, top, job :
          /\ r' = [r EXCEPT ![t].old = 0, ![t].nxt = 0, ![t].blk = blk, ![t].top = top, ![t].job = job]
          /\ job \in {"hit", r[t].job}
    BY <1>1, <1>9 DEF PopCas, Typed, NoLocals
  <2>2. r'[t].src = s /\ r'[t].op = r[t].op /\ r'[t].job = job
    BY <1>1, <1>2, <2>1 DEF Typed, NoLocals
  <2> QED BY <1>5, <1>6, <2>1, <2>2
<1>10. CASE RefillFixed(t) \/ RefillOversize(t)
  <2>1. PICK align, size : Refill(t, align, size)
    BY <1>10 DEF RefillFixed, RefillOversize
  <2>2. r'[t].src = s /\ r'[t].op = r[t].op /\ r'[t].job = r[t].job
    BY <1>1, <1>2, <2>1 DEF Refill, Typed, NoLocals
  <2> QED BY <1>5, <1>6, <2>2
<1>11. CASE CarveGap(t) \/ Bump(t)
  <2>1. PICK end, bin :
          \/ r' = [r EXCEPT ![t].end = end, ![t].bin = bin]
          \/ r' = [r EXCEPT ![t].lo = 0, ![t].end = 0, ![t].bin = bin]
    BY <1>11 DEF CarveGap, Bump
  <2>2. r'[t].src = s /\ r'[t].op = r[t].op /\ r'[t].job = r[t].job
    BY <1>1, <1>2, <2>1 DEF Typed, NoLocals
  <2> QED BY <1>5, <1>6, <2>2
<1>12. CASE FitTake(t)
  <2>1. PICK blk, top :
          r' = [r EXCEPT ![t].blk = blk, ![t].top = top, ![t].prev = 0, ![t].cur = 0, ![t].job = "fit"]
    BY <1>12 DEF FitTake
  <2>2. r'[t].src = s /\ r'[t].op = r[t].op /\ r'[t].job = "fit"
    BY <1>1, <1>2, <2>1 DEF Typed, NoLocals
  <2> QED BY <1>5, <2>2
<1>13. CASE SplitCarve(t) \/ SplitDone(t)
  <2>1. CASE SplitCarve(t)
    <3>1. PICK top, iter, bin : r' = [r EXCEPT ![t].top = top, ![t].iter = iter, ![t].bin = bin]
      BY <2>1 DEF SplitCarve
    <3>2. r'[t].src = s /\ r'[t].op = r[t].op /\ r'[t].job = r[t].job
      BY <1>1, <1>2, <3>1 DEF Typed, NoLocals
    <3> QED BY <1>5, <1>6, <3>2
  <2>2. CASE SplitDone(t)
    <3>1. PICK top : r' = [r EXCEPT ![t].top = top, ![t].iter = 0]
      BY <2>2 DEF SplitDone
    <3>2. r'[t].src = s /\ r'[t].op = r[t].op /\ r'[t].job = r[t].job
      BY <1>1, <1>2, <3>1 DEF Typed, NoLocals
    <3> QED BY <1>5, <1>6, <3>2
  <2> QED BY <1>13, <2>1, <2>2
<1>14. CASE ReallocKeep(t)
  <2>1. r'[t].dst = SliceOf(BlockOf(s), s.len + MIN_ALIGN)
    BY <1>1, <1>2, <1>4, <1>14 DEF ReallocKeep, CurSize, Typed, NoLocals
  <2>2. s = SliceOf(BlockOf(s), s.len + MIN_ALIGN)
    BY <1>3, SliceFacts
  <2> QED BY <1>3, <1>4, <2>1, <2>2, HandBoxesNext
<1>15. CASE ReallocShrink(t)
  <2>1. r'[t].blk = BlockOf(s) /\ r'[t].top = s.ptr + s.len
    BY <1>1, <1>2, <1>4, <1>15 DEF ReallocShrink, CurSize, Typed, NoLocals
  <2> QED BY <1>3, <1>4, <2>1, HandBoxesNext
<1>16. CASE FreeLoad(t)
  <2>1. r'[t].blk = BlockOf(s) /\ r'[t].top = s.ptr + s.len
    BY <1>1, <1>2, <1>4, <1>16 DEF FreeLoad, Refused, Typed, NoLocals
  <2> QED BY <1>3, <1>4, <2>1, HandBoxesNext
<1>17. CASE Return(t)
  <2>1. r[t].op = "realloc" /\ r[t].dst.ptr = 0 /\ r[t].dst = NullSlice
    BY <1>1, <1>6, <1>17 DEF Return, Place, Answered, Hands, HoldsSrc
  <2>2. s \in live'
    BY <1>2, <1>4, <1>17, <2>1 DEF Return, NullSlice
  <2> QED BY <1>3, <2>2, LiveBoxesNext
<1>18. CASE Call(t)
  <2>1. pc[t] = "idle" /\ r[t] = NoLocals
    BY <1>1, <1>18 DEF Call, AllocCall, FreeCall, FreeAgain, ReallocCall, MayCall, Place
  <2> QED BY <2>1 DEF NoLocals, NullSlice, HoldsSrc
<1>19. CASE Unlock(t) /\ r[t].job = "shrink"
  BY <1>6, <1>19
<1> QED BY <1>7, <1>8, <1>9, <1>10, <1>11, <1>12, <1>13, <1>14, <1>15, <1>16, <1>17, <1>18, <1>19
        DEF Step, Swap, LeavesHands

\* The slice a call is about to return.
LEMMA DstStays ==
  ASSUME NEW own, NEW st, NEW el, NEW n, HInv(own, st, el, n), LInv,
         NEW t \in Threads, Call(t) \/ Step(t), r[t].dst.ptr # 0, NEW p, SliceBox(r[t].dst, p)
  PROVE  p \in Solids'
<1>1. /\ Typed(r[t]) /\ DOMAIN r = Threads /\ Place(t) /\ JobInPlace(t)
  BY Here
<1>2. PICK s : s = r[t].dst
  OBVIOUS
<1>3. s.ptr # 0 /\ p = <<BlockOf(s), s.ptr + s.len>> /\ r[t].dst # NullSlice
  BY <1>1, <1>2 DEF SliceBox, NullSlice
<1>4. CASE r'[t].dst = s
  BY <1>3, <1>4, HandBoxesNext
<1>5. CASE LeavesHands(t)
  BY <1>2, <1>4, <1>5, QuietSteps DEF KeepsHands
<1>6. CASE PushCas(t)
  <2>1. PICK blk, top : r' = [r EXCEPT ![t].old = 0, ![t].blk = blk, ![t].top = top]
    BY <1>6 DEF PushCas
  <2>2. r'[t].dst = s
    BY <1>1, <1>2, <2>1 DEF Typed, NoLocals
  <2> QED BY <1>4, <2>2
<1>7. CASE OverPush(t)
  <2>1. r'[t].dst = s
    BY <1>1, <1>2, <1>7 DEF OverPush, Typed, NoLocals
  <2> QED BY <1>4, <2>1
<1>8. CASE FreeLoad(t)
  <2>1. r'[t].dst = s
    BY <1>1, <1>2, <1>8 DEF FreeLoad, Typed, NoLocals
  <2> QED BY <1>4, <2>1
<1>9. CASE PopCas(t) \/ RefillFixed(t) \/ RefillOversize(t) \/ FitTake(t)
  <2>1. pc[t] \in AskingAt
    BY <1>9 DEF PopCas, RefillFixed, RefillOversize, FitTake, AskingAt
  <2> QED BY <1>1, <1>3, <2>1 DEF Place, Asking, Serving
<1>10. CASE CarveGap(t) \/ Bump(t)
  <2>1. Carving(t)
    BY <1>10 DEF CarveGap, Bump, Carving
  <2> QED BY <1>1, <1>3, <2>1 DEF Place, Found, Serving
<1>11. CASE SplitCarve(t) \/ SplitDone(t)
  BY <1>1, <1>3, <1>11 DEF SplitCarve, SplitDone, Place, SplitBlock
<1>12. CASE Got(t) \/ ReallocKeep(t) \/ ReallocShrink(t)
  BY <1>1, <1>3, <1>12 DEF Got, ReallocKeep, ReallocShrink, Place, Serving
<1>13. CASE Unlock(t) /\ r[t].job = "shrink"
  BY <1>1, <1>3, <1>13 DEF Unlock, Place
<1>14. CASE Return(t)
  <2>1. s \in live'
    BY <1>2, <1>3, <1>14 DEF Return
  <2> QED BY <1>3, <2>1, LiveBoxesNext
<1>15. CASE Call(t)
  <2>1. pc[t] = "idle" /\ r[t] = NoLocals
    BY <1>1, <1>15 DEF Call, AllocCall, FreeCall, FreeAgain, ReallocCall, MayCall, Place
  <2> QED BY <1>3, <2>1 DEF NoLocals
<1> QED BY <1>5, <1>6, <1>7, <1>8, <1>9, <1>10, <1>11, <1>12, <1>13, <1>14, <1>15 DEF Step, Swap, LeavesHands

\* A block or slice stays where it is, whoever owns it; only splitting makes
\* one smaller.
SplitOf(t, p) == (SplitCarve(t) \/ SplitDone(t)) /\ p = <<r[t].blk, r[t].top>>

LEMMA SolidStays ==
  ASSUME SafeUse, NEW own, NEW st, NEW el, NEW n, HInv(own, st, el, n), booted, LInv,
         booted', HeapInv', NEW t \in Threads, Call(t) \/ Step(t), HonestPop(t), Answered(t),
         NEW p \in Solids
  PROVE  p \in Solids' \/ SplitOf(t, p)
<1>1. CASE \E k, b : k \in Bins /\ FreeBox(k, b, p)
  BY <1>1, FreeBoxStays
<1>2. CASE \E s \in live : SliceBox(s, p)
  BY <1>2, LiveBoxStays DEF SafeUse
<1>3. CASE \E u \in Threads : CallBox(u, p)
  <2>1. PICK u \in Threads : CallBox(u, p)
    BY <1>3
  <2>2. CASE u # t
    BY <2>1, <2>2, OtherBoxStays
  <2>3. CASE u = t
    <3>1. CASE r[t].blk # 0 /\ p = <<r[t].blk, r[t].top>>
      BY <3>1, BlkStays DEF SplitOf
    <3>2. CASE Pushing(t) /\ r[t].job # "free"
               /\ p = <<Piece(t), Piece(t) + header_size(At(word0, Piece(t)))>>
      <4>1. PICK c : c = Piece(t)
        OBVIOUS
      <4> QED BY <3>2, <4>1, PieceStays
    <3>3. CASE HoldsSrc(t) /\ SliceBox(r[t].src, p)
      BY <3>3, SrcStays
    <3>4. CASE r[t].dst.ptr # 0 /\ SliceBox(r[t].dst, p)
      BY <3>4, DstStays
    <3> QED BY <2>1, <2>3, <3>1, <3>2, <3>3, <3>4 DEF CallBox
  <2> QED BY <2>2, <2>3
<1> QED BY <1>1, <1>2, <1>3, SolidIs

\* A valid block starts where the smallest class may.
Footing(b) == b % align_of_bin(0) = 0

LEMMA ValidFooting ==
  ASSUME NEW b \in Int, NEW size, Valid(b, size)
  PROVE  Footing(b)
<1>1. /\ size \in Nat /\ LNR_FLOOR \in Nat /\ LNR_FLOOR <= size /\ ValidConfig
      /\ b % align_of_bin(bin_index(size)) = 0
  BY GeoConstants, CadAssumption DEF Valid
<1>2. bin_index(LNR_FLOOR) = 0
  BY <1>1 DEF bin_index
<1> QED BY <1>1, <1>2, AlignSmaller DEF Footing

\* Where nothing more can be carved off, less than the smallest class is left.
LEMMA NothingLeft ==
  ASSUME SafeUse, NEW end \in Nat, NEW len \in Nat, len < end, end <= heap_end, end % MIN_ALIGN = 0,
         Footing(end), len < MIN_ALIGN \/ largest_carvable(end, len).size = 0
  PROVE  len < LNR_FLOOR
<1>1. /\ ValidConfig /\ SC(Cfg)!ValidConfig
      /\ WORD \in Nat /\ heap_end \in Nat /\ heap_end < WORD /\ heap_end + 2 * EXP_CEIL <= WORD
      /\ EXP_CEIL \in Nat \ {0} /\ LNR_FLOOR \in Nat \ {0} /\ MIN_ALIGN \in Nat \ {0} /\ 2 * MIN_ALIGN <= LNR_FLOOR
  BY Linked, HeapBounds, GeoConstants, CadAssumption DEF SafeUse
<1>2. CASE len < MIN_ALIGN
  BY <1>1, <1>2
<1>3. CASE largest_carvable(end, len).size = 0
  <2>1. SUFFICES ASSUME len >= LNR_FLOOR PROVE FALSE
    BY <1>1
  <2>2. /\ 0 \in SC(Cfg)!FixedBins /\ SC(Cfg)!bin_class(0) = LNR_FLOOR
    BY <1>1, FixedBinsFacts, CfgFields
  <2>3. /\ SC(Cfg)!bin_class(0) \in Int /\ SC(Cfg)!align_of_bin(0) \in Nat \ {0}
        /\ SC(Cfg)!bin_class(0) % SC(Cfg)!align_of_bin(0) = 0
    BY <1>1, <2>2, ClassFacts
  <2>4. end % SC(Cfg)!align_of_bin(0) = 0
    BY Linked DEF Footing
  <2>5. (end - SC(Cfg)!bin_class(0)) % SC(Cfg)!align_of_bin(0) = 0
    BY <2>3, <2>4, ModSum
  <2>6. Fits(Cfg, 0, end, len)
    BY <2>1, <2>2, <2>5 DEF Fits
  <2>7. /\ end \in 1 .. WORD - 1 /\ len \in 0 .. end /\ end % Cfg.MIN_ALIGN = 0
        /\ (end - len) + Cfg.EXP_CEIL <= WORD
    BY <1>1, CfgFields
  <2>8. SC(Cfg)!largest_carvable(end, len).size = 0
    BY <1>3, Linked
  <2>9. SC(Cfg)!largest_carvable(end, len).size # 0
    <3>1. CASE \E b \in SC(Cfg)!FixedBins : SC(Cfg)!largest_carvable(end, len) = [size |-> SC(Cfg)!bin_class(b), bin |-> b]
      <4>1. PICK b \in SC(Cfg)!FixedBins : SC(Cfg)!largest_carvable(end, len) = [size |-> SC(Cfg)!bin_class(b), bin |-> b]
        BY <3>1
      <4>2. SC(Cfg)!bin_class(b) \in Nat \ {0}
        BY <1>1, ClassFacts
      <4> QED BY <4>1, <4>2
    <3>2. CASE \E s \in Nat : SC(Cfg)!largest_carvable(end, len) = [size |-> s, bin |-> SC(Cfg)!oversize_bin] /\ OverFits(Cfg, s, end, len)
      <4>1. PICK s \in Nat : SC(Cfg)!largest_carvable(end, len) = [size |-> s, bin |-> SC(Cfg)!oversize_bin] /\ OverFits(Cfg, s, end, len)
        BY <3>2
      <4>2. s # 0
        BY <4>1, <1>1, CfgFields DEF OverFits
      <4> QED BY <4>1, <4>2
    <3>3. \/ \A k \in SC(Cfg)!FixedBins : ~ Fits(Cfg, k, end, len)
          \/ \E b \in SC(Cfg)!FixedBins : SC(Cfg)!largest_carvable(end, len) = [size |-> SC(Cfg)!bin_class(b), bin |-> b]
          \/ \E s \in Nat : SC(Cfg)!largest_carvable(end, len) = [size |-> s, bin |-> SC(Cfg)!oversize_bin] /\ OverFits(Cfg, s, end, len)
      BY <1>1, <2>7, LargestCarvable
    <3> QED BY <2>2, <2>6, <3>1, <3>2, <3>3
  <2> QED BY <2>8, <2>9
<1> QED BY <1>2, <1>3

\* Every other step leaves its thread neither carving nor splitting.
CarvesOrSplits(t) ==
  \/ Lock(t) \/ PushLoad(t) \/ PushStore(t) \/ PushRetry(t) \/ PushCas(t)
  \/ RefillFixed(t) \/ RefillOversize(t) \/ CarveGap(t) \/ SplitCarve(t) \/ FitTake(t) \/ ReallocShrink(t)

LEMMA NoCarving ==
  ASSUME NEW own, NEW st, NEW el, NEW n, HInv(own, st, el, n), booted, LInv, ~SecondFrees,
         NEW t \in Threads, Call(t) \/ (Step(t) /\ ~CarvesOrSplits(t))
  PROVE  ~Carving(t)' /\ ~Splitting(t)'
<1> USE DEF Goto
<1>1. /\ Typed(r[t]) /\ Place(t) /\ JobInPlace(t) /\ pc \in [Threads -> Labels] /\ DOMAIN r = Threads
  BY Here
<1>2. CASE AllocCall(t)
  <2>1. r[t] = NoLocals
    BY <1>1, <1>2 DEF AllocCall, MayCall, Place
  <2>2. PICK size, job, bin :
          /\ r' = [r EXCEPT ![t] = [@ EXCEPT !.op = "alloc", !.size = size, !.job = job, !.bin = bin]]
          /\ job \in {"over", "fast"} /\ pc'[t] \in {"lock", "pop_load"}
    BY <1>1, <1>2 DEF AllocCall, AllocJob, AllocEntry
  <2>3. r'[t].job = job
    BY <1>1, <2>1, <2>2 DEF NoLocals
  <2> QED BY <2>2, <2>3 DEF Carving, Splitting, Pushing
<1>3. CASE FreeCall(t) \/ ReallocCall(t)
  <2>1. pc'[t] \in {"free_load", "realloc_load"}
    BY <1>1, <1>3 DEF FreeCall, ReallocCall
  <2> QED BY <2>1 DEF Carving, Splitting, Pushing
<1>4. CASE ReallocGrow(t)
  <2>1. PICK job, bin, usable :
          /\ r' = [r EXCEPT ![t].job = job, ![t].bin = bin, ![t].usable = usable]
          /\ job \in {"over", "fast"} /\ pc'[t] \in {"lock", "pop_load"}
    BY <1>1, <1>4 DEF ReallocGrow, AllocJob, AllocEntry
  <2>2. r'[t].job = job
    BY <1>1, <2>1, Fields DEF Typed
  <2> QED BY <2>1, <2>2 DEF Carving, Splitting, Pushing
<1>5. CASE PopEmpty(t)
  <2>1. CASE r[t].job = "fast"
    <3>1. r'[t].job = "slow" /\ pc'[t] = "lock"
      BY <1>1, <1>5, <2>1, Fields DEF PopEmpty, Typed
    <3> QED BY <3>1 DEF Carving, Splitting, Pushing
  <2>2. CASE r[t].job # "fast"
    <3>1. pc'[t] = "refill"
      BY <1>1, <1>5, <2>2 DEF PopEmpty
    <3> QED BY <3>1 DEF Carving, Splitting, Pushing
  <2> QED BY <2>1, <2>2
<1>6. CASE FreeStamp(t)
  <2>1. r'[t].job = "free" /\ pc'[t] \in {"lock", "push_load"}
    BY <1>1, <1>6 DEF FreeStamp, JobInPlace, FreeEntry
  <2> QED BY <2>1 DEF Carving, Splitting, Pushing
<1>7. CASE Step(t) /\ ~CarvesOrSplits(t) /\ ~PopEmpty(t) /\ ~ReallocGrow(t) /\ ~FreeStamp(t)
  <2>1. \/ Unlock(t) \/ PopLoad(t) \/ PopNext(t) \/ PopRetry(t) \/ PopCas(t) \/ Stamp(t) \/ Got(t)
        \/ Bump(t) \/ FitHead(t) \/ FitSkip(t) \/ OverStamp(t) \/ SplitDone(t) \/ ReallocKeep(t)
        \/ Copy(t) \/ FreeLoad(t) \/ OverPush(t) \/ Return(t)
    BY <1>7 DEF Step, Swap, CarvesOrSplits
  <2>2. pc'[t] \notin {"gap", "split", "lock", "push_load", "push_store", "push_cas"}
    <3>1. CASE Unlock(t) BY <1>1, <3>1 DEF Unlock
    <3>2. CASE PopLoad(t) BY <1>1, <3>2 DEF PopLoad
    <3>3. CASE PopNext(t) BY <1>1, <3>3 DEF PopNext
    <3>4. CASE PopRetry(t) BY <1>1, <3>4 DEF PopRetry
    <3>5. CASE PopCas(t) BY <1>1, <3>5 DEF PopCas
    <3>6. CASE Stamp(t) BY <1>1, <3>6 DEF Stamp
    <3>7. CASE Got(t) BY <1>1, <3>7 DEF Got, AfterGot
    <3>8. CASE Bump(t) BY <1>1, <3>8 DEF Bump
    <3>9. CASE FitHead(t) BY <1>1, <3>9 DEF FitHead
    <3>10. CASE FitSkip(t) BY <1>1, <3>10 DEF FitSkip
    <3>11. CASE OverStamp(t) BY <1>1, <3>11 DEF OverStamp
    <3>12. CASE SplitDone(t) BY <1>1, <3>12 DEF SplitDone
    <3>13. CASE ReallocKeep(t) BY <1>1, <3>13 DEF ReallocKeep
    <3>14. CASE Copy(t) BY <1>1, <3>14 DEF Copy
    <3>15. CASE FreeLoad(t) BY <1>1, <3>15 DEF FreeLoad
    <3>16. CASE OverPush(t) BY <1>1, <3>16 DEF OverPush
    <3>17. CASE Return(t) BY <1>1, <3>17 DEF Return
    <3> QED BY <2>1, <3>1, <3>2, <3>3, <3>4, <3>5, <3>6, <3>7, <3>8, <3>9, <3>10, <3>11, <3>12, <3>13, <3>14,
            <3>15, <3>16, <3>17
  <2> QED BY <2>2 DEF Carving, Splitting, Pushing
<1> QED BY <1>2, <1>3, <1>4, <1>5, <1>6, <1>7 DEF Call, FreeAgain

\* Steps that carve or split, or go on with it.
LEMMA EndAlignedStep ==
  ASSUME SafeUse, NEW own, NEW st, NEW el, NEW n, HInv(own, st, el, n), booted, LInv,
         NEW t \in Threads, Call(t) \/ Step(t), EndAligned(t)
  PROVE  EndAligned(t)'
<1> USE DEF Goto
<1>1. /\ Typed(r[t]) /\ Place(t) /\ JobInPlace(t) /\ pc \in [Threads -> Labels] /\ DOMAIN r = Threads
  BY Here
<1>2. CASE Call(t) \/ (Step(t) /\ ~CarvesOrSplits(t))
  <2>1. ~Carving(t)' /\ ~Splitting(t)'
    BY <1>2, NoCarving DEF SafeUse
  <2> QED BY <2>1 DEF EndAligned
<1>3. CASE PushLoad(t) \/ PushStore(t) \/ PushRetry(t) \/ PushCas(t)
  <2>1. CASE r[t].job = "free"
    <3>1. pc'[t] \in {"push_load", "push_store", "push_cas", "return"} /\ r'[t].job = "free"
      <4>1. CASE PushLoad(t) BY <1>1, <2>1, <4>1, Fields DEF PushLoad, Typed
      <4>2. CASE PushStore(t) BY <1>1, <2>1, <4>2, Fields DEF PushStore, Typed
      <4>3. CASE PushRetry(t) BY <1>1, <2>1, <4>3, Fields DEF PushRetry, Typed
      <4>4. CASE PushCas(t)
        <5>1. r' = [r EXCEPT ![t].old = 0, ![t].blk = 0, ![t].top = 0] /\ pc'[t] = "return"
          BY <1>1, <2>1, <4>4 DEF PushCas, AfterPush
        <5> QED BY <1>1, <2>1, <5>1, Fields DEF Typed
      <4> QED BY <1>3, <4>1, <4>2, <4>3, <4>4
    <3> QED BY <3>1 DEF EndAligned, Carving, Splitting, Pushing
  <2>2. CASE r[t].job # "free"
    <3>1. Pushing(t) /\ r[t].job \in {"slow", "over", "fit", "shrink"}
      BY <1>1, <1>3, <2>2 DEF Pushing, PushLoad, PushStore, PushRetry, PushCas, JobInPlace
    <3>2. /\ r'[t].job = r[t].job /\ r'[t].end = r[t].end /\ r'[t].top = r[t].top /\ r'[t].iter = r[t].iter
          /\ pc'[t] \in {"push_load", "push_store", "push_cas", AfterPush(r[t].job)}
      <4>1. CASE PushLoad(t) BY <1>1, <4>1, Fields DEF PushLoad, Typed
      <4>2. CASE PushStore(t) BY <1>1, <4>2, Fields DEF PushStore, Typed
      <4>3. CASE PushRetry(t) BY <1>1, <4>3, Fields DEF PushRetry, Typed
      <4>4. CASE PushCas(t)
        <5>1. r' = [r EXCEPT ![t].old = 0, ![t].blk = r[t].blk, ![t].top = r[t].top] /\ pc'[t] = AfterPush(r[t].job)
          BY <1>1, <2>2, <4>4 DEF PushCas
        <5> QED BY <1>1, <5>1, Fields DEF Typed
      <4> QED BY <1>3, <4>1, <4>2, <4>3, <4>4
    <3>3. CASE r[t].job \in {"slow", "over"}
      <4>1. pc'[t] \in {"gap", "push_load", "push_store", "push_cas"} /\ Carving(t)
        BY <3>1, <3>2, <3>3 DEF AfterPush, Carving
      <4>2. ~Splitting(t)'
        BY <3>2, <3>3, <4>1 DEF Splitting
      <4> QED BY <3>2, <4>1, <4>2 DEF EndAligned
    <3>4. CASE r[t].job \in {"fit", "shrink"}
      <4>1. pc'[t] \in {"split", "push_load", "push_store", "push_cas"} /\ Splitting(t)
        BY <3>1, <3>2, <3>4 DEF AfterPush, Splitting
      <4>2. ~Carving(t)'
        BY <3>2, <3>4, <4>1 DEF Carving
      <4> QED BY <3>2, <4>1, <4>2 DEF EndAligned
    <3> QED BY <3>1, <3>3, <3>4
  <2> QED BY <2>1, <2>2
<1>4. CASE Lock(t)
  <2>1. /\ r' = r /\ pc[t] = "lock" /\ r[t].job \in {"slow", "over", "shrink", "free"}
        /\ pc'[t] \in {"pop_load", "fit_head", "split", "over_push"}
        /\ pc'[t] = "split" => r[t].job = "shrink"
    BY <1>1, <1>4 DEF Lock, JobInPlace
  <2> QED BY <2>1 DEF EndAligned, Carving, Splitting, Pushing
<1>5. CASE RefillFixed(t) \/ RefillOversize(t)
  <2>1. RefillStep(t) /\ Asking(t) /\ r[t].job \in {"slow", "over"}
    BY <1>5, RefillSame
  <2>2. PICK aligned : aligned = align_up(bump, align_of_bin(RequestBin(r[t].size)))
    OBVIOUS
  <2>3. aligned \in Nat /\ Valid(aligned, Target(t))
    <3>1. Room(own, st) /\ r[t].size \in Requests
      BY <2>1 DEF HInv, Asking, Serving
    <3> QED BY <2>2, <3>1, RefillFacts DEF Target
  <2>4. CASE HasRoom(aligned, Target(t))
    <3>4. PICK top : top = Wrap(aligned + Target(t))
      OBVIOUS
    <3>5. PICK lo : lo = bump
      OBVIOUS
    <3>1. r' = [r EXCEPT ![t].blk = aligned, ![t].top = top, ![t].lo = lo, ![t].end = aligned, ![t].prev = 0]
      BY <2>1, <2>2, <2>4, <3>4, <3>5 DEF RefillStep
    <3>2. r'[t].end = aligned
      BY <1>1, <3>1, Fields DEF Typed
    <3>3. pc'[t] = "gap"
      BY <1>1, <2>1, <2>2, <2>4 DEF RefillStep
    <3> QED BY <2>3, <3>2, <3>3, ValidFooting DEF Footing, EndAligned, Carving, Splitting, Pushing
  <2>5. CASE ~HasRoom(aligned, Target(t))
    <3>1. pc'[t] = "unlock"
      BY <1>1, <2>1, <2>2, <2>5 DEF RefillStep
    <3> QED BY <3>1 DEF EndAligned, Carving, Splitting, Pushing
  <2> QED BY <2>4, <2>5
<1>6. CASE CarveGap(t)
  <2>1. PICK start, size, bin : r' = [r EXCEPT ![t].end = start, ![t].bin = bin] /\ start \in Nat /\ Valid(start, size)
    <3>1. PICK lo, hi, piece, size, k, start :
            /\ lo = r[t].lo /\ hi = r[t].end
            /\ piece = largest_carvable(hi, hi - lo) /\ size = piece.size /\ k = piece.bin
            /\ start = hi - size /\ start \in Nat /\ Valid(start, size)
      BY <1>6, GapCut
    <3>2. r' = [r EXCEPT ![t].end = start, ![t].bin = k]
      BY <1>6, <3>1 DEF CarveGap
    <3> QED BY <3>1, <3>2
  <2>2. r'[t].end = start /\ r'[t].job = r[t].job
    BY <1>1, <2>1, Fields DEF Typed
  <2>3. pc'[t] \in {"gap", "push_load"} /\ r[t].job \in {"slow", "over"}
    BY <1>1, <1>6 DEF CarveGap, Release, JobInPlace
  <2> QED BY <2>1, <2>2, <2>3, ValidFooting DEF Footing, EndAligned, Carving, Splitting, Pushing
<1>7. CASE SplitCarve(t)
  <2>1. PICK start, size, bin, iter :
          r' = [r EXCEPT ![t].top = start, ![t].iter = iter, ![t].bin = bin] /\ start \in Nat /\ Valid(start, size)
    <3>1. PICK lo, hi, piece, size, need, k, start, iter :
            /\ lo = r[t].blk /\ hi = r[t].top /\ need = Target(t) /\ iter = r[t].iter
            /\ piece = largest_carvable(hi, (hi - lo) - need) /\ size = piece.size /\ k = piece.bin
            /\ start = hi - size /\ start \in Nat /\ Valid(start, size)
      BY <1>7, SplitCut
    <3>2. r' = [r EXCEPT ![t].top = start, ![t].iter = @ + 1, ![t].bin = k]
      BY <1>7, <3>1 DEF SplitCarve, InHand
    <3>3. r' = [r EXCEPT ![t].top = start, ![t].iter = iter + 1, ![t].bin = k]
      BY <1>1, <3>1, <3>2 DEF Typed, NoLocals
    <3> QED BY <3>1, <3>3
  <2>2. r'[t].top = start /\ r'[t].job = r[t].job
    BY <1>1, <2>1, Fields DEF Typed
  <2>3. pc'[t] \in {"split", "push_load"} /\ r[t].job \in {"fit", "shrink"}
    BY <1>1, <1>7 DEF SplitCarve, Release, JobInPlace
  <2> QED BY <2>1, <2>2, <2>3, ValidFooting DEF Footing, EndAligned, Carving, Splitting, Pushing
<1>8. CASE FitTake(t)
  <2>1. PICK blk, top : r' = [r EXCEPT ![t].blk = blk, ![t].top = top, ![t].prev = 0, ![t].cur = 0, ![t].job = "fit"]
    BY <1>8 DEF FitTake
  <2>2. r'[t].iter = r[t].iter
    BY <1>1, <2>1, Fields DEF Typed
  <2>3. r[t].iter = 0
    BY <1>1, <1>8 DEF FitTake, Place, AskingAt, Asking
  <2>4. pc'[t] = "split"
    BY <1>1, <1>8 DEF FitTake
  <2> QED BY <2>2, <2>3, <2>4 DEF EndAligned, Carving, Pushing
<1>9. CASE ReallocShrink(t)
  <2>1. PICK blk, top : r' = [r EXCEPT ![t].job = "shrink", ![t].blk = blk, ![t].top = top]
    BY <1>9 DEF ReallocShrink
  <2>2. r'[t].iter = r[t].iter
    BY <1>1, <2>1, Fields DEF Typed
  <2>3. r[t].iter = 0
    BY <1>1, <1>9 DEF ReallocShrink, Place
  <2>4. pc'[t] = "lock"
    BY <1>1, <1>9 DEF ReallocShrink
  <2> QED BY <2>2, <2>3, <2>4 DEF EndAligned, Carving, Pushing
<1> QED BY <1>2, <1>3, <1>4, <1>5, <1>6, <1>7, <1>8, <1>9 DEF CarvesOrSplits

LEMMA NextEndAligned ==
  ASSUME SafeUse, LInv, HeapInv, \A t \in Threads : EndAligned(t), [Next]_vars
  PROVE  \A t \in Threads : EndAligned(t)'
<1>1. CASE UNCHANGED vars
  BY <1>1 DEF vars, EndAligned, Carving, Splitting, Pushing
<1>2. ASSUME NEW t \in Threads, SetupStep(t), NEW u \in Threads PROVE EndAligned(u)'
  <2>1. \/ pc'[u] \in {"idle", "verify_print", "init_magic", "init_print", "init_head", "init_bump", "init_lock"}
        \/ pc'[u] = pc[u] /\ r'[u] = r[u]
    <3>1. DOMAIN pc = Threads /\ DOMAIN r = Threads
      BY DEF LInv, Shape
    <3> QED BY <1>2, <3>1 DEF SetupStep, InitCall, VerifyMagic, Prepare, InitMagic, InitPrint, InitHead,
            InitBump, InitLock, VerifyPrint, Goto
  <2>2. CASE pc'[u] = pc[u] /\ r'[u] = r[u]
    BY <2>2 DEF EndAligned, Carving, Splitting, Pushing
  <2>3. CASE pc'[u] \in {"idle", "verify_print", "init_magic", "init_print", "init_head", "init_bump", "init_lock"}
    BY <2>3 DEF EndAligned, Carving, Splitting, Pushing
  <2> QED BY <2>1, <2>2, <2>3
<1>3. ASSUME NEW t \in Threads, Call(t) \/ Step(t), NEW u \in Threads PROVE EndAligned(u)'
  <2>1. booted
    <3>1. ~booted => Preparing
      BY DEF HeapInv
    <3> QED BY <1>3, <3>1, EarlyIdle
  <2>2. PICK own, st, el, n : HInv(own, st, el, n)
    BY <2>1 DEF HeapInv
  <2>3. CASE u = t
    BY <1>3, <2>1, <2>2, <2>3, EndAlignedStep
  <2>4. CASE u # t
    <3>1. pc'[u] = pc[u] /\ r'[u] = r[u]
      BY <1>3, <2>4, StepAlone DEF Alone, LInv
    <3> QED BY <3>1 DEF EndAligned, Carving, Splitting, Pushing
  <2> QED BY <2>3, <2>4
<1> QED BY <1>1, <1>2, <1>3 DEF Next, SetupStep

LEMMA EndsStayAligned ==
  ASSUME SafeUse
  PROVE  Spec /\ HonestPops => [](\A t \in Threads : EndAligned(t))
<1>1. Init => \A t \in Threads : EndAligned(t)
  BY DEF Init, EndAligned, Carving, Splitting, Pushing
<1>2. LInv /\ HeapInv /\ (\A t \in Threads : EndAligned(t)) /\ [Next]_vars => (\A t \in Threads : EndAligned(t))'
  BY NextEndAligned
<1> QED BY <1>1, <1>2, HeapInvHolds, LInvHolds, PTL DEF Spec

-----------------------------------------------------------------------------
(* Which granules a step leaves unaccounted for.                           *)

Covered == {a \in Granules : \E p \in Boxes : p[1] <= a /\ a < p[2]}

LEMMA SizeIsCovered == SizeOfSpans = MIN_ALIGN * Cardinality(Covered)
<1>1. ASSUME NEW a PROVE a \in UNION {{b \in Granules : s.lo <= b /\ b < s.hi} : s \in Spans} <=> a \in Covered
  <2>1. ASSUME a \in Covered PROVE \E s \in Spans : s.lo <= a /\ a < s.hi
    <3>1. PICK p \in Boxes : p[1] <= a /\ a < p[2]
      BY <2>1 DEF Covered
    <3>2. PICK s \in Spans : p = <<s.lo, s.hi>>
      BY DEF Boxes
    <3> QED BY <3>1, <3>2
  <2>2. ASSUME NEW s \in Spans, s.lo <= a, a < s.hi, a \in Granules PROVE a \in Covered
    <3>1. PICK p : p = <<s.lo, s.hi>>
      OBVIOUS
    <3>2. p \in Boxes /\ p[1] = s.lo /\ p[2] = s.hi
      BY <3>1 DEF Boxes
    <3> QED BY <2>2, <3>2 DEF Covered
  <2> QED BY <2>1, <2>2 DEF Covered
<1> QED BY <1>1 DEF SizeOfSpans

\* What was above the bump pointer, or above the block being carved.
LEMMA UntouchedIs ==
  ASSUME LockExcludes, booted
  PROVE  /\ \A t \in Threads : Carving(t) => Untouched = IF r[t].top < heap_end THEN {Span(<<"bump", 0>>, r[t].top, heap_end)} ELSE {}
         /\ (\A t \in Threads : ~Carving(t)) => Untouched = IF bump < heap_end THEN {Span(<<"bump", 0>>, bump, heap_end)} ELSE {}
<1>1. ASSUME NEW t \in Threads, Carving(t)
      PROVE  Untouched = IF r[t].top < heap_end THEN {Span(<<"bump", 0>>, r[t].top, heap_end)} ELSE {}
  <2>1. \A u \in Threads : Carving(u) => u = t
    BY <1>1 DEF LockExcludes, Critical, Carving
  <2>2. (CHOOSE u \in Threads : Carving(u)) = t
    BY <1>1, <2>1
  <2> QED BY <1>1, <2>2 DEF Untouched
<1>2. ASSUME \A t \in Threads : ~Carving(t)
      PROVE  Untouched = IF bump < heap_end THEN {Span(<<"bump", 0>>, bump, heap_end)} ELSE {}
  BY <1>2 DEF Untouched
<1> QED BY <1>1, <1>2

\* Where the region above starts.
Brink(x) ==
  /\ \A t \in Threads : Carving(t) => x = r[t].top
  /\ (\A t \in Threads : ~Carving(t)) => x = bump

LEMMA BrinkIs ==
  (LockExcludes /\ booted) => \A x : Brink(x) => Untouched = IF x < heap_end THEN {Span(<<"bump", 0>>, x, heap_end)} ELSE {}
<1> SUFFICES ASSUME LockExcludes, booted, NEW x, Brink(x)
             PROVE  Untouched = IF x < heap_end THEN {Span(<<"bump", 0>>, x, heap_end)} ELSE {}
  OBVIOUS
<1>1. CASE \E t \in Threads : Carving(t)
  <2>1. PICK t \in Threads : Carving(t)
    BY <1>1
  <2> QED BY <2>1, UntouchedIs DEF Brink
<1>2. CASE \A t \in Threads : ~Carving(t)
  BY <1>2, UntouchedIs DEF Brink
<1> QED BY <1>1, <1>2

LEMMA BrinkNext ==
  ((LockExcludes /\ booted) => \A x : Brink(x) => Untouched = IF x < heap_end THEN {Span(<<"bump", 0>>, x, heap_end)} ELSE {})'
BY BrinkIs, PTL

LEMMA AnyBrink ==
  ASSUME LockExcludes, booted
  PROVE  \E x : Brink(x)
<1>1. CASE \E t \in Threads : Carving(t)
  <2>1. PICK t \in Threads : Carving(t)
    BY <1>1
  <2>2. \A u \in Threads : Carving(u) => u = t
    BY <2>1 DEF LockExcludes, Critical, Carving
  <2>3. PICK x : x = r[t].top
    OBVIOUS
  <2>4. Brink(x)
    BY <2>1, <2>2, <2>3 DEF Brink
  <2> QED BY <2>4
<1>2. CASE \A t \in Threads : ~Carving(t)
  <2>1. PICK x : x = bump
    OBVIOUS
  <2>2. Brink(x)
    BY <1>2, <2>1 DEF Brink
  <2> QED BY <2>2
<1> QED BY <1>1, <1>2

LEMMA CoversNext ==
  (\A lo, hi : <<lo, hi>> \in Boxes => \A a \in Granules : lo <= a /\ a < hi => a \in Covered)'
<1>1. \A lo, hi : <<lo, hi>> \in Boxes => \A a \in Granules : lo <= a /\ a < hi => a \in Covered
  <2> SUFFICES ASSUME NEW lo, NEW hi, <<lo, hi>> \in Boxes, NEW a \in Granules, lo <= a, a < hi
               PROVE  a \in Covered
    OBVIOUS
  <2>1. PICK p : p = <<lo, hi>>
    OBVIOUS
  <2>2. p \in Boxes /\ p[1] = lo /\ p[2] = hi
    BY <2>1
  <2> QED BY <2>2 DEF Covered
<1> QED BY <1>1, PTL

\* The gap is carved and bumped past by the steps of one loop.
LEMMA CarvingStays ==
  ASSUME SafeUse, NEW own, NEW st, NEW el, NEW n, HInv(own, st, el, n), booted, LInv,
         NEW t \in Threads, Call(t) \/ Step(t), ~Bump(t), ~RefillFixed(t), ~RefillOversize(t)
  PROVE  /\ Carving(t)' <=> Carving(t)
         /\ Carving(t) => r'[t].top = r[t].top /\ r'[t].lo = r[t].lo /\ (~CarveGap(t) => r'[t].end = r[t].end)
<1> USE DEF Goto
<1>1. /\ Typed(r[t]) /\ Place(t) /\ JobInPlace(t) /\ pc \in [Threads -> Labels] /\ DOMAIN r = Threads
  BY Here
<1>2. CASE Call(t) \/ (Step(t) /\ ~CarvesOrSplits(t))
  <2>1. ~Carving(t)'
    BY <1>2, NoCarving DEF SafeUse
  <2>2. ~Carving(t)
    <3>1. pc[t] \notin {"gap", "push_load", "push_store", "push_cas"} \/ (Step(t) /\ Bump(t))
      <4>1. CASE Call(t)
        BY <4>1 DEF Call, AllocCall, FreeCall, FreeAgain, ReallocCall, MayCall
      <4>2. CASE Step(t) /\ ~CarvesOrSplits(t)
        BY <4>2 DEF Step, Swap, CarvesOrSplits, Unlock, PopEmpty, PopLoad, PopNext, PopRetry, PopCas, Stamp, Got,
           Bump, FitHead, FitSkip, OverStamp, SplitDone, ReallocKeep, ReallocGrow, Copy, FreeLoad, FreeStamp,
           OverPush, Return
      <4> QED BY <1>2, <4>1, <4>2
    <3> QED BY <3>1 DEF Carving, Pushing
  <2> QED BY <2>1, <2>2
<1>3. CASE PushLoad(t) \/ PushStore(t) \/ PushRetry(t) \/ PushCas(t)
  <2>1. Pushing(t) /\ r[t].job \in {"slow", "over", "fit", "shrink", "free"}
    BY <1>1, <1>3 DEF Pushing, PushLoad, PushStore, PushRetry, PushCas, JobInPlace
  <2>2. /\ r'[t].job = r[t].job /\ r'[t].end = r[t].end /\ r'[t].lo = r[t].lo
        /\ r[t].job # "free" => r'[t].top = r[t].top
        /\ pc'[t] \in {"push_load", "push_store", "push_cas", AfterPush(r[t].job)}
    <3>1. CASE PushLoad(t) BY <1>1, <3>1, Fields DEF PushLoad, Typed
    <3>2. CASE PushStore(t) BY <1>1, <3>2, Fields DEF PushStore, Typed
    <3>3. CASE PushRetry(t) BY <1>1, <3>3, Fields DEF PushRetry, Typed
    <3>4. CASE PushCas(t)
      <4>1. PICK blk, top : /\ r' = [r EXCEPT ![t].old = 0, ![t].blk = blk, ![t].top = top]
                            /\ r[t].job # "free" => top = r[t].top
        <5>1. CASE r[t].job = "free"
          <6>1. r' = [r EXCEPT ![t].old = 0, ![t].blk = 0, ![t].top = 0]
            BY <3>4, <5>1 DEF PushCas
          <6> QED BY <5>1, <6>1
        <5>2. CASE r[t].job # "free"
          <6>1. r' = [r EXCEPT ![t].old = 0, ![t].blk = r[t].blk, ![t].top = r[t].top]
            BY <3>4, <5>2 DEF PushCas
          <6> QED BY <6>1
        <5> QED BY <5>1, <5>2
      <4>2. pc'[t] = AfterPush(r[t].job)
        BY <1>1, <3>4 DEF PushCas
      <4> QED BY <1>1, <4>1, <4>2, Fields DEF Typed
    <3> QED BY <1>3, <3>1, <3>2, <3>3, <3>4
  <2>3. CASE r[t].job \in {"slow", "over"}
    <3>1. pc'[t] \in {"gap", "push_load", "push_store", "push_cas"}
      BY <2>2, <2>3 DEF AfterPush
    <3> QED BY <2>1, <2>2, <2>3, <3>1 DEF Carving, Pushing
  <2>4. CASE r[t].job \in {"fit", "shrink", "free"}
    <3>1. pc'[t] \in {"split", "return", "push_load", "push_store", "push_cas"} /\ pc[t] # "gap"
      BY <2>1, <2>2, <2>4 DEF AfterPush, Pushing
    <3> QED BY <2>1, <2>2, <2>4, <3>1 DEF Carving
  <2> QED BY <2>1, <2>3, <2>4
<1>4. CASE Lock(t)
  <2>1. pc[t] = "lock" /\ pc'[t] \in {"pop_load", "fit_head", "split", "over_push"}
    BY <1>1, <1>4 DEF Lock, JobInPlace
  <2> QED BY <2>1 DEF Carving, Pushing
<1>5. CASE CarveGap(t)
  <2>1. PICK start, bin : r' = [r EXCEPT ![t].end = start, ![t].bin = bin]
    BY <1>5 DEF CarveGap
  <2>2. r'[t].top = r[t].top /\ r'[t].lo = r[t].lo /\ r'[t].job = r[t].job
    BY <1>1, <2>1, Fields DEF Typed
  <2>3. pc[t] = "gap" /\ pc'[t] \in {"gap", "push_load"} /\ r[t].job \in {"slow", "over"}
    BY <1>1, <1>5 DEF CarveGap, Release, JobInPlace
  <2> QED BY <1>5, <2>2, <2>3 DEF Carving, Pushing
<1>6. CASE SplitCarve(t)
  <2>1. pc[t] = "split" /\ r[t].job \in {"fit", "shrink"}
    BY <1>1, <1>6 DEF SplitCarve, JobInPlace
  <2>2. PICK start, iter, bin : r' = [r EXCEPT ![t].top = start, ![t].iter = iter, ![t].bin = bin]
    <3>1. PICK iter : iter = r[t].iter + 1
      OBVIOUS
    <3>2. PICK start, bin : r' = [r EXCEPT ![t].top = start, ![t].iter = @ + 1, ![t].bin = bin]
      BY <1>6 DEF SplitCarve
    <3>3. r' = [r EXCEPT ![t].top = start, ![t].iter = iter, ![t].bin = bin]
      BY <1>1, <3>1, <3>2 DEF Typed, NoLocals
    <3> QED BY <3>3
  <2>3. r'[t].job = r[t].job
    BY <1>1, <2>2, Fields DEF Typed
  <2>4. pc'[t] \in {"split", "push_load"}
    BY <1>1, <1>6 DEF SplitCarve, Release
  <2> QED BY <2>1, <2>3, <2>4 DEF Carving, Pushing
<1>7. CASE FitTake(t) \/ ReallocShrink(t)
  <2>1. pc[t] \in {"fit", "realloc_load"} /\ pc'[t] \in {"split", "lock"}
    BY <1>1, <1>7 DEF FitTake, ReallocShrink
  <2> QED BY <2>1 DEF Carving, Pushing
<1> QED BY <1>2, <1>3, <1>4, <1>5, <1>6, <1>7 DEF CarvesOrSplits

\* A piece that is cut off is on the oversized list, or about to be pushed.
CutOff(t, start, size) ==
  \/ CarveGap(t) /\ size = GapPiece(t).size /\ start = r[t].end - size
  \/ SplitCarve(t) /\ size = SplitPiece(t).size /\ start = r[t].top - size

LEMMA PieceIsThere ==
  ASSUME SafeUse, NEW own, NEW st, NEW el, NEW n, HInv(own, st, el, n), booted, LInv, booted', HeapInv',
         NEW t \in Threads, NEW start, NEW size, CutOff(t, start, size), start \in Granules,
         size \in Nat, size % 16 = 0
  PROVE  <<start, start + size>> \in Solids'
<1> USE DEF Goto
<1>1. /\ Typed(r[t]) /\ Place(t) /\ JobInPlace(t) /\ pc \in [Threads -> Labels] /\ DOMAIN r = Threads
      /\ word0 \in [Granules -> Int]
  BY Here
<1>2. PICK k : k = IF CarveGap(t) THEN GapPiece(t).bin ELSE SplitPiece(t).bin
  OBVIOUS
<1>3. word0' = [word0 EXCEPT ![start] = pack(size, FREE)]
  <2>1. CASE CarveGap(t) /\ size = GapPiece(t).size /\ start = r[t].end - size
    BY <2>1 DEF CarveGap, GapPiece, Release
  <2>2. CASE SplitCarve(t) /\ size = SplitPiece(t).size /\ start = r[t].top - size
    BY <2>2 DEF SplitCarve, SplitPiece, Release
  <2> QED BY <2>1, <2>2 DEF CutOff
<1>4. header_size(At(word0', start)) = size
  <2>1. word0'[start] = pack(size, FREE)
    BY <1>1, <1>3
  <2> QED BY <2>1, HeaderFacts DEF At
<1>5. ~(CarveGap(t) /\ SplitCarve(t))
  BY DEF CarveGap, SplitCarve
<1>6. CASE Over(k)
  <2>1. PutBy(t, k, start)
    <3>1. CASE CarveGap(t) /\ size = GapPiece(t).size /\ start = r[t].end - size
      BY <1>2, <1>6, <3>1 DEF PutBy
    <3>2. CASE SplitCarve(t) /\ size = SplitPiece(t).size /\ start = r[t].top - size
      BY <1>2, <1>5, <1>6, <3>2 DEF PutBy
    <3> QED BY <3>1, <3>2 DEF CutOff
  <2>2. k \in Bins /\ Puts(own, k, start)
    BY <2>1, PutByPuts
  <2>3. start \in FreeOf'[k]
    BY <2>2, PutsGrow
  <2>4. <<start, start + header_size(At(word0', start))>> \in Solids'
    BY <2>2, <2>3, FreeBoxesNext DEF At
  <2> QED BY <1>4, <2>4
<1>7. CASE ~Over(k)
  <2>1. CASE CarveGap(t) /\ size = GapPiece(t).size /\ start = r[t].end - size
    <3>1. r' = [r EXCEPT ![t].end = start, ![t].bin = k] /\ pc' = [pc EXCEPT ![t] = "push_load"]
      BY <1>2, <1>7, <2>1 DEF CarveGap, GapPiece, Release, Over
    <3>2. r'[t].end = start /\ r'[t].job = r[t].job /\ pc'[t] = "push_load"
      BY <1>1, <3>1, Fields DEF Typed
    <3>3. r[t].job \in {"slow", "over"}
      BY <1>1, <2>1 DEF CarveGap, JobInPlace
    <3>4. Piece(t)' = start /\ Pushing(t)' /\ r'[t].job # "free"
      BY <3>2, <3>3 DEF Piece, Pushing
    <3>5. CallBox(t, <<start, start + size>>)'
      BY <1>4, <3>4 DEF CallBox, At
    <3> QED BY <3>5, CallBoxesNext
  <2>2. CASE SplitCarve(t) /\ size = SplitPiece(t).size /\ start = r[t].top - size
    <3>0. PICK iter : iter = r[t].iter + 1
      OBVIOUS
    <3>1. r' = [r EXCEPT ![t].top = start, ![t].iter = iter, ![t].bin = k] /\ pc' = [pc EXCEPT ![t] = "push_load"]
      <4>1. r' = [r EXCEPT ![t].top = start, ![t].iter = @ + 1, ![t].bin = k] /\ pc' = [pc EXCEPT ![t] = "push_load"]
        BY <1>2, <1>5, <1>7, <2>2 DEF SplitCarve, SplitPiece, Release, Over
      <4> QED BY <1>1, <3>0, <4>1 DEF Typed, NoLocals
    <3>2. r'[t].top = start /\ r'[t].job = r[t].job /\ pc'[t] = "push_load"
      BY <1>1, <3>1, Fields DEF Typed
    <3>3. r[t].job \in {"fit", "shrink"}
      BY <1>1, <2>2 DEF SplitCarve, JobInPlace
    <3>4. Piece(t)' = start /\ Pushing(t)' /\ r'[t].job # "free"
      BY <3>2, <3>3 DEF Piece, Pushing
    <3>5. CallBox(t, <<start, start + size>>)'
      BY <1>4, <3>4 DEF CallBox, At
    <3> QED BY <3>5, CallBoxesNext
  <2> QED BY <2>1, <2>2 DEF CutOff
<1> QED BY <1>6, <1>7

\* The bytes a step may leave unaccounted for: the sliver of a split, and what
\* rounding the bump pointer up has skipped.
Lost(t, a) ==
  \/ Bump(t) /\ r[t].lo <= a /\ a < r[t].end
  \/ SplitDone(t) /\ r[t].blk + Retained(t) <= a /\ a < r[t].top

\* A block that is split: what is kept of it, and the piece.
LEMMA SplitCovers ==
  ASSUME SafeUse, NEW own, NEW st, NEW el, NEW n, HInv(own, st, el, n), booted, LInv, booted', HeapInv',
         NEW t \in Threads, SplitCarve(t) \/ SplitDone(t), NEW a \in Granules, r[t].blk <= a, a < r[t].top
  PROVE  a \in Covered' \/ Lost(t, a)
<1>1. /\ Typed(r[t]) /\ Place(t) /\ JobInPlace(t) /\ Hands(own, st, t) /\ DOMAIN r = Threads
  BY Here
<1>2. CASE SplitCarve(t)
  <2>1. PICK lo, hi, piece, size, need, k, start, iter :
          /\ lo = r[t].blk /\ hi = r[t].top /\ need = Target(t) /\ iter = r[t].iter
          /\ piece = largest_carvable(hi, (hi - lo) - need) /\ size = piece.size /\ k = piece.bin
          /\ start = hi - size /\ hi <= heap_end /\ hi \in Nat /\ lo \in Nat \ {0}
          /\ size \in Nat /\ Valid(start, size) /\ start \in Nat /\ lo < start
    BY <1>2, SplitCut
  <2>2. size > 0 /\ size % 16 = 0 /\ start % MIN_ALIGN = 0 /\ start < heap_end
    <3>1. size % 16 = 0 /\ start % MIN_ALIGN = 0 /\ size >= 2 * MIN_ALIGN
      BY <2>1, ValidFacts, CadAssumption
    <3> QED BY <2>1, <3>1, HeapBounds
  <2>3. start \in Granules
    BY <2>1, <2>2, GranuleAt
  <2>4. CutOff(t, start, size)
    BY <1>2, <2>1 DEF CutOff, SplitPiece, InHand
  <2>5. <<start, start + size>> \in Boxes'
    BY <2>1, <2>2, <2>3, <2>4, PieceIsThere, OtherBoxesNext
  <2>6. <<lo, start>> \in Boxes'
    <3>1. PICK i : i = iter + 1
      OBVIOUS
    <3>2. r' = [r EXCEPT ![t].top = start, ![t].iter = i, ![t].bin = k]
      <4>1. r' = [r EXCEPT ![t].top = start, ![t].iter = @ + 1, ![t].bin = k]
        BY <1>2, <2>1 DEF SplitCarve, InHand
      <4> QED BY <1>1, <2>1, <3>1, <4>1 DEF Typed, NoLocals
    <3>3. r'[t].blk = r[t].blk /\ r'[t].top = start
      BY <1>1, <3>2, Fields DEF Typed
    <3> QED BY <2>1, <3>3, HandBoxesNext, OtherBoxesNext
  <2>7. hi = start + size /\ a \in Nat
    BY <2>1, HeapBounds
  <2>10. lo <= a /\ a < hi
    BY <2>1
  <2>8. CASE a < start
    BY <2>6, <2>8, <2>10, CoversNext
  <2>9. CASE start <= a
    BY <2>5, <2>7, <2>9, <2>10, CoversNext
  <2>11. start \in Nat
    BY <2>1
  <2>12. a < start \/ start <= a
    BY <2>7, <2>11
  <2> QED BY <2>8, <2>9, <2>12
<1>3. CASE SplitDone(t)
  <2>1. r[t].blk # 0
    BY <1>1, <1>3 DEF SplitDone, Place, SplitBlock
  <2>2. r[t].blk \in Nat \ {0} /\ Retained(t) \in Nat /\ a \in Nat
    BY <1>1, <1>3, <2>1, InHandFacts, KeptSize, HeapBounds
  <2>3. PICK top : top = r[t].blk + Retained(t)
    OBVIOUS
  <2>4. r' = [r EXCEPT ![t].top = top, ![t].iter = 0]
    BY <1>3, <2>3 DEF SplitDone
  <2>5. r'[t].blk = r[t].blk /\ r'[t].top = top
    BY <1>1, <2>4, Fields DEF Typed
  <2>6. <<r[t].blk, top>> \in Boxes'
    BY <2>1, <2>5, HandBoxesNext, OtherBoxesNext
  <2>7. CASE a < top
    BY <2>6, <2>7, CoversNext
  <2>8. CASE top <= a
    BY <1>3, <2>3, <2>8 DEF Lost
  <2> QED BY <2>2, <2>3, <2>7, <2>8
<1> QED BY <1>2, <1>3

LEMMA GapCovers ==
  ASSUME SafeUse, NEW own, NEW st, NEW el, NEW n, HInv(own, st, el, n), booted, LInv, booted', HeapInv',
         NEW t \in Threads, Call(t) \/ Step(t), NEW u \in Threads, NEW a \in Granules,
         r[u].lo <= a, a < r[u].end
  PROVE  a \in Covered' \/ Lost(t, a)
<1>1. /\ Typed(r[u]) /\ Hands(own, st, u) /\ DOMAIN r = Threads
  BY Here
<1>2. a \in Nat /\ r[u].lo \in Int /\ r[u].end \in Int /\ r[u].lo < r[u].end
  BY <1>1, HeapBounds DEF Typed
<1>3. CASE u # t
  <2>1. r'[u] = r[u]
    BY <1>3, StepAlone DEF Alone, LInv
  <2>2. <<r[u].lo, r[u].end>> \in Boxes'
    BY <1>2, <2>1, OtherBoxesNext
  <2> QED BY <2>2, CoversNext
<1>4. CASE u = t
  <2>1. Carving(t)
    BY <1>1, <1>2, <1>4 DEF Hands
  <2>2. ~RefillFixed(t) /\ ~RefillOversize(t)
    BY <2>1 DEF Carving, Pushing, RefillFixed, RefillOversize
  <2>3. CASE Bump(t)
    BY <1>4, <2>3 DEF Lost
  <2>4. CASE ~Bump(t) /\ ~CarveGap(t)
    <3>1. r'[t].lo = r[t].lo /\ r'[t].end = r[t].end
      BY <2>1, <2>2, <2>4, CarvingStays
    <3>2. <<r[t].lo, r[t].end>> \in Boxes'
      BY <1>2, <1>4, <3>1, OtherBoxesNext
    <3> QED BY <1>4, <3>2, CoversNext
  <2>5. CASE CarveGap(t)
    <3>1. PICK lo, hi, piece, size, k, start :
            /\ lo = r[t].lo /\ hi = r[t].end
            /\ piece = largest_carvable(hi, hi - lo) /\ size = piece.size /\ k = piece.bin
            /\ start = hi - size
            /\ hi \in Nat /\ hi <= heap_end
            /\ size \in Nat /\ Valid(start, size) /\ start \in Nat
      BY <2>5, GapCut
    <3>2. size % 16 = 0 /\ start % MIN_ALIGN = 0 /\ size >= 2 * MIN_ALIGN /\ start \in Nat
      BY <3>1, ValidFacts, CadAssumption
    <3>3. size > 0 /\ start < heap_end /\ hi = start + size
      <4>1. hi \in Nat /\ hi <= heap_end /\ start = hi - size /\ size \in Nat /\ start \in Nat
        BY <3>1
      <4>2. size >= 2 * MIN_ALIGN
        BY <3>2
      <4> QED BY <4>1, <4>2, HeapBounds
    <3>4. start \in Granules
      BY <3>2, <3>3, GranuleAt
    <3>5. CutOff(t, start, size)
      BY <2>5, <3>1 DEF CutOff, GapPiece
    <3>6. <<start, start + size>> \in Boxes'
      BY <3>1, <3>2, <3>4, <3>5, PieceIsThere, OtherBoxesNext
    <3>7. r'[t].lo = r[t].lo /\ r'[t].end = start
      <4>1. r' = [r EXCEPT ![t].end = start, ![t].bin = k]
        BY <2>5, <3>1 DEF CarveGap
      <4> QED BY <1>1, <1>4, <4>1, Fields DEF Typed
    <3>8. a < hi /\ lo <= a
      BY <1>4, <3>1
    <3>9. CASE a < start
      <4>1. lo < start /\ r'[t].lo = lo
        BY <1>2, <1>4, <3>1, <3>7, <3>8, <3>9
      <4>2. <<lo, start>> \in Boxes'
        BY <3>7, <4>1, OtherBoxesNext
      <4> QED BY <3>8, <3>9, <4>2, CoversNext
    <3>10. CASE start <= a
      <4>1. a < start + size
        BY <3>3, <3>8
      <4> QED BY <3>6, <3>10, <4>1, CoversNext
    <3>11. a < start \/ start <= a
      BY <1>2, <3>2
    <3> QED BY <3>9, <3>10, <3>11
  <2> QED BY <2>3, <2>4, <2>5
<1> QED BY <1>3, <1>4

\* The region above: what a refill takes of it is its block and the gap below.
LEMMA BrinkCovers ==
  ASSUME SafeUse, NEW own, NEW st, NEW el, NEW n, HInv(own, st, el, n), booted, LInv, booted', HeapInv', LockExcludes',
         NEW t \in Threads, Call(t) \/ Step(t), NEW x, Brink(x), NEW a \in Granules, x <= a
  PROVE  a \in Covered'
<1> USE DEF Goto
<1>1. /\ Typed(r[t]) /\ Place(t) /\ DOMAIN r = Threads /\ pc \in [Threads -> Labels] /\ Room(own, st)
  BY Here DEF HInv
<1>2. a \in Nat /\ a < heap_end /\ heap_end \in Nat
  BY HeapBounds
<1>3. \A u \in Threads \ {t} : r'[u] = r[u] /\ (Carving(u)' <=> Carving(u))
  BY StepAlone DEF Alone, LInv, Carving, Pushing
<1>4. ASSUME NEW y, Brink(y)', y <= a PROVE a \in Covered'
  <2>1. y \in Int
    <3>1. \/ \E u \in Threads : y = r'[u].top
          \/ y = bump'
      BY <1>4 DEF Brink
    <3>2. PICK own2, st2, el2, n2 : HInv(own2, st2, el2, n2)'
      BY GhostsNext
    <3> QED BY <3>1, <3>2 DEF HInv, Types, Typed, Room
  <2>2. Untouched' = IF y < heap_end THEN {Span(<<"bump", 0>>, y, heap_end)} ELSE {}
    BY <1>4, BrinkNext
  <2>3. y < heap_end
    BY <1>2, <1>4, <2>1
  <2>4. PICK s : s = Span(<<"bump", 0>>, y, heap_end)
    OBVIOUS
  <2>5. s \in Untouched' /\ s.lo = y /\ s.hi = heap_end
    BY <2>2, <2>3, <2>4 DEF Span
  <2>6. <<y, heap_end>> \in Boxes'
    BY <2>5, OtherBoxesNext
  <2> QED BY <1>2, <1>4, <2>6, CoversNext
<1>5. CASE ~Bump(t) /\ ~RefillFixed(t) /\ ~RefillOversize(t)
  <2>1. /\ Carving(t)' <=> Carving(t)
        /\ Carving(t) => r'[t].top = r[t].top
    BY <1>5, CarvingStays
  <2>2. bump' = bump
    BY <1>5, OnlyBumpBumps
  <2>3. Brink(x)'
    BY <1>3, <2>1, <2>2 DEF Brink
  <2> QED BY <1>4, <2>3
<1>6. CASE Bump(t)
  <2>1. Carving(t) /\ x = r[t].top
    BY <1>6 DEF Bump, Carving, Brink
  <2>2. bump' = x
    BY <1>6, <2>1 DEF Bump, BumpTo
  <2>3. \A u \in Threads : Carving(u) => u = t
    BY <2>1 DEF LInv, LockExcludes, Critical, Carving
  <2>4. ~Carving(t)'
    <3>1. pc'[t] \in {"over_stamp", "unlock"}
      BY <1>1, <1>6 DEF Bump
    <3> QED BY <3>1 DEF Carving, Pushing
  <2>5. Brink(x)'
    BY <1>3, <2>2, <2>3, <2>4 DEF Brink
  <2> QED BY <1>4, <2>5
<1>7. CASE RefillFixed(t) \/ RefillOversize(t)
  <2>1. RefillStep(t) /\ Asking(t) /\ Critical(t) /\ r[t].job \in {"slow", "over"}
    BY <1>7, RefillSame
  <2>2. \A u \in Threads : ~Carving(u)
    <3>1. ~Carving(t)
      BY <1>7 DEF RefillFixed, RefillOversize, Carving, Pushing
    <3>2. \A u \in Threads : Carving(u) => u = t
      BY <2>1 DEF LInv, LockExcludes, Critical, Carving
    <3> QED BY <3>1, <3>2
  <2>3. x = bump /\ bump' = bump
    BY <2>1, <2>2 DEF Brink, RefillStep, control
  <2>4. PICK aligned : aligned = align_up(bump, align_of_bin(RequestBin(r[t].size)))
    OBVIOUS
  <2>5. /\ aligned \in Nat /\ bump <= aligned /\ aligned + Target(t) \in Nat
        /\ Wrap(aligned + Target(t)) = aligned + Target(t) /\ Valid(aligned, Target(t))
    <3>1. r[t].size \in Requests
      BY <2>1 DEF Asking, Serving
    <3> QED BY <1>1, <2>4, <3>1, RefillFacts DEF Target
  <2>6. CASE ~HasRoom(aligned, Target(t))
    <3>1. pc'[t] = "unlock"
      BY <1>1, <2>1, <2>4, <2>6 DEF RefillStep
    <3>2. ~Carving(t)'
      BY <3>1 DEF Carving, Pushing
    <3>3. Brink(x)'
      BY <1>3, <2>2, <2>3, <3>2 DEF Brink
    <3> QED BY <1>4, <3>3
  <2>7. CASE HasRoom(aligned, Target(t))
    <3>1. PICK top : top = aligned + Target(t)
      OBVIOUS
    <3>2. r' = [r EXCEPT ![t].blk = aligned, ![t].top = top, ![t].lo = x, ![t].end = aligned, ![t].prev = 0]
      BY <2>1, <2>3, <2>4, <2>5, <2>7, <3>1 DEF RefillStep
    <3>3. r'[t].blk = aligned /\ r'[t].top = top /\ r'[t].lo = x /\ r'[t].end = aligned
      BY <1>1, <3>2, Fields DEF Typed
    <3>4. pc'[t] = "gap"
      BY <1>1, <2>1, <2>4, <2>7 DEF RefillStep
    <3>5. Brink(top)'
      <4>1. Carving(t)'
        BY <3>4 DEF Carving
      <4> QED BY <1>3, <2>2, <3>3, <4>1 DEF Brink
    <3>6. top \in Nat /\ aligned \in Nat /\ x \in Nat /\ x <= aligned
      BY <1>1, <2>3, <2>5, <3>1 DEF Room
    <3>7. CASE a < aligned
      <4>1. x < aligned
        BY <1>2, <3>6, <3>7
      <4>2. <<x, aligned>> \in Boxes'
        BY <3>3, <4>1, OtherBoxesNext
      <4> QED BY <3>7, <4>2, CoversNext
    <3>8. CASE aligned <= a /\ a < top
      <4>1. aligned # 0
        BY <1>1, <3>6, <2>3, HeapBounds DEF Room
      <4>2. <<aligned, top>> \in Boxes'
        BY <3>3, <4>1, HandBoxesNext, OtherBoxesNext
      <4> QED BY <3>8, <4>2, CoversNext
    <3>9. CASE top <= a
      BY <1>4, <3>5, <3>9
    <3>10. a < aligned \/ (aligned <= a /\ a < top) \/ top <= a
      BY <1>2, <3>6
    <3> QED BY <3>7, <3>8, <3>9, <3>10
  <2> QED BY <2>6, <2>7
<1> QED BY <1>5, <1>6, <1>7

\* Whatever a step does not lose stays accounted for.
LEMMA CoveredStays ==
  ASSUME SafeUse, NEW own, NEW st, NEW el, NEW n, HInv(own, st, el, n), booted, LInv,
         booted', HeapInv', LockExcludes', NEW t \in Threads, Call(t) \/ Step(t), HonestPop(t), Answered(t),
         NEW a \in Covered
  PROVE  a \in Covered' \/ Lost(t, a)
<1>1. PICK p \in Boxes : p[1] <= a /\ a < p[2]
  BY DEF Covered
<1>2. a \in Granules
  BY DEF Covered
<1>3. CASE p \in Solids
  <2>1. CASE SplitOf(t, p)
    <3>1. r[t].blk <= a /\ a < r[t].top
      BY <1>1, <2>1 DEF SplitOf
    <3> QED BY <1>2, <2>1, <3>1, SplitCovers DEF SplitOf
  <2>2. CASE p \in Solids'
    <3>1. p = <<p[1], p[2]>>
      BY <1>3 DEF Solids
    <3>2. PICK lo, hi : lo = p[1] /\ hi = p[2]
      OBVIOUS
    <3>3. <<lo, hi>> \in Boxes'
      BY <2>2, <3>1, <3>2, OtherBoxesNext
    <3> QED BY <1>1, <1>2, <3>2, <3>3, CoversNext
  <2> QED BY <1>3, <2>1, <2>2, SolidStays
<1>4. CASE \E u \in Threads : GapBox(u, p)
  <2>1. PICK u \in Threads : GapBox(u, p)
    BY <1>4
  <2>2. r[u].lo <= a /\ a < r[u].end
    BY <1>1, <2>1 DEF GapBox
  <2> QED BY <1>2, <2>2, GapCovers
<1>5. CASE BumpBox(p)
  <2>1. PICK x : Brink(x)
    BY AnyBrink DEF LInv
  <2>2. Untouched = IF x < heap_end THEN {Span(<<"bump", 0>>, x, heap_end)} ELSE {}
    BY <2>1, BrinkIs DEF LInv
  <2>3. PICK s \in Untouched : p = <<s.lo, s.hi>>
    BY <1>5 DEF BumpBox
  <2>4. s.lo = x
    BY <2>2 DEF Span
  <2>5. x <= a
    BY <1>1, <2>3, <2>4
  <2> QED BY <1>2, <2>1, <2>5, BrinkCovers
<1> QED BY <1>3, <1>4, <1>5, BoxIs

\* And what it loses is less than the smallest class.
LEMMA LostIsASliver ==
  ASSUME SafeUse, NEW own, NEW st, NEW el, NEW n, HInv(own, st, el, n), booted, LInv,
         NEW t \in Threads, EndAligned(t)
  PROVE  \E x, y : /\ x \in Nat /\ y \in Nat /\ x % MIN_ALIGN = 0 /\ y % MIN_ALIGN = 0 /\ x <= y /\ y - x < LNR_FLOOR
                   /\ \A a \in Granules : Lost(t, a) => x <= a /\ a < y
<1>1. /\ Typed(r[t]) /\ Place(t) /\ JobInPlace(t) /\ Hands(own, st, t)
  BY Here
<1>2. LNR_FLOOR \in Nat \ {0} /\ MIN_ALIGN \in Nat \ {0} /\ 2 * MIN_ALIGN <= LNR_FLOOR /\ heap_end \in Nat
  BY GeoConstants, HeapBounds, CadAssumption
<1>3. CASE Bump(t)
  <2>1. Carving(t) /\ ~GapLeft(t) /\ ~SplitDone(t)
    BY <1>3 DEF Bump, Carving, SplitDone
  <2>2. PICK lo, end : lo = r[t].lo /\ end = r[t].end
    OBVIOUS
  <2>3. /\ lo \in Nat /\ end \in Nat /\ lo <= end /\ lo % MIN_ALIGN = 0 /\ end % MIN_ALIGN = 0
        /\ end <= heap_end /\ lo > 0
    <3>1. Found(t) /\ lo <= end /\ end <= r[t].blk /\ lo % MIN_ALIGN = 0 /\ end % MIN_ALIGN = 0 /\ lo \in Nat
      BY <1>1, <2>1, <2>2 DEF Place
    <3>2. r[t].blk # 0
      BY <3>1 DEF Found
    <3>3. Held(own, st, BlockId(t), r[t].blk, r[t].top)
      BY <1>1, <3>2 DEF Hands, Block
    <3>4. r[t].blk \in Nat /\ r[t].blk <= heap_end
      <4>1. PICK b, top : b = r[t].blk /\ top = r[t].top
        OBVIOUS
      <4>2. b \in Nat /\ top \in Nat /\ b < top /\ top <= heap_end
        BY <3>3, <4>1, HeldFacts
      <4> QED BY <1>2, <4>1, <4>2
    <3>5. end \in Int
      BY <1>1, <2>2 DEF Typed
    <3>6. bump \in Nat /\ bump > 0 /\ bump <= lo
      BY <2>1, <2>2, HeapBounds DEF HInv, Room
    <3> QED BY <1>2, <3>1, <3>4, <3>5, <3>6
  <2>4. end - lo < MIN_ALIGN \/ largest_carvable(end, end - lo).size = 0
    <3>1. end - lo \in Nat
      BY <2>3
    <3> QED BY <1>2, <2>1, <2>2, <3>1 DEF GapLeft, gap_goes_on
  <2>5. Footing(end)
    BY <2>1, <2>2 DEF EndAligned, Footing
  <2>6. PICK len : len = end - lo
    OBVIOUS
  <2>7. len \in Nat /\ len < end
    <3>1. len \in Nat
      BY <2>3, <2>6
    <3>2. end > 0 => len < end
      BY <2>3, <2>6
    <3>3. lo > 0
      BY <2>3
    <3> QED BY <2>3, <3>1, <3>2, <3>3
  <2>8. len < LNR_FLOOR
    BY <2>3, <2>4, <2>5, <2>6, <2>7, NothingLeft
  <2>9. \A a \in Granules : Lost(t, a) => lo <= a /\ a < end
    BY <2>1, <2>2 DEF Lost
  <2> QED BY <2>3, <2>6, <2>8, <2>9
<1>4. CASE SplitDone(t)
  <2>1. /\ Splitting(t) /\ ~SplitOn(t) /\ ~Bump(t) /\ SplitBlock(t)
    BY <1>1, <1>4 DEF Bump, Splitting, SplitDone, Place
  <2>2. PICK b, top, need, kept, iter : b = r[t].blk /\ top = r[t].top /\ need = Target(t) /\ kept = Retained(t) /\ iter = r[t].iter
    OBVIOUS
  <2>3. /\ b \in Nat \ {0} /\ top \in Nat /\ top % MIN_ALIGN = 0 /\ b % MIN_ALIGN = 0 /\ top <= heap_end
        /\ top - b \in Nat /\ InHand(t) = top - b
    <3>1. r[t].blk # 0
      BY <2>1 DEF SplitBlock
    <3> QED BY <1>1, <2>2, <3>1, InHandFacts DEF InHand
  <2>4. kept \in Nat /\ kept % MIN_ALIGN = 0 /\ need <= kept /\ kept <= top - b /\ kept > 0
    BY <1>4, <2>2, <2>3, KeptSize
  <2>5. need \in Nat
    <3>1. r[t].size \in Requests
      BY <2>1 DEF SplitBlock
    <3> QED BY <2>2, <3>1, RequestOk DEF Target
  <2>6. (top - b) - kept < LNR_FLOOR
    <3>1. kept = retained_size(top - b, need, iter)
      BY <2>2, <2>3 DEF Retained
    <3>2. CASE is_block_exact(top - b)
      <4>1. kept = top - b
        BY <3>1, <3>2 DEF retained_size
      <4> QED BY <1>2, <2>3, <4>1
    <3>3. CASE ~is_block_exact(top - b)
      <4>1. iter # 0
        <5>1. iter = 0 => Valid(b, top - b)
          BY <2>1, <2>2, <2>3 DEF SplitBlock
        <5> QED BY <3>3, <5>1 DEF Valid
      <4>2. PICK len : len = (top - b) - need
        OBVIOUS
      <4>3. len \in Nat /\ len < top /\ (top - b) - kept <= len
        BY <2>3, <2>4, <2>5, <4>2
      <4>4. len < MIN_ALIGN \/ largest_carvable(top, len).size = 0
        <5>1. ~split_goes_on(top, top - b, need, iter)
          BY <2>1, <2>2, <2>3 DEF SplitOn
        <5> QED BY <1>2, <3>3, <4>1, <4>2, <4>3, <5>1 DEF split_goes_on
      <4>5. Footing(top)
        BY <2>1, <2>2, <4>1 DEF EndAligned, Footing
      <4>6. len < LNR_FLOOR
        BY <2>3, <4>3, <4>4, <4>5, NothingLeft
      <4> QED BY <1>2, <2>3, <2>4, <4>3, <4>6
    <3> QED BY <3>2, <3>3
  <2>7. PICK x : x = b + kept
    OBVIOUS
  <2>8. x \in Nat /\ x <= top /\ top - x < LNR_FLOOR
    BY <2>3, <2>4, <2>6, <2>7
  <2>9. x % MIN_ALIGN = 0
    <3>1. b \in Int /\ kept \in Int /\ b % MIN_ALIGN = 0 /\ kept % MIN_ALIGN = 0 /\ MIN_ALIGN \in Nat \ {0}
      BY <1>2, <2>3, <2>4
    <3>2. (b + kept) % MIN_ALIGN = 0
      BY <3>1, ModSum
    <3> QED BY <2>7, <3>2
  <2>10. \A a \in Granules : Lost(t, a) => x <= a /\ a < top
    BY <2>1, <2>2, <2>7 DEF Lost
  <2> QED BY <2>3, <2>8, <2>9, <2>10
<1>5. CASE ~Bump(t) /\ ~SplitDone(t)
  <2>1. 0 \in Nat /\ 0 % MIN_ALIGN = 0 /\ 0 <= 0 /\ 0 - 0 < LNR_FLOOR
    BY <1>2
  <2>2. \A a \in Granules : ~Lost(t, a)
    BY <1>5 DEF Lost
  <2> QED BY <2>1, <2>2
<1> QED BY <1>3, <1>4, <1>5

LEMMA GranulesFinite == IsFiniteSet(Granules)
<1>1. IsFiniteSet(0 .. heap_end - MIN_ALIGN)
  BY FS_Interval, HeapBounds
<1>2. Granules \in SUBSET (0 .. heap_end - MIN_ALIGN)
  BY DEF Granules
<1> QED BY <1>1, <1>2, FS_Subset

\* As many granules as fit.
LEMMA FewGranules ==
  ASSUME NEW S, S \subseteq Granules, NEW x \in Nat, NEW y \in Nat, x <= y,
         x % MIN_ALIGN = 0, y % MIN_ALIGN = 0, \A a \in S : x <= a /\ a < y
  PROVE  IsFiniteSet(S) /\ Cardinality(S) \in Nat /\ MIN_ALIGN * Cardinality(S) <= y - x
<1>1. MIN_ALIGN \in Nat \ {0} /\ \A a \in Granules : a \in Int /\ a % MIN_ALIGN = 0
  BY HeapBounds
<1>2. IsFiniteSet(S) /\ Cardinality(S) \in Nat
  BY GranulesFinite, FS_Subset, FS_CardinalityType
<1>3. PICK q \in Int : y - x = MIN_ALIGN * q
  <2>1. x \in Int /\ y \in Int /\ y - x \in Int
    OBVIOUS
  <2>2. (y - x) % MIN_ALIGN = 0
    BY <1>1, <2>1, ModSum
  <2> QED BY <1>1, <2>1, <2>2, ModQuotient
<1>4. q >= 0
  BY <1>1, <1>3
<1>5. \A a \in S : \E j \in 0 .. q - 1 : a = x + MIN_ALIGN * j
  <2> SUFFICES ASSUME NEW a \in S PROVE \E j \in 0 .. q - 1 : a = x + MIN_ALIGN * j
    OBVIOUS
  <2>1. a \in Int /\ a % MIN_ALIGN = 0 /\ x <= a /\ a < y
    BY <1>1
  <2>2. (a - x) % MIN_ALIGN = 0 /\ a - x \in Int
    <3>1. x \in Int /\ a - x \in Int
      BY <2>1
    <3> QED BY <1>1, <2>1, <3>1, ModSum
  <2>3. PICK j \in Int : a - x = MIN_ALIGN * j
    BY <1>1, <2>2, ModQuotient
  <2>4. 0 <= MIN_ALIGN * j /\ MIN_ALIGN * j < MIN_ALIGN * q
    BY <1>3, <2>1, <2>3
  <2>5. 0 <= j
    BY <1>1, <2>4
  <2>6. j < q
    BY <1>1, <2>4
  <2> QED BY <2>1, <2>3, <2>5, <2>6
<1> DEFINE f == [a \in S |-> CHOOSE j \in 0 .. q - 1 : a = x + MIN_ALIGN * j]
<1>6. \A a \in S : f[a] \in 0 .. q - 1 /\ a = x + MIN_ALIGN * f[a]
  BY <1>5
<1>7. f \in [S -> 0 .. q - 1]
  BY <1>6
<1>8. \A a, b \in S : f[a] = f[b] => a = b
  BY <1>6
<1>9. IsFiniteSet(0 .. q - 1) /\ Cardinality(0 .. q - 1) = q
  <2>1. 0 \in Int /\ q - 1 \in Int
    OBVIOUS
  <2>2. /\ IsFiniteSet(0 .. q - 1)
        /\ Cardinality(0 .. q - 1) = IF 0 > q - 1 THEN 0 ELSE (q - 1) - 0 + 1
    BY <2>1, FS_Interval
  <2> QED BY <1>4, <2>2
<1> HIDE DEF f
<1>10. ~(Cardinality(0 .. q - 1) < Cardinality(S))
  <2> SUFFICES ASSUME Cardinality(0 .. q - 1) < Cardinality(S) PROVE FALSE
    OBVIOUS
  <2>1. \E a, b \in S : a # b /\ f[a] = f[b]
    BY <1>2, <1>7, <1>9, FS_PigeonHole
  <2> QED BY <1>8, <2>1
<1>11. PICK c : c = Cardinality(S)
  OBVIOUS
<1>12. c \in Nat /\ c <= q
  BY <1>2, <1>9, <1>10, <1>11
<1>13. MIN_ALIGN * c <= MIN_ALIGN * q
  BY <1>1, <1>12
<1> QED BY <1>2, <1>3, <1>11, <1>13

LEMMA SizeDrops ==
  ASSUME NEW C, NEW D, C \subseteq Granules, D \subseteq Granules, NEW x \in Nat, NEW y \in Nat, x <= y,
         x % MIN_ALIGN = 0, y % MIN_ALIGN = 0, \A a \in C : a \in D \/ (x <= a /\ a < y)
  PROVE  MIN_ALIGN * Cardinality(C) - MIN_ALIGN * Cardinality(D) <= y - x
<1> DEFINE S == C \ D
<1>1. S \subseteq Granules /\ \A a \in S : x <= a /\ a < y
  OBVIOUS
<1>2. IsFiniteSet(S) /\ Cardinality(S) \in Nat /\ MIN_ALIGN * Cardinality(S) <= y - x
  BY <1>1, FewGranules
<1>3. IsFiniteSet(C) /\ IsFiniteSet(D)
  BY GranulesFinite, FS_Subset
<1>4. Cardinality(C) \in Nat /\ Cardinality(D) \in Nat
  BY <1>3, FS_CardinalityType
<1>5. IsFiniteSet(C \cap D) /\ Cardinality(C \cap D) <= Cardinality(D)
  <2>1. C \cap D \in SUBSET D
    OBVIOUS
  <2> QED BY <1>3, <2>1, FS_Subset
<1>6. Cardinality(C \cap D) \in Nat
  BY <1>5, FS_CardinalityType
<1>7. Cardinality(S) = Cardinality(C) - Cardinality(C \cap D)
  BY <1>3, FS_Difference
<1>8. PICK c, d, e, s : c = Cardinality(C) /\ d = Cardinality(D) /\ e = Cardinality(C \cap D) /\ s = Cardinality(S)
  OBVIOUS
<1>9. c \in Nat /\ d \in Nat /\ e \in Nat /\ s \in Nat /\ e <= d /\ s = c - e
  BY <1>2, <1>4, <1>5, <1>6, <1>7, <1>8
<1>10. c <= d + s
  BY <1>9
<1>11. MIN_ALIGN \in Nat /\ MIN_ALIGN * s <= y - x
  BY <1>2, <1>8, HeapBounds
<1>12. MIN_ALIGN * c <= MIN_ALIGN * (d + s)
  BY <1>9, <1>10, <1>11
<1>13. MIN_ALIGN * (d + s) = MIN_ALIGN * d + MIN_ALIGN * s
  BY <1>9, <1>11
<1>14. PICK mc, md, ms : mc = MIN_ALIGN * c /\ md = MIN_ALIGN * d /\ ms = MIN_ALIGN * s
  OBVIOUS
<1>15. mc \in Int /\ md \in Int /\ ms \in Int
  BY <1>9, <1>11, <1>14
<1>16. mc - md <= y - x
  BY <1>11, <1>12, <1>13, <1>14, <1>15
<1> QED BY <1>8, <1>14, <1>16

\* A step that moves neither memory nor locals, and no call to or from a push.
StaysPut ==
  /\ head' = head /\ word0' = word0 /\ word1' = word1 /\ r' = r /\ live' = live /\ bump' = bump
  /\ \A u \in Threads : (Pushing(u)' <=> Pushing(u)) /\ (Carving(u)' <=> Carving(u))

LEMMA SolidsStayPut ==
  ASSUME StaysPut, NEW p \in Solids
  PROVE  p \in Solids'
<1>1. StaysPut
  OBVIOUS
<1>2. CASE \E k, b : k \in Bins /\ FreeBox(k, b, p)
  <2>1. PICK k, b : k \in Bins /\ FreeBox(k, b, p)
    BY <1>2
  <2>2. FreeOf' = FreeOf
    BY <1>1 DEF StaysPut, FreeOf, FreeSet, Walk
  <2>3. b \in FreeOf'[k] /\ p = <<b, b + header_size(At(word0', b))>>
    BY <1>1, <2>1, <2>2 DEF StaysPut, FreeBox
  <2> QED BY <2>1, <2>3, FreeBoxesNext DEF At
<1>3. CASE \E s \in live : SliceBox(s, p)
  <2>1. PICK s \in live' : p = <<BlockOf(s), s.ptr + s.len>>
    BY <1>1, <1>3 DEF StaysPut, SliceBox
  <2> QED BY <2>1, LiveBoxesNext
<1>4. CASE \E u \in Threads : CallBox(u, p)
  <2>1. PICK u \in Threads : CallBox(u, p)
    BY <1>4
  <2>2. CallBox(u, p)'
    BY <1>1, <2>1 DEF StaysPut, CallBox, HoldsSrc, Piece, At, SliceBox
  <2> QED BY <2>2, CallBoxesNext
<1> QED BY <1>2, <1>3, <1>4, SolidIs

\* A verify moves no memory.
LEMMA VerifyStaysPut ==
  ASSUME LInv, NEW t \in Threads, VerifyMagic(t) \/ VerifyPrint(t)
  PROVE  StaysPut
<1> USE DEF Goto, control, memory, client, setup
<1>1. /\ head' = head /\ word0' = word0 /\ word1' = word1 /\ r' = r /\ live' = live /\ bump' = bump
  BY DEF VerifyMagic, VerifyPrint
<1>2. ASSUME NEW u \in Threads
      PROVE  pc'[u] = pc[u] \/ (pc[u] \in {"idle", "verify_print"} /\ pc'[u] \in {"idle", "verify_print"})
  <2>1. DOMAIN pc = Threads
    BY DEF LInv, Shape
  <2> QED BY <2>1 DEF VerifyMagic, VerifyPrint
<1> QED BY <1>1, <1>2 DEF StaysPut, Pushing, Carving

LEMMA VerifyCovers ==
  ASSUME SafeUse, booted, LInv, booted', LockExcludes', NEW own, NEW st, NEW el, NEW n, HInv(own, st, el, n),
         NEW t \in Threads, VerifyMagic(t) \/ VerifyPrint(t), NEW a \in Covered
  PROVE  a \in Covered'
<1>0. StaysPut
  BY VerifyStaysPut
<1>1. /\ head' = head /\ word0' = word0 /\ word1' = word1 /\ r' = r /\ live' = live /\ bump' = bump
      /\ \A u \in Threads : (Pushing(u)' <=> Pushing(u)) /\ (Carving(u)' <=> Carving(u))
  BY <1>0 DEF StaysPut
<1>2. a \in Granules /\ \E p \in Boxes : p[1] <= a /\ a < p[2]
  BY DEF Covered
<1>3. PICK p \in Boxes : p[1] <= a /\ a < p[2]
  BY <1>2
<1>4. CASE p \in Solids
  <2>1. p \in Solids'
    BY <1>0, <1>4, SolidsStayPut
  <2>2. PICK lo, hi : lo = p[1] /\ hi = p[2]
    OBVIOUS
  <2>3. p = <<p[1], p[2]>>
    BY <1>4 DEF Solids
  <2>4. <<lo, hi>> \in Boxes'
    BY <2>1, <2>2, <2>3, OtherBoxesNext
  <2> QED BY <1>2, <1>3, <2>2, <2>4, CoversNext
<1>5. CASE \E u \in Threads : GapBox(u, p)
  <2>1. PICK u \in Threads : GapBox(u, p)
    BY <1>5
  <2>2. PICK lo, hi : lo = r[u].lo /\ hi = r[u].end
    OBVIOUS
  <2>3. lo < hi /\ lo <= a /\ a < hi
    BY <1>3, <2>1, <2>2 DEF GapBox
  <2>4. <<lo, hi>> \in Boxes'
    BY <1>1, <2>2, <2>3, OtherBoxesNext
  <2> QED BY <1>2, <2>3, <2>4, CoversNext
<1>6. CASE BumpBox(p)
  <2>1. PICK x : Brink(x)
    BY AnyBrink DEF LInv
  <2>2. Untouched = IF x < heap_end THEN {Span(<<"bump", 0>>, x, heap_end)} ELSE {}
    BY <2>1, BrinkIs DEF LInv
  <2>3. Brink(x)'
    BY <1>1, <2>1 DEF Brink
  <2>4. Untouched' = IF x < heap_end THEN {Span(<<"bump", 0>>, x, heap_end)} ELSE {}
    BY <2>3, BrinkNext
  <2>5. PICK s \in Untouched : p = <<s.lo, s.hi>>
    BY <1>6 DEF BumpBox
  <2>6. s \in Untouched'
    BY <2>2, <2>4
  <2>7. PICK lo, hi : lo = s.lo /\ hi = s.hi
    OBVIOUS
  <2>8. <<lo, hi>> \in Boxes' /\ lo <= a /\ a < hi
    BY <1>3, <2>5, <2>6, <2>7, OtherBoxesNext
  <2> QED BY <1>2, <2>8, CoversNext
<1> QED BY <1>4, <1>5, <1>6, BoxIs

LEMMA SizeIsCoveredNext == (SizeOfSpans = MIN_ALIGN * Cardinality(Covered))'
BY SizeIsCovered, PTL

LEMMA CoveredGranules == Covered \subseteq Granules /\ Covered' \subseteq Granules
BY DEF Covered

\* Only a sliver can get lost in a step.
LEMMA StepLeaksNothing ==
  ASSUME SafeUse, LInv, HeapInv, HeapInv', LockExcludes', booted, booted', Next,
         \A t \in Threads : HonestPop(t),
         \A t \in Threads : Answered(t) /\ EndAligned(t)
  PROVE  SizeOfSpans - SizeOfSpans' < LNR_FLOOR
<1>1. PICK own, st, el, n : HInv(own, st, el, n)
  BY DEF HeapInv
<1>2. LNR_FLOOR \in Nat \ {0} /\ 0 \in Nat /\ 0 % MIN_ALIGN = 0
  BY GeoConstants, CadAssumption
<1>3. PICK C, D : C = Covered /\ D = Covered'
  OBVIOUS
<1>4. C \subseteq Granules /\ D \subseteq Granules
  BY <1>3, CoveredGranules
<1>5. \E x, y : /\ x \in Nat /\ y \in Nat /\ x % MIN_ALIGN = 0 /\ y % MIN_ALIGN = 0 /\ x <= y /\ y - x < LNR_FLOOR
                /\ \A a \in C : a \in D \/ (x <= a /\ a < y)
  <2>1. CASE \A a \in C : a \in D
    BY <1>2, <2>1
  <2>3. ASSUME NEW t \in Threads, VerifyMagic(t) \/ VerifyPrint(t) PROVE \A a \in C : a \in D
    BY <1>1, <1>3, <2>3, VerifyCovers
  <2>4. ASSUME NEW t \in Threads, Call(t) \/ Step(t)
        PROVE  \E x, y : /\ x \in Nat /\ y \in Nat /\ x % MIN_ALIGN = 0 /\ y % MIN_ALIGN = 0 /\ x <= y /\ y - x < LNR_FLOOR
                         /\ \A a \in C : a \in D \/ (x <= a /\ a < y)
    <3>1. PICK x, y : /\ x \in Nat /\ y \in Nat /\ x % MIN_ALIGN = 0 /\ y % MIN_ALIGN = 0 /\ x <= y /\ y - x < LNR_FLOOR
                      /\ \A a \in Granules : Lost(t, a) => x <= a /\ a < y
      BY <1>1, LostIsASliver
    <3>2. HonestPop(t) /\ Answered(t)
      BY <2>4
    <3>3. \A a \in C : a \in D \/ Lost(t, a)
      BY <1>1, <1>3, <2>4, <3>2, CoveredStays
    <3>4. \A a \in C : a \in D \/ (x <= a /\ a < y)
      BY <1>4, <3>1, <3>3
    <3> QED BY <3>1, <3>4
  <2>5. \/ \E t \in Threads : VerifyMagic(t) \/ VerifyPrint(t)
        \/ \E t \in Threads : Call(t) \/ Step(t)
    <3>1. \A t \in Threads : ~Initialising(t)
      BY DEF LInv, InitAlone
    <3> QED BY <3>1 DEF Next, InitCall, Prepare, InitMagic, InitPrint, InitHead, InitBump, InitLock, Initialising
  <2> QED BY <2>1, <2>3, <2>4, <2>5
<1>6. PICK x, y : /\ x \in Nat /\ y \in Nat /\ x % MIN_ALIGN = 0 /\ y % MIN_ALIGN = 0 /\ x <= y /\ y - x < LNR_FLOOR
                  /\ \A a \in C : a \in D \/ (x <= a /\ a < y)
  BY <1>5
<1>7. MIN_ALIGN * Cardinality(C) - MIN_ALIGN * Cardinality(D) <= y - x
  BY <1>4, <1>6, SizeDrops
<1>8. PICK c, d : c = MIN_ALIGN * Cardinality(C) /\ d = MIN_ALIGN * Cardinality(D)
  OBVIOUS
<1>9. c \in Int /\ d \in Int
  <2>1. IsFiniteSet(C) /\ IsFiniteSet(D)
    BY <1>4, GranulesFinite, FS_Subset
  <2>2. Cardinality(C) \in Nat /\ Cardinality(D) \in Nat
    BY <2>1, FS_CardinalityType
  <2> QED BY <1>8, <2>2, HeapBounds
<1>10. c - d < LNR_FLOOR
  <2>1. c - d <= y - x
    BY <1>7, <1>8
  <2> QED BY <1>2, <1>6, <1>9, <2>1
<1>11. SizeOfSpans = c /\ SizeOfSpans' = d
  BY <1>3, <1>8, SizeIsCovered, SizeIsCoveredNext
<1> QED BY <1>10, <1>11

\* Nothing leaks but slivers: a piece of the heap that could serve a request is
\* at any time free, in use, in the hands of a call, or above the bump pointer.
THEOREM NothingIsLeaked ==
  ASSUME SafeUse
  PROVE  Spec /\ HonestPops => NothingLeaks
<1>1. LInv /\ LInv' /\ HeapInv /\ HeapInv' /\ (\A t \in Threads : Answered(t)) /\ (\A t \in Threads : EndAligned(t))
        /\ [Next]_vars /\ [\A t \in Threads : PopCas(t) => r[t].nxt = At(word1, AddrOf(r[t].old))]_vars
      => [booted => SizeOfSpans - SizeOfSpans' < LNR_FLOOR]_vars
  <2> SUFFICES ASSUME LInv, LInv', HeapInv, HeapInv', \A t \in Threads : Answered(t), \A t \in Threads : EndAligned(t),
                      [Next]_vars, [\A t \in Threads : PopCas(t) => r[t].nxt = At(word1, AddrOf(r[t].old))]_vars,
                      booted, ~UNCHANGED vars
               PROVE  SizeOfSpans - SizeOfSpans' < LNR_FLOOR
    OBVIOUS
  <2>1. Next /\ \A t \in Threads : HonestPop(t)
    BY DEF HonestPop
  <2>2. booted'
    BY <2>1, StepAlone DEF LInv, Next, InitCall, VerifyMagic, Prepare, InitMagic, InitPrint, InitHead, InitBump,
       InitLock, VerifyPrint, client, setup
  <2>3. LockExcludes'
    BY DEF LInv
  <2> QED BY <2>1, <2>2, <2>3, StepLeaksNothing
<1>2. Init => \A t \in Threads : Answered(t)
  BY DEF Init, Answered
<1>3. LInv /\ HeapInv /\ HeapInv' /\ (\A t \in Threads : Answered(t)) /\ [Next]_vars
        => (\A t \in Threads : Answered(t))'
  BY NextAnswered
<1> QED BY <1>1, <1>2, <1>3, EndsStayAligned, HeapInvHolds, LInvHolds, PTL DEF Spec, HonestPops, NothingLeaks

-----------------------------------------------------------------------------
(* HeapInvNow: the four of the invariant, read off the state.              *)

\* Which spans hold granule a, and what OwnNow makes of them.
SpansAt(a) == {s \in Spans : s.lo <= a /\ a < s.hi}

LEMMA OwnNowAt ==
  ASSUME NEW a \in Granules
  PROVE  OwnNow[a] = IF SpansAt(a) = {} THEN LostId ELSE IdOf(CHOOSE s \in SpansAt(a) : TRUE)
BY DEF OwnNow, SpansAt

\* A slice has its two fields and no others.
LEMMA SliceIs ==
  ASSUME NEW x \in SliceSet
  PROVE  x = [ptr |-> x.ptr, len |-> x.len] /\ x.ptr \in Int /\ x.len \in Int
BY DEF SliceSet

\* A span tells its owner.
LEMMA SpanTells ==
  ASSUME NEW own, NEW st, NEW el, NEW n, HInv(own, st, el, n), NEW s, NEW id, SpanOf(s, id)
  PROVE  IdOf(s) = id
<1>1. CASE \E k \in Bins : \E b \in FreeSet(k) :
             id = BinId(k, b) /\ s = Span(<<"bin", k>>, b, b + header_size(At(word0, b)))
  BY <1>1 DEF IdOf, Span
<1>2. CASE \E x \in live : id = LiveId(x) /\ s = SliceSpan(<<"live", 0>>, x)
  <2>1. PICK x \in SliceSet : id = LiveId(x) /\ s = SliceSpan(<<"live", 0>>, x)
    BY <1>2 DEF HInv, Types
  <2>2. x = [ptr |-> x.ptr, len |-> x.len] /\ x.ptr \in Int /\ x.len \in Int
    BY SliceIs
  <2>3. MIN_ALIGN \in Int
    BY CadAssumption, GeoConstants
  <2>4. s.owner = <<"live", 0>> /\ s.lo = x.ptr - MIN_ALIGN /\ s.hi = x.ptr + x.len
    BY <2>1 DEF SliceSpan, Span, BlockOf
  <2>5. s.lo + MIN_ALIGN = x.ptr /\ s.hi - s.lo - MIN_ALIGN = x.len
    BY <2>2, <2>3, <2>4
  <2>6. IdOf(s) = LiveId([ptr |-> s.lo + MIN_ALIGN, len |-> s.hi - s.lo - MIN_ALIGN])
    BY <2>4 DEF IdOf
  <2> QED BY <2>1, <2>2, <2>5, <2>6
<1>3. CASE \E t \in Threads : SpanOfCall(s, id, t)
  <2>1. PICK t \in Threads : SpanOfCall(s, id, t)
    BY <1>3
  <2>2. s.owner = id /\ id[1] \notin {"bin", "live"}
    BY <2>1 DEF SpanOfCall, Span, SliceSpan, BlockId, GapId, PieceId, SrcId, DstId
  <2> QED BY <2>2 DEF IdOf
<1>4. CASE id = BumpId /\ s \in Untouched
  <2>1. s.owner = <<"bump", 0>>
    BY <1>4 DEF Untouched, Span
  <2> QED BY <1>4, <2>1 DEF IdOf, BumpId
<1> QED BY <1>1, <1>2, <1>3, <1>4 DEF SpanOf

\* Every granule that is accounted for has its owner.
LEMMA OwnNowIs ==
  ASSUME NEW own, NEW st, NEW el, NEW n, HInv(own, st, el, n), booted, LInv, NEW a \in Covered
  PROVE  OwnNow[a] = own[a]
<1>1. a \in Granules /\ \E s \in Spans : s.lo <= a /\ a < s.hi
  <2>1. PICK p \in Boxes : p[1] <= a /\ a < p[2]
    BY DEF Covered
  <2>2. PICK s \in Spans : p = <<s.lo, s.hi>>
    BY <2>1 DEF Boxes
  <2> QED BY <2>1, <2>2 DEF Covered
<1>2. SpansAt(a) # {}
  BY <1>1 DEF SpansAt
<1>3. PICK s : s = CHOOSE x \in SpansAt(a) : TRUE
  OBVIOUS
<1>4. s \in Spans /\ s.lo <= a /\ a < s.hi
  BY <1>2, <1>3 DEF SpansAt
<1>5. PICK id : SpanOf(s, id)
  BY <1>4, SpanHasOwner
<1>6. Held(own, st, id, s.lo, s.hi)
  BY <1>5, SpanIsHeld
<1>7. own[a] = id
  BY <1>1, <1>4, <1>6 DEF Held
<1>8. IdOf(s) = id
  BY <1>5, SpanTells
<1>9. OwnNow[a] = IdOf(s)
  BY <1>1, <1>2, <1>3, OwnNowAt
<1> QED BY <1>7, <1>8, <1>9

\* A block starts where a span of one does.
LEMMA StartsAre == \A b : b \in StartsNow <=> \E p \in Solids : b = p[1]
<1> SUFFICES ASSUME NEW b PROVE b \in StartsNow <=> \E p \in Solids : b = p[1]
  OBVIOUS
<1>1. ASSUME b \in StartsNow PROVE \E p \in Solids : b = p[1]
  <2>1. PICK s \in Spans : s.owner[1] \notin {"gap", "bump"} /\ b = s.lo
    BY <1>1 DEF StartsNow
  <2>2. <<s.lo, s.hi>> \in Solids
    BY <2>1 DEF Solids
  <2> QED BY <2>1, <2>2
<1>2. ASSUME NEW p \in Solids, b = p[1] PROVE b \in StartsNow
  <2>1. PICK s \in Spans : s.owner[1] \notin {"gap", "bump"} /\ p = <<s.lo, s.hi>>
    BY DEF Solids
  <2>2. b = s.lo
    BY <1>2, <2>1
  <2> QED BY <2>1, <2>2 DEF StartsNow
<1> QED BY <1>1, <1>2

LEMMA StartsAreStarts ==
  ASSUME NEW own, NEW st, NEW el, NEW n, HInv(own, st, el, n), booted, LInv, NEW b \in StartsNow
  PROVE  b \in st
<1>1. PICK s \in Spans : s.owner[1] \notin {"gap", "bump"} /\ b = s.lo
  BY DEF StartsNow
<1>2. PICK id : SpanOf(s, id)
  BY <1>1, SpanHasOwner
<1>3. CASE \E k \in Bins : \E c \in FreeSet(k) :
             id = BinId(k, c) /\ s = Span(<<"bin", k>>, c, c + header_size(At(word0, c)))
  <2>1. PICK k \in Bins : \E c \in FreeSet(k) : s = Span(<<"bin", k>>, c, c + header_size(At(word0, c)))
    BY <1>3
  <2>3. PICK c \in FreeSet(k) : s = Span(<<"bin", k>>, c, c + header_size(At(word0, c)))
    BY <2>1
  <2>2. c \in st
    BY <2>3, FreeBlockFacts DEF Block
  <2> QED BY <1>1, <2>3, <2>2 DEF Span
<1>4. CASE \E x \in live : id = LiveId(x) /\ s = SliceSpan(<<"live", 0>>, x)
  <2>1. PICK x \in live : s = SliceSpan(<<"live", 0>>, x)
    BY <1>4
  <2>2. BlockOf(x) \in st
    BY <2>1 DEF HInv, LiveSlices, SliceHeld, UsedBlock, Block
  <2> QED BY <1>1, <2>1, <2>2 DEF Span, SliceSpan
<1>5. CASE \E t \in Threads : SpanOfCall(s, id, t)
  <2>1. PICK t \in Threads : SpanOfCall(s, id, t)
    BY <1>5
  <2>2. Hands(own, st, t) /\ Moving(own, st, t)
    BY <2>1 DEF HInv, Thread
  <2>3. CASE r[t].blk # 0 /\ s = Span(<<"block", t>>, r[t].blk, r[t].top)
    BY <1>1, <2>2, <2>3 DEF Hands, Block, Span
  <2>4. CASE s = Span(<<"gap", t>>, r[t].lo, r[t].end)
    BY <1>1, <2>4 DEF Span
  <2>5. CASE /\ Pushing(t) /\ r[t].job # "free"
             /\ s = Span(<<"piece", t>>, Piece(t), Piece(t) + header_size(At(word0, Piece(t))))
    BY <1>1, <2>2, <2>5 DEF Moving, FreeBlock, Block, Span
  <2>6. CASE HoldsSrc(t) /\ s = SliceSpan(<<"src", t>>, r[t].src)
    BY <1>1, <2>2, <2>6 DEF Hands, SliceHeld, UsedBlock, Block, Span, SliceSpan
  <2>7. CASE r[t].dst.ptr # 0 /\ s = SliceSpan(<<"dst", t>>, r[t].dst)
    BY <1>1, <2>2, <2>7 DEF Hands, SliceHeld, UsedBlock, Block, Span, SliceSpan
  <2> QED BY <2>1, <2>3, <2>4, <2>5, <2>6, <2>7 DEF SpanOfCall
<1>6. CASE id = BumpId /\ s \in Untouched
  BY <1>1, <1>6 DEF Untouched, Span
<1> QED BY <1>2, <1>3, <1>4, <1>5, <1>6 DEF SpanOf

\* The list of a bin: its length and its blocks, from the last one up.
LEMMA ListNowIs ==
  ASSUME NEW own, NEW st, NEW el, NEW n, HInv(own, st, el, n), NEW k \in Bins
  PROVE  CountNow[k] = n[k] /\ \A i \in 0 .. n[k] : ListNow[k][i] = el[k][i]
<1>1. PICK m \in Nat : m = n[k]
  BY DEF HInv, Types
<1>2. PICK f : f = el[k]
  OBVIOUS
<1>3. f[0] = 0 /\ \A i \in 1 .. m : f[i] # 0
  <2>1. Lists(own, st, el, n) /\ st \subseteq Granules \ {0}
    BY DEF HInv, Types
  <2>2. f[0] = 0
    BY <1>2, <2>1 DEF Lists
  <2>3. ASSUME NEW i \in 1 .. m PROVE f[i] # 0
    <3>1. f[i] \in st
      BY <1>1, <1>2, <2>1 DEF Lists, FreeBlock, Block
    <3> QED BY <2>1, <3>1
  <2> QED BY <2>2, <2>3
<1>4. PICK w : w = Walk(k)
  OBVIOUS
<1>5. w = [j \in 1 .. m + 1 |-> f[m + 1 - j]]
  BY <1>1, <1>2, <1>4, WalkIs
<1>6. \A j \in 1 .. m + 1 : w[j] = f[m + 1 - j] /\ f[m + 1 - j] \in Int
  BY <1>1, <1>2, <1>5 DEF HInv, Types
<1>7. w \in Seq(Int) /\ Len(w) = m + 1
  <2>1. m + 1 \in Nat /\ DOMAIN w = 1 .. m + 1
    BY <1>5
  <2>2. \A j \in 1 .. m + 1 : w[j] \in Int
    BY <1>6
  <2>3. w = [j \in 1 .. m + 1 |-> w[j]]
    BY <1>5, <1>6
  <2> QED BY <2>1, <2>2, <2>3, SeqOf
<1>8. w[Len(w)] = 0
  BY <1>3, <1>6, <1>7
<1>9. PICK q : q = FreeSeq(k)
  OBVIOUS
<1>10. q = SubSeq(w, 1, m)
  BY <1>4, <1>7, <1>8, <1>9 DEF FreeSeq
<1>11. Len(q) = m /\ \A j \in 1 .. m : q[j] = w[j]
  BY <1>7, <1>10
<1>12. CountNow[k] = m
  BY <1>9, <1>11 DEF CountNow
<1>13. ListNow[k] = [i \in 0 .. m |-> IF i = 0 THEN 0 ELSE q[m + 1 - i]]
  BY <1>9, <1>11 DEF ListNow, FromTheEnd
<1>14. ASSUME NEW i \in 0 .. m PROVE ListNow[k][i] = f[i]
  <2>1. CASE i = 0
    BY <1>3, <1>13, <2>1
  <2>2. CASE i # 0
    <3>1. m + 1 - i \in 1 .. m /\ m + 1 - (m + 1 - i) = i /\ m + 1 - i \in 1 .. m + 1
      BY <2>2
    <3>2. ListNow[k][i] = q[m + 1 - i]
      BY <1>13, <2>2
    <3>3. q[m + 1 - i] = w[m + 1 - i]
      BY <1>11, <3>1
    <3>4. w[m + 1 - i] = f[i]
      BY <1>6, <3>1
    <3> QED BY <3>2, <3>3, <3>4
  <2> QED BY <2>1, <2>2
<1> QED BY <1>1, <1>2, <1>12, <1>14

(* Four that agree with those of the invariant where the state says so.    *)
Agrees(own, st, el, n, own2, st2, el2, n2) ==
  /\ \A a \in Covered : own2[a] = own[a]
  /\ st2 \subseteq st
  /\ \A p \in Solids : p[1] \in st2
  /\ \A k \in Bins : n2[k] = n[k] /\ \A i \in 0 .. n[k] : el2[k][i] = el[k][i]

LEMMA BoxHeld ==
  ASSUME NEW own, NEW st, NEW el, NEW n, NEW own2, NEW st2, NEW el2, NEW n2,
         Agrees(own, st, el, n, own2, st2, el2, n2),
         NEW id, NEW lo, NEW hi, Held(own, st, id, lo, hi), <<lo, hi>> \in Boxes
  PROVE  Held(own2, st2, id, lo, hi)
<1>1. ASSUME NEW a \in Granules, lo <= a, a < hi
      PROVE  own2[a] = id /\ (a # lo => a \notin st2)
  <2>1. a \in Covered
    <3>1. <<lo, hi>>[1] = lo /\ <<lo, hi>>[2] = hi
      OBVIOUS
    <3> QED BY <1>1, <3>1 DEF Covered
  <2>2. own[a] = id /\ (a # lo => a \notin st)
    BY <1>1 DEF Held
  <2> QED BY <2>1, <2>2 DEF Agrees
<1> QED BY <1>1 DEF Held

LEMMA BoxBlock ==
  ASSUME NEW own, NEW st, NEW el, NEW n, NEW own2, NEW st2, NEW el2, NEW n2,
         Agrees(own, st, el, n, own2, st2, el2, n2),
         NEW id, NEW lo, NEW hi, Block(own, st, id, lo, hi), <<lo, hi>> \in Solids
  PROVE  Block(own2, st2, id, lo, hi)
<1>1. <<lo, hi>> \in Boxes /\ <<lo, hi>>[1] = lo
  BY OtherBoxes
<1>2. lo \in st2
  BY <1>1 DEF Agrees
<1> QED BY <1>1, <1>2, BoxHeld DEF Block

LEMMA BoxFree ==
  ASSUME NEW own, NEW st, NEW el, NEW n, NEW own2, NEW st2, NEW el2, NEW n2,
         Agrees(own, st, el, n, own2, st2, el2, n2),
         NEW id, NEW k, NEW b, FreeBlock(own, st, id, k, b),
         <<b, b + header_size(word0[b])>> \in Solids
  PROVE  FreeBlock(own2, st2, id, k, b)
<1>1. Block(own2, st2, id, b, b + header_size(word0[b]))
  BY BoxBlock DEF FreeBlock
<1> QED BY <1>1 DEF FreeBlock

LEMMA BoxSlice ==
  ASSUME NEW own, NEW st, NEW el, NEW n, NEW own2, NEW st2, NEW el2, NEW n2,
         Agrees(own, st, el, n, own2, st2, el2, n2),
         NEW id, NEW s \in SliceSet, SliceHeld(own, st, id, s),
         <<BlockOf(s), s.ptr + s.len>> \in Solids
  PROVE  SliceHeld(own2, st2, id, s)
<1>1. BlockOf(s) + (s.len + MIN_ALIGN) = s.ptr + s.len
  <2>1. s.ptr \in Int /\ s.len \in Int /\ MIN_ALIGN \in Int
    BY CadAssumption, GeoConstants DEF SliceSet
  <2> QED BY <2>1 DEF BlockOf
<1>2. Block(own2, st2, id, BlockOf(s), BlockOf(s) + (s.len + MIN_ALIGN))
  BY <1>1, BoxBlock DEF SliceHeld, UsedBlock
<1> QED BY <1>2 DEF SliceHeld, UsedBlock

-----------------------------------------------------------------------------
\* The shared state.
LEMMA ListsAgree ==
  ASSUME NEW own, NEW st, NEW el, NEW n, HInv(own, st, el, n),
         NEW own2, NEW st2, NEW el2, NEW n2, Agrees(own, st, el, n, own2, st2, el2, n2)
  PROVE  Lists(own2, st2, el2, n2)
<1>1. Lists(own, st, el, n) /\ n \in [Bins -> Nat]
  BY DEF HInv, Types
<1>2. \A k \in Bins : n2[k] = n[k] /\ \A i \in 0 .. n[k] : el2[k][i] = el[k][i]
  BY DEF Agrees
<1>3. ASSUME NEW k \in Bins
      PROVE  el2[k][0] = 0 /\ AddrOf(head[k]) = el2[k][n2[k]]
  <2>1. 0 \in 0 .. n[k] /\ n[k] \in 0 .. n[k]
    BY <1>1
  <2> QED BY <1>1, <1>2, <2>1 DEF Lists
<1>4. head[oversize_bin] = el2[oversize_bin][n2[oversize_bin]]
  <2>1. oversize_bin \in Bins
    BY OverHead
  <2>2. n[oversize_bin] \in 0 .. n[oversize_bin]
    BY <1>1, <2>1
  <2> QED BY <1>1, <1>2, <2>1, <2>2 DEF Lists
<1>5. ASSUME NEW k \in Bins, NEW i \in 1 .. n2[k]
      PROVE  /\ FreeBlock(own2, st2, BinId(k, el2[k][i]), k, el2[k][i])
             /\ word1[el2[k][i]] = el2[k][i - 1]
             /\ \A j \in 1 .. n2[k] : el2[k][i] = el2[k][j] => i = j
  <2>1. PICK m \in Nat : m = n[k]
    BY <1>1
  <2>2. i \in 1 .. m /\ i \in 0 .. m /\ i - 1 \in 0 .. m /\ \A j \in 1 .. m : j \in 0 .. m
    BY <1>2, <1>5, <2>1
  <2>3. PICK b : b = el[k][i]
    OBVIOUS
  <2>4. b = el2[k][i] /\ el2[k][i - 1] = el[k][i - 1]
    BY <1>2, <2>1, <2>2, <2>3
  <2>5. FreeBlock(own, st, BinId(k, b), k, b) /\ word1[b] = el[k][i - 1]
    BY <1>1, <2>1, <2>2, <2>3 DEF Lists
  <2>6. b \in FreeOf[k]
    BY <2>1, <2>2, <2>3, FreeOfIs
  <2>7. <<b, b + header_size(word0[b])>> \in Solids
    <3>1. At(word0, b) = word0[b]
      BY <2>6, FreeBlockFacts DEF FreeOf
    <3>2. <<b, b + header_size(At(word0, b))>> \in Solids
      BY <2>6, FreeBoxes
    <3> QED BY <3>1, <3>2
  <2>8. FreeBlock(own2, st2, BinId(k, b), k, b)
    BY <2>5, <2>7, BoxFree
  <2>9. \A j \in 1 .. m : el2[k][i] = el2[k][j] => i = j
    BY <1>1, <1>2, <2>1, <2>2, <2>3, <2>4 DEF Lists
  <2> QED BY <1>2, <2>1, <2>4, <2>5, <2>8, <2>9
<1> QED BY <1>3, <1>4, <1>5 DEF Lists

LEMMA LiveAgree ==
  ASSUME NEW own, NEW st, NEW el, NEW n, HInv(own, st, el, n),
         NEW own2, NEW st2, NEW el2, NEW n2, Agrees(own, st, el, n, own2, st2, el2, n2)
  PROVE  LiveSlices(own2, st2)
<1>1. ASSUME NEW s \in live PROVE SliceHeld(own2, st2, LiveId(s), s)
  <2>1. s \in SliceSet /\ SliceHeld(own, st, LiveId(s), s)
    BY DEF HInv, Types, LiveSlices
  <2>2. <<BlockOf(s), s.ptr + s.len>> \in Solids
    BY LiveBoxes
  <2> QED BY <2>1, <2>2, BoxSlice
<1> QED BY <1>1 DEF LiveSlices

LEMMA RoomAgrees ==
  ASSUME NEW own, NEW st, NEW el, NEW n, HInv(own, st, el, n), booted, LInv,
         NEW own2, NEW st2, NEW el2, NEW n2, Agrees(own, st, el, n, own2, st2, el2, n2)
  PROVE  Room(own2, st2)
<1>1. Room(own, st)
  BY DEF HInv
<1>2. ASSUME NEW a \in Granules, bump <= a, \A t \in Threads : Carving(t) => r[t].top <= a
      PROVE  own2[a] = BumpId /\ a \notin st2
  <2>1. own[a] = BumpId /\ a \notin st
    BY <1>1, <1>2 DEF Room
  <2>2. LockExcludes
    BY DEF LInv
  <2>3. PICK x : Brink(x)
    BY <2>2, AnyBrink
  <2>4. x <= a
    BY <1>2, <2>3 DEF Brink
  <2>5. a \in Int /\ heap_end \in Int /\ a < heap_end /\ x \in Int
    <3>1. a \in Nat /\ heap_end \in Nat /\ a < heap_end
      BY HeapBounds, CadAssumption, GeoConstants DEF Granules
    <3>2. bump \in Int
      BY <1>1 DEF Room
    <3>3. \A t \in Threads : r[t].top \in Int
      BY DEF HInv, Types, Typed
    <3> QED BY <2>3, <3>1, <3>2, <3>3 DEF Brink
  <2>6. Span(<<"bump", 0>>, x, heap_end) \in Untouched
    BY <2>2, <2>3, <2>4, <2>5, BrinkIs
  <2>7. <<x, heap_end>> \in Boxes
    BY <2>6, OtherBoxes DEF Span
  <2>8. a \in Covered
    <3>1. <<x, heap_end>>[1] = x /\ <<x, heap_end>>[2] = heap_end
      OBVIOUS
    <3> QED BY <2>4, <2>5, <2>7, <3>1 DEF Covered
  <2> QED BY <2>1, <2>8 DEF Agrees
<1> QED BY <1>1, <1>2 DEF Room

-----------------------------------------------------------------------------
\* A call.
LEMMA HandsAgree ==
  ASSUME NEW own, NEW st, NEW el, NEW n, HInv(own, st, el, n),
         NEW own2, NEW st2, NEW el2, NEW n2, Agrees(own, st, el, n, own2, st2, el2, n2),
         NEW t \in Threads
  PROVE  Hands(own2, st2, t)
<1>1. Hands(own, st, t) /\ r[t].src \in SliceSet /\ r[t].dst \in SliceSet
  BY DEF HInv, Thread, Types, Typed
<1>2. HoldsSrc(t) => SliceHeld(own2, st2, SrcId(t), r[t].src)
  <2>1. SUFFICES ASSUME HoldsSrc(t) PROVE SliceHeld(own2, st2, SrcId(t), r[t].src)
    OBVIOUS
  <2>2. PICK s \in SliceSet : s = r[t].src
    BY <1>1
  <2>3. CallBox(t, <<BlockOf(s), s.ptr + s.len>>)
    BY <2>1, <2>2 DEF CallBox, SliceBox
  <2>4. <<BlockOf(s), s.ptr + s.len>> \in Solids
    BY <2>3, CallBoxes
  <2>5. SliceHeld(own, st, SrcId(t), s)
    BY <1>1, <2>1, <2>2 DEF Hands
  <2> QED BY <2>2, <2>4, <2>5, BoxSlice
<1>3. r[t].dst.ptr # 0 => SliceHeld(own2, st2, DstId(t), r[t].dst)
  <2>1. SUFFICES ASSUME r[t].dst.ptr # 0 PROVE SliceHeld(own2, st2, DstId(t), r[t].dst)
    OBVIOUS
  <2>2. PICK s \in SliceSet : s = r[t].dst
    BY <1>1
  <2>3. CallBox(t, <<BlockOf(s), s.ptr + s.len>>)
    BY <2>1, <2>2 DEF CallBox, SliceBox
  <2>4. <<BlockOf(s), s.ptr + s.len>> \in Solids
    BY <2>3, CallBoxes
  <2>5. SliceHeld(own, st, DstId(t), s)
    BY <1>1, <2>1, <2>2 DEF Hands
  <2> QED BY <2>2, <2>4, <2>5, BoxSlice
<1>4. r[t].blk # 0 => Block(own2, st2, BlockId(t), r[t].blk, r[t].top)
  <2>1. SUFFICES ASSUME r[t].blk # 0 PROVE Block(own2, st2, BlockId(t), r[t].blk, r[t].top)
    OBVIOUS
  <2>2. CallBox(t, <<r[t].blk, r[t].top>>)
    BY <2>1 DEF CallBox
  <2>3. PICK b : b = r[t].blk
    OBVIOUS
  <2>4. PICK top : top = r[t].top
    OBVIOUS
  <2>5. <<b, top>> \in Solids /\ Block(own, st, BlockId(t), b, top)
    BY <1>1, <2>1, <2>2, <2>3, <2>4, CallBoxes DEF Hands
  <2>6. Block(own2, st2, BlockId(t), b, top)
    BY <2>5, BoxBlock
  <2> QED BY <2>3, <2>4, <2>6
<1>5. Carving(t) /\ r[t].lo < r[t].end => Held(own2, st2, GapId(t), r[t].lo, r[t].end)
  <2>1. SUFFICES ASSUME Carving(t), r[t].lo < r[t].end
                 PROVE  Held(own2, st2, GapId(t), r[t].lo, r[t].end)
    OBVIOUS
  <2>2. PICK lo : lo = r[t].lo
    OBVIOUS
  <2>3. PICK end : end = r[t].end
    OBVIOUS
  <2>4. <<lo, end>> \in Boxes /\ Held(own, st, GapId(t), lo, end)
    BY <1>1, <2>1, <2>2, <2>3, OtherBoxes DEF Hands
  <2>5. Held(own2, st2, GapId(t), lo, end)
    BY <2>4, BoxHeld
  <2> QED BY <2>2, <2>3, <2>5
<1> QED BY <1>1, <1>2, <1>3, <1>4, <1>5 DEF Hands

LEMMA MovingAgrees ==
  ASSUME NEW own, NEW st, NEW el, NEW n, HInv(own, st, el, n),
         NEW own2, NEW st2, NEW el2, NEW n2, Agrees(own, st, el, n, own2, st2, el2, n2),
         NEW t \in Threads, pc[t] \in {"pop_next", "pop_cas"} => AddrOf(r[t].old) \in st2
  PROVE  Moving(own2, st2, t)
<1>1. Moving(own, st, t) /\ Place(t)
  BY DEF HInv, Thread
<1>2. ASSUME Pushing(t) PROVE FreeBlock(own2, st2, PushId(t), r[t].bin, Piece(t))
  <2>1. PICK b : b = Piece(t)
    OBVIOUS
  <2>2. FreeBlock(own, st, PushId(t), r[t].bin, b)
    BY <1>1, <1>2, <2>1 DEF Moving
  <2>3. <<b, b + header_size(word0[b])>> \in Solids
    <3>1. CASE r[t].job = "free"
      <4>1. b = r[t].blk
        BY <2>1, <3>1 DEF Piece
      <4>2. Freeing(t) /\ pc[t] # "free_stamp"
        BY <1>1, <1>2, <3>1 DEF Place, Pushing
      <4>3. header_size(word0[b]) = InHand(t)
        <5>1. PICK size \in Nat : size = InHand(t)
          BY <4>2 DEF Freeing, Valid
        <5>0. r[t].blk \in Int
          BY DEF HInv, Types, Typed
        <5>2. size % 16 = 0
          BY <4>2, <5>1, <5>0, CadAssumption, ValidFacts DEF Freeing
        <5>3. word0[b] = pack(size, FREE)
          BY <4>1, <4>2, <5>1 DEF Freeing
        <5> QED BY <5>1, <5>2, <5>3, HeaderFacts
      <4>4. b + header_size(word0[b]) = r[t].top
        <5>1. Hands(own, st, t) /\ Typed(r[t])
          BY DEF HInv, Thread, Types
        <5>2. r[t].blk # 0
          BY <4>2 DEF Freeing
        <5> QED BY <4>1, <4>3, <5>1, <5>2, InHandFacts
      <4>5. CallBox(t, <<b, b + header_size(word0[b])>>)
        BY <4>1, <4>2, <4>4 DEF CallBox, Freeing
      <4> QED BY <4>5, CallBoxes
    <3>2. CASE r[t].job # "free"
      <4>1. b \in Granules
        BY <2>2, HeldFacts DEF FreeBlock, Block, Valid
      <4>2. At(word0, b) = word0[b]
        BY <4>1 DEF At
      <4>3. CallBox(t, <<b, b + header_size(At(word0, b))>>)
        BY <1>2, <2>1, <3>2 DEF CallBox
      <4> QED BY <4>2, <4>3, CallBoxes
    <3> QED BY <3>1, <3>2
  <2>4. PICK k : k = r[t].bin
    OBVIOUS
  <2>5. PICK id : id = PushId(t)
    OBVIOUS
  <2>6. FreeBlock(own2, st2, id, k, b)
    BY <2>2, <2>3, <2>4, <2>5, BoxFree
  <2> QED BY <2>1, <2>4, <2>5, <2>6
<1> QED BY <1>1, <1>2 DEF Moving

LEMMA WalkAgrees ==
  ASSUME NEW own, NEW st, NEW el, NEW n, HInv(own, st, el, n),
         NEW own2, NEW st2, NEW el2, NEW n2, Agrees(own, st, el, n, own2, st2, el2, n2),
         NEW t \in Threads
  PROVE  Fitting(el2, n2, t) /\ Failing(el2, n2, t)
<1>1. Fitting(el, n, t) /\ Failing(el, n, t) /\ n \in [Bins -> Nat]
  BY DEF HInv, Thread, Types
<1>2. PICK k \in Bins : k = oversize_bin
  BY OverHead
<1>3. PICK m \in Nat : m = n[k]
  BY <1>1
<1>4. PICK f : f = el[k]
  OBVIOUS
<1>5. PICK g : g = el2[k]
  OBVIOUS
<1>6. n2[k] = m /\ \A i \in 0 .. m : g[i] = f[i]
  BY <1>3, <1>4, <1>5 DEF Agrees
<1>7. Fitting(el2, n2, t)
  <2>1. SUFFICES ASSUME pc[t] = "fit"
                 PROVE  \E j \in 0 .. m :
                          /\ r[t].cur = g[j]
                          /\ r[t].prev = IF j = m THEN 0 ELSE g[j + 1]
                          /\ \A i \in j + 1 .. m : header_size(word0[g[i]]) < Target(t)
    BY <1>2, <1>5, <1>6 DEF Fitting
  <2>2. PICK j \in 0 .. m :
          /\ r[t].cur = f[j]
          /\ r[t].prev = IF j = m THEN 0 ELSE f[j + 1]
          /\ \A i \in j + 1 .. m : header_size(word0[f[i]]) < Target(t)
    BY <1>1, <1>2, <1>3, <1>4, <2>1 DEF Fitting
  <2>3. g[j] = f[j] /\ (j # m => g[j + 1] = f[j + 1]) /\ \A i \in j + 1 .. m : g[i] = f[i]
    <3>1. (j # m => j + 1 \in 0 .. m) /\ \A i \in j + 1 .. m : i \in 0 .. m
      OBVIOUS
    <3> QED BY <1>6, <3>1
  <2>4. r[t].cur = g[j] /\ r[t].prev = IF j = m THEN 0 ELSE g[j + 1]
    BY <2>2, <2>3
  <2>5. \A i \in j + 1 .. m : header_size(word0[g[i]]) < Target(t)
    BY <2>2, <2>3
  <2> QED BY <2>4, <2>5
<1>8. Failing(el2, n2, t)
  <2>1. SUFFICES ASSUME pc[t] = "unlock", r[t].blk = 0, r[t].job \in {"slow", "over"}
                 PROVE  /\ align_up(bump, IF r[t].job = "over" THEN EXP_CEIL ELSE align_of_bin(r[t].bin)) + Target(t)
                             > heap_end
                        /\ r[t].job = "over" => \A i \in 1 .. m : header_size(word0[g[i]]) < Target(t)
    BY <1>2, <1>5, <1>6 DEF Failing
  <2>2. /\ align_up(bump, IF r[t].job = "over" THEN EXP_CEIL ELSE align_of_bin(r[t].bin)) + Target(t)
             > heap_end
        /\ r[t].job = "over" => \A i \in 1 .. m : header_size(word0[f[i]]) < Target(t)
    BY <1>1, <1>2, <1>3, <1>4, <2>1 DEF Failing
  <2>3. \A i \in 1 .. m : g[i] = f[i]
    <3>1. \A i \in 1 .. m : i \in 0 .. m
      OBVIOUS
    <3> QED BY <1>6, <3>1
  <2>4. r[t].job = "over" => \A i \in 1 .. m : header_size(word0[g[i]]) < Target(t)
    BY <2>2, <2>3
  <2> QED BY <2>2, <2>4
<1> QED BY <1>7, <1>8

\* So everything the invariant says can be read off the state.
LEMMA AllAgree ==
  ASSUME NEW own, NEW st, NEW el, NEW n, HInv(own, st, el, n), booted, LInv,
         NEW own2, NEW st2, NEW el2, NEW n2, Agrees(own, st, el, n, own2, st2, el2, n2),
         \A t \in Threads : pc[t] \in {"pop_next", "pop_cas"} => AddrOf(r[t].old) \in st2
  PROVE  /\ head \in [Bins -> Nat] /\ st2 \subseteq Granules \ {0}
         /\ Lists(own2, st2, el2, n2) /\ LiveSlices(own2, st2) /\ Room(own2, st2)
         /\ \A t \in Threads : Thread(own2, st2, el2, n2, t)
<1>1. head \in [Bins -> Nat] /\ st2 \subseteq Granules \ {0}
  BY DEF HInv, Types, Agrees
<1>2. Lists(own2, st2, el2, n2) /\ LiveSlices(own2, st2) /\ Room(own2, st2)
  BY ListsAgree, LiveAgree, RoomAgrees
<1>3. ASSUME NEW t \in Threads PROVE Thread(own2, st2, el2, n2, t)
  <2>1. Place(t)
    BY DEF HInv, Thread
  <2>2. Hands(own2, st2, t)
    BY HandsAgree
  <2>3. Moving(own2, st2, t)
    BY MovingAgrees
  <2>4. Fitting(el2, n2, t) /\ Failing(el2, n2, t)
    BY WalkAgrees
  <2> QED BY <2>1, <2>2, <2>3, <2>4 DEF Thread
<1> QED BY <1>1, <1>2, <1>3

-----------------------------------------------------------------------------
(* What a pop has loaded is where a block starts, and one goes on starting *)
(* there: also for the blocks the state shows.                             *)

Speculating(t) == pc[t] \in {"pop_next", "pop_cas"} => AddrOf(r[t].old) \in StartsNow

LEMMA StartsAreNext == (\A b : b \in StartsNow <=> \E p \in Solids : b = p[1])'
BY StartsAre, PTL

\* Wherever a block starts, one starts after the step.
LEMMA StartsStay ==
  ASSUME SafeUse, NEW own, NEW st, NEW el, NEW n, HInv(own, st, el, n), booted, LInv,
         booted', HeapInv', NEW t \in Threads, Call(t) \/ Step(t), HonestPop(t), Answered(t),
         NEW b \in StartsNow
  PROVE  b \in StartsNow'
<1>1. PICK p \in Solids : b = p[1]
  BY StartsAre
<1>2. CASE p \in Solids'
  BY <1>1, <1>2, StartsAreNext
<1>3. CASE SplitOf(t, p)
  <2>1. r'[t].blk = r[t].blk /\ r[t].blk # 0
    <3>1. Typed(r[t]) /\ DOMAIN r = Threads /\ Place(t)
      BY Here
    <3>2. r[t].blk # 0
      BY <1>3, <3>1 DEF SplitOf, Place, SplitBlock, SplitCarve, SplitDone
    <3>3. CASE SplitCarve(t)
      BY <3>1, <3>3, Fields DEF SplitCarve, Typed
    <3>4. CASE SplitDone(t)
      <4>1. PICK v : v = r[t].blk + Retained(t)
        OBVIOUS
      <4>2. r' = [r EXCEPT ![t].top = v, ![t].iter = 0]
        BY <3>4, <4>1 DEF SplitDone
      <4>3. r'[t].blk = r[t].blk
        BY <3>1, <4>2, Fields DEF Typed
      <4> QED BY <3>2, <4>3
    <3> QED BY <1>3, <3>2, <3>3, <3>4 DEF SplitOf
  <2>2. PICK c : c = r[t].blk
    OBVIOUS
  <2>3. PICK top : top = r'[t].top
    OBVIOUS
  <2>4. <<c, top>> \in Solids'
    BY <2>1, <2>2, <2>3, HandBoxesNext
  <2>5. b = c /\ <<c, top>>[1] = c
    BY <1>1, <1>3, <2>2 DEF SplitOf
  <2> QED BY <2>4, <2>5, StartsAreNext
<1> QED BY <1>1, <1>2, <1>3, SolidStays

\* A list starts with a block.
LEMMA HeadStarts ==
  ASSUME NEW own, NEW st, NEW el, NEW n, HInv(own, st, el, n), NEW k \in Bins, AddrOf(head[k]) # 0
  PROVE  AddrOf(head[k]) \in StartsNow
<1>1. PICK m \in Nat : m = n[k]
  BY DEF HInv, Types
<1>2. PICK f : f = el[k]
  OBVIOUS
<1>3. f[0] = 0 /\ AddrOf(head[k]) = f[m]
  BY <1>1, <1>2 DEF HInv, Lists
<1>4. m # 0
  BY <1>3
<1>5. m \in 1 .. m
  BY <1>4
<1>6. f[m] \in FreeOf[k]
  BY <1>1, <1>2, <1>5, FreeOfIs
<1>7. PICK p : p = <<f[m], f[m] + header_size(At(word0, f[m]))>>
  OBVIOUS
<1>8. p \in Solids /\ f[m] = p[1]
  BY <1>6, <1>7, FreeBoxes
<1> QED BY <1>3, <1>8, StartsAre

\* Where a pop in progress got its address.
LEMMA PopsGoOn ==
  ASSUME LInv, NEW t \in Threads, JobInPlace(t), Typed(r[t]), Call(t) \/ Step(t),
         pc'[t] \in {"pop_next", "pop_cas"}
  PROVE  PopLoad(t) \/ (pc[t] = "pop_next" /\ r'[t].old = r[t].old)
<1> USE DEF Goto
<1>1. DOMAIN pc = Threads /\ DOMAIN r = Threads
  BY DEF LInv, Shape
<1>2. CASE Call(t)
  BY <1>1, <1>2 DEF Call, AllocCall, FreeCall, FreeAgain, ReallocCall, AllocEntry
<1>3. CASE Step(t)
  <2>1. CASE PopLoad(t) BY <2>1
  <2>2. CASE PopNext(t) BY <1>1, <2>2, Fields DEF PopNext, Typed
  <2>3. CASE Lock(t) BY <1>1, <2>3 DEF Lock, JobInPlace
  <2>4. CASE Unlock(t) BY <1>1, <2>4 DEF Unlock
  <2>5. CASE PushCas(t) BY <1>1, <2>5 DEF PushCas, AfterPush
  <2>6. CASE PushLoad(t) \/ PushStore(t) \/ PushRetry(t) \/ PopEmpty(t) \/ PopRetry(t)
    BY <1>1, <2>6 DEF PushLoad, PushStore, PushRetry, PopEmpty, PopRetry
  <2>7. CASE PopCas(t) \/ Stamp(t) \/ Got(t) \/ RefillFixed(t) \/ RefillOversize(t) \/ Bump(t)
    BY <1>1, <2>7 DEF PopCas, Stamp, Got, AfterGot, RefillFixed, RefillOversize, Refill, Bump
  <2>8. CASE CarveGap(t) \/ FitHead(t) \/ FitSkip(t) \/ FitTake(t) \/ OverStamp(t)
    BY <1>1, <2>8 DEF CarveGap, Release, FitHead, FitSkip, FitTake, OverStamp
  <2>9. CASE SplitCarve(t) \/ SplitDone(t) \/ ReallocKeep(t) \/ ReallocShrink(t) \/ ReallocGrow(t)
    <3>1. CASE ReallocGrow(t)
      <4>1. AllocEntry(r[t].size) \in {"lock", "pop_load"}
        BY DEF AllocEntry
      <4> QED BY <1>1, <3>1, <4>1 DEF ReallocGrow
    <3>2. CASE SplitCarve(t) BY <1>1, <3>2 DEF SplitCarve, Release
    <3>3. CASE SplitDone(t) BY <1>1, <3>3 DEF SplitDone
    <3>4. CASE ReallocKeep(t) \/ ReallocShrink(t) BY <1>1, <3>4 DEF ReallocKeep, ReallocShrink
    <3> QED BY <2>9, <3>1, <3>2, <3>3, <3>4
  <2>10. CASE Copy(t) \/ FreeLoad(t) \/ FreeStamp(t) \/ OverPush(t) \/ Return(t)
    BY <1>1, <2>10 DEF Copy, FreeLoad, FreeStamp, FreeEntry, OverPush, Return
  <2> QED BY <1>3, <2>1, <2>2, <2>3, <2>4, <2>5, <2>6, <2>7, <2>8, <2>9, <2>10 DEF Step, Swap
<1> QED BY <1>2, <1>3

LEMMA NextSpeculating ==
  ASSUME SafeUse, LInv, HeapInv, HeapInv', UNCHANGED vars \/ \A t \in Threads : HonestPop(t),
         \A t \in Threads : Answered(t), \A t \in Threads : Speculating(t), [Next]_vars
  PROVE  \A t \in Threads : Speculating(t)'
<1>1. ASSUME StaysPut, NEW u \in Threads, pc'[u] \in {"pop_next", "pop_cas"} => pc'[u] = pc[u]
      PROVE  Speculating(u)'
  <2>1. SUFFICES ASSUME pc'[u] \in {"pop_next", "pop_cas"} PROVE AddrOf(r'[u].old) \in StartsNow'
    BY DEF Speculating
  <2>2. AddrOf(r[u].old) \in StartsNow /\ r' = r
    BY <1>1, <2>1 DEF Speculating, StaysPut
  <2>3. PICK p \in Solids : AddrOf(r[u].old) = p[1]
    BY <2>2, StartsAre
  <2>4. p \in Solids'
    BY <1>1, SolidsStayPut
  <2> QED BY <2>2, <2>3, <2>4, StartsAreNext
<1>2. CASE UNCHANGED vars
  <2>1. StaysPut /\ pc' = pc
    BY <1>2 DEF vars, StaysPut, Pushing, Carving
  <2> QED BY <1>1, <2>1
<1>3. ASSUME NEW t \in Threads, SetupStep(t), NEW u \in Threads PROVE Speculating(u)'
  <2>1. pc'[u] \in {"pop_next", "pop_cas"} => pc'[u] = pc[u]
    <3>1. DOMAIN pc = Threads
      BY DEF LInv, Shape
    <3> QED BY <1>3, <3>1 DEF SetupStep, InitCall, VerifyMagic, Prepare, InitMagic, InitPrint, InitHead,
            InitBump, InitLock, VerifyPrint, Goto
  <2>2. CASE VerifyMagic(t) \/ VerifyPrint(t)
    <3>1. StaysPut
      BY <2>2, VerifyStaysPut
    <3> QED BY <1>1, <2>1, <3>1
  <2>3. CASE ~booted
    <3>1. OffHeap(u) \/ Initialising(u)
      BY <2>3 DEF HeapInv, Preparing
    <3> QED BY <2>1, <3>1 DEF OffHeap, Initialising, Speculating
  <2>4. CASE booted /\ ~VerifyMagic(t) /\ ~VerifyPrint(t)
    <3>1. ~Initialising(t)
      BY <2>4 DEF LInv, InitAlone
    <3> QED BY <1>3, <2>4, <3>1 DEF SetupStep, InitCall, Prepare, InitMagic, InitPrint, InitHead, InitBump,
            InitLock, Initialising
  <2> QED BY <2>2, <2>3, <2>4
<1>4. ASSUME NEW t \in Threads, Call(t) \/ Step(t), NEW u \in Threads, \A v \in Threads : HonestPop(v)
      PROVE  Speculating(u)'
  <2>1. booted
    <3>1. ~booted => Preparing
      BY DEF HeapInv
    <3> QED BY <1>4, <3>1, EarlyIdle
  <2>2. Alone(t) /\ booted'
    BY <1>4, <2>1, StepAlone DEF LInv
  <2>3. PICK own, st, el, n : HInv(own, st, el, n)
    BY <2>1 DEF HeapInv
  <2>4. SUFFICES ASSUME pc'[u] \in {"pop_next", "pop_cas"} PROVE AddrOf(r'[u].old) \in StartsNow'
    BY DEF Speculating
  <2>5. HonestPop(t) /\ Answered(t)
    BY <1>4
  <2>6. CASE pc[u] \in {"pop_next", "pop_cas"} /\ r'[u].old = r[u].old
    <3>1. PICK b : b = AddrOf(r[u].old)
      OBVIOUS
    <3>2. b \in StartsNow
      BY <1>4, <2>6, <3>1 DEF Speculating
    <3>3. b \in StartsNow'
      BY <1>4, <2>1, <2>2, <2>3, <2>5, <3>2, StartsStay
    <3> QED BY <2>6, <3>1, <3>3
  <2>7. CASE u = t /\ PopLoad(t)
    <3>1. PICK k \in Bins : k = r[t].bin
      <4>1. Asking(t)
        BY <2>3, <2>7, Here DEF Place, AskingAt, PopLoad
      <4>2. r[t].size \in Requests /\ r[t].bin = RequestBin(r[t].size)
        BY <4>1 DEF Asking, Serving
      <4> QED BY <4>2, RequestOk
    <3>2. r'[t].old = head[k] /\ AddrOf(head[k]) # 0
      <4>1. Typed(r[t]) /\ DOMAIN r = Threads
        BY <2>3, Here
      <4> QED BY <2>7, <3>1, <4>1, Fields DEF PopLoad, Typed
    <3>3. PICK b : b = AddrOf(head[k])
      OBVIOUS
    <3>4. b \in StartsNow
      BY <2>3, <3>2, <3>3, HeadStarts
    <3>5. b \in StartsNow'
      BY <1>4, <2>1, <2>2, <2>3, <2>5, <3>4, StartsStay
    <3> QED BY <2>7, <3>2, <3>3, <3>5
  <2>8. CASE u = t
    <3>1. JobInPlace(t) /\ Typed(r[t])
      BY <2>3, Here
    <3>2. PopLoad(t) \/ (pc[t] = "pop_next" /\ r'[t].old = r[t].old)
      BY <1>4, <2>4, <2>8, <3>1, PopsGoOn
    <3> QED BY <2>6, <2>7, <2>8, <3>2
  <2>9. CASE u # t
    BY <2>2, <2>4, <2>6, <2>9 DEF Alone
  <2> QED BY <2>8, <2>9
<1> QED BY <1>2, <1>3, <1>4 DEF Next, SetupStep

-----------------------------------------------------------------------------
\* The inductive invariant holds of the four that the state determines, in
\* every reachable state: each granule has one owner, each list holds free
\* blocks of its bin, each call holds what its next step uses.
THEOREM HeapInvNowHolds ==
  ASSUME SafeUse
  PROVE  Spec /\ HonestPops => []HeapInvNow
<1>1. LInv /\ HeapInv /\ ContentsInv /\ (\A t \in Threads : Answered(t)) /\ (\A t \in Threads : EndAligned(t))
        /\ (\A t \in Threads : Speculating(t))
      => HeapInvNow
  <2> SUFFICES ASSUME LInv, HeapInv, ContentsInv, \A t \in Threads : Answered(t), \A t \in Threads : EndAligned(t),
                      \A t \in Threads : Speculating(t)
               PROVE  HeapInvNow
    OBVIOUS
  <2>1. CASE ~booted
    <3>1. Preparing
      BY <2>1 DEF HeapInv
    <3> QED BY <2>1, <3>1 DEF HeapInvNow
  <2>2. CASE booted
    <3>1. PICK own, st, el, n : HInv(own, st, el, n)
      BY <2>2 DEF HeapInv
    <3>2. PICK own2, st2, el2, n2 : own2 = OwnNow /\ st2 = StartsNow /\ el2 = ListNow /\ n2 = CountNow
      OBVIOUS
    <3>3. Agrees(own, st, el, n, own2, st2, el2, n2)
      <4>1. \A a \in Covered : own2[a] = own[a]
        BY <2>2, <3>1, <3>2, OwnNowIs
      <4>2. st2 \subseteq st
        BY <2>2, <3>1, <3>2, StartsAreStarts
      <4>3. \A p \in Solids : p[1] \in st2
        BY <3>2, StartsAre
      <4>4. \A k \in Bins : n2[k] = n[k] /\ \A i \in 0 .. n[k] : el2[k][i] = el[k][i]
        BY <3>1, <3>2, ListNowIs
      <4> QED BY <4>1, <4>2, <4>3, <4>4 DEF Agrees
    <3>4. \A t \in Threads : pc[t] \in {"pop_next", "pop_cas"} => AddrOf(r[t].old) \in st2
      BY <3>2 DEF Speculating
    <3>5. /\ head \in [Bins -> Nat] /\ st2 \subseteq Granules \ {0}
          /\ Lists(own2, st2, el2, n2) /\ LiveSlices(own2, st2) /\ Room(own2, st2)
          /\ \A t \in Threads : Thread(own2, st2, el2, n2, t)
      BY <2>2, <3>1, <3>3, <3>4, AllAgree
    <3> QED BY <2>2, <3>2, <3>5 DEF HeapInvNow
  <2> QED BY <2>1, <2>2
<1>2. Init => (\A t \in Threads : Answered(t)) /\ ContentsInv
  <2>1. Init => EmptyHeap
    BY InitPreparing DEF Preparing, EmptyHeap
  <2>2. Init => \A t \in Threads : Answered(t)
    BY DEF Init, Answered
  <2> QED BY <2>1, <2>2, EmptyContents
<1>6. LInv /\ HeapInv /\ HeapInv' /\ ContentsInv /\ [Next]_vars => ContentsInv'
  BY NextContents
<1>3. LInv /\ HeapInv /\ HeapInv' /\ (\A t \in Threads : Answered(t)) /\ [Next]_vars
        => (\A t \in Threads : Answered(t))'
  BY NextAnswered
<1>4. Init => \A t \in Threads : Speculating(t)
  BY DEF Init, Speculating
<1>5. LInv /\ HeapInv /\ HeapInv' /\ (\A t \in Threads : Answered(t)) /\ (\A t \in Threads : Speculating(t))
        /\ [Next]_vars /\ [\A t \in Threads : PopCas(t) => r[t].nxt = At(word1, AddrOf(r[t].old))]_vars
      => (\A t \in Threads : Speculating(t))'
  <2> SUFFICES ASSUME LInv, HeapInv, HeapInv', \A t \in Threads : Answered(t), \A t \in Threads : Speculating(t),
                      [Next]_vars, [\A t \in Threads : PopCas(t) => r[t].nxt = At(word1, AddrOf(r[t].old))]_vars
               PROVE  \A t \in Threads : Speculating(t)'
    OBVIOUS
  <2>1. UNCHANGED vars \/ \A t \in Threads : HonestPop(t)
    BY DEF HonestPop
  <2> QED BY <2>1, NextSpeculating
<1> QED BY <1>1, <1>2, <1>3, <1>4, <1>5, <1>6, EndsStayAligned, HeapInvHolds, LInvHolds, PTL DEF Spec, HonestPops

-----------------------------------------------------------------------------
(* TypeOK: what fits into a word.                                          *)

LEMMA FitsWord ==
  ASSUME NEW v \in Int, 0 - heap_end <= v, v <= heap_end + 1
  PROVE  v \in Words
<1>1. WORD \in Nat /\ heap_end \in Nat /\ heap_end < WORD
  BY HeapBounds
<1> QED BY <1>1 DEF Words

\* What a block held leaves of the heap fits, and so does a slice of it.
LEMMA SizeFits ==
  ASSUME NEW own, NEW st, NEW id, NEW lo, NEW hi, Held(own, st, id, lo, hi)
  PROVE  /\ lo \in Words /\ hi \in Words /\ hi - lo \in Words
         /\ pack(hi - lo, FREE) \in Words /\ pack(hi - lo, USED) \in Words
<1>1. lo \in Nat \ {0} /\ hi \in Nat /\ lo < hi /\ hi <= heap_end /\ heap_end \in Nat
  BY HeldFacts, HeapBounds
<1>2. PICK v \in Nat : v = hi - lo
  BY <1>1
<1>3. v <= heap_end
  BY <1>1, <1>2
<1>4. v \in Words /\ v + 1 \in Words /\ v + 0 \in Words
  BY <1>1, <1>3, FitsWord
<1>5. lo \in Words /\ hi \in Words
  BY <1>1, FitsWord
<1> QED BY <1>2, <1>4, <1>5 DEF pack, FREE, USED

LEMMA SliceFits ==
  ASSUME NEW own, NEW st, NEW id, NEW s \in SliceSet, SliceHeld(own, st, id, s)
  PROVE  s \in Slices /\ Token(s.ptr) \in Words /\ s.len \in Words
<1>1. PICK b, size : b = BlockOf(s) /\ size = s.len + MIN_ALIGN
  OBVIOUS
<1>2. /\ b \in Nat \ {0} /\ size \in Nat /\ b + size <= heap_end /\ s.len \in Nat
      /\ s.ptr = b + MIN_ALIGN /\ s.ptr \in Nat \ {0}
  BY <1>1, SliceFacts
<1>3. /\ WORD \in Nat /\ heap_end \in Nat /\ heap_end < WORD /\ MIN_ALIGN \in Nat \ {0}
  BY HeapBounds
<1>4. s.ptr <= heap_end /\ s.len <= heap_end
  BY <1>1, <1>2, <1>3
<1>5. 0 - s.ptr \in Words /\ s.len \in Words
  BY <1>2, <1>3, <1>4, FitsWord
<1>6. s.ptr \in 0 .. WORD /\ s.len \in 0 - MIN_ALIGN .. WORD
  BY <1>2, <1>3, <1>4
<1>7. s = [ptr |-> s.ptr, len |-> s.len]
  BY SliceIs
<1> QED BY <1>5, <1>6, <1>7 DEF Slices, Token

LEMMA ZeroFits == 0 \in Words /\ NullSlice \in Slices /\ Token(0) \in Words
<1>1. WORD \in Nat /\ MIN_ALIGN \in Nat
  BY HeapBounds
<1>2. 0 \in 0 - WORD .. WORD /\ 0 \in 0 .. WORD /\ 0 \in 0 - MIN_ALIGN .. WORD
  BY <1>1
<1>3. Token(0) = 0
  <2>1. \A i \in Int : Token(i) = 0 - i
    BY DEF Token
  <2> QED BY <2>1
<1> QED BY <1>2, <1>3 DEF Words, NullSlice, Slices

\* A head word is the address of a granule, and a tag.
LEMMA HeadFits ==
  ASSUME NEW own, NEW st, NEW el, NEW n, HInv(own, st, el, n), NEW k \in Bins
  PROVE  head[k] \in HeadWords /\ head[k] \in Words /\ head[k] \in Nat
<1>1. PICK h \in Nat : h = head[k]
  BY DEF HInv, Types
<1>2. MIN_ALIGN \in Nat \ {0} /\ heap_end \in Nat /\ HeapStart \in Nat \ {0} /\ HeapStart <= heap_end
  BY HeapBounds
<1>3. 0 \in Granules
  <2>1. 0 \in Nat /\ 0 % MIN_ALIGN = 0 /\ 0 < heap_end
    BY <1>2
  <2> QED BY <2>1, GranuleAt
<1>4. AddrOf(h) \in Granules
  <2>1. PICK m \in Nat : m = n[k]
    BY DEF HInv, Types
  <2>2. PICK f : f = el[k]
    OBVIOUS
  <2>3. Lists(own, st, el, n) /\ st \subseteq Granules \ {0}
    BY DEF HInv, Types
  <2>4. f[0] = 0 /\ AddrOf(h) = f[m]
    BY <1>1, <2>1, <2>2, <2>3 DEF Lists
  <2>5. m # 0 => f[m] \in st
    <3>1. m # 0 => m \in 1 .. m
      OBVIOUS
    <3> QED BY <2>1, <2>2, <2>3, <3>1 DEF Lists, FreeBlock, Block
  <2> QED BY <1>3, <2>3, <2>4, <2>5
<1>5. PICK tag \in 0 .. MIN_ALIGN - 1 : tag = h % MIN_ALIGN
  BY <1>2, DivMod
<1>6. PICK a \in Granules : a = AddrOf(h)
  BY <1>4
<1>7. a = h - tag
  BY <1>5, <1>6 DEF AddrOf
<1>8. a \in Int /\ 0 <= a /\ a <= heap_end - MIN_ALIGN
  BY HeapBounds
<1>9. h = a + tag
  BY <1>2, <1>5, <1>7, <1>8
<1>10. h \in HeadWords
  BY <1>5, <1>9 DEF HeadWords
<1>11. h \in Words
  <2>1. h <= heap_end + 1
    BY <1>2, <1>5, <1>8, <1>9
  <2> QED BY <1>2, <2>1, FitsWord
<1> QED BY <1>1, <1>10, <1>11

-----------------------------------------------------------------------------
\* The words of the heap: a step stores headers, links and payload.
WordsFit == word0 \in [Granules -> Words] /\ word1 \in [Granules -> Words]

LEMMA StoreFits ==
  ASSUME WordsFit, NEW b, NEW v \in Words, NEW w \in Words,
         word0' = word0 \/ word0' = [word0 EXCEPT ![b] = v],
         word1' = word1 \/ word1' = [word1 EXCEPT ![b] = w]
  PROVE  WordsFit'
BY DEF WordsFit

LEMMA WordFits ==
  ASSUME WordsFit, NEW a
  PROVE  At(word0, a) \in Words /\ At(word1, a) \in Words
<1>1. word0 \in [Granules -> Words] /\ word1 \in [Granules -> Words]
  BY DEF WordsFit
<1>2. 0 \in Words
  BY ZeroFits
<1> QED BY <1>1, <1>2 DEF At

LEMMA WordsStep ==
  ASSUME SafeUse, NEW own, NEW st, NEW el, NEW n, HInv(own, st, el, n), booted, LInv,
         NEW t \in Threads, Step(t), WordsFit, r[t].old \in Words
  PROVE  WordsFit'
<1> USE DEF control, memory, client, setup
<1>1. /\ pc[t] \in Labels /\ Typed(r[t])
      /\ Hands(own, st, t) /\ Moving(own, st, t) /\ Place(t)
      /\ JobInPlace(t) /\ FixedBinOnly(t)
      /\ pc \in [Threads -> Labels] /\ DOMAIN r = Threads
      /\ word0 \in [Granules -> Int] /\ word1 \in [Granules -> Int]
  BY Here
<1>2. CASE ~Writes(t)
  BY <1>2, OnlyWritesWrite DEF WordsFit
<1>3. PICK w : w = head[oversize_bin]
  OBVIOUS
<1>4. w \in Words
  BY <1>3, OverHead, HeadFits
<1>5. CASE Stamp(t) \/ OverStamp(t) \/ FreeStamp(t) \/ OverPush(t)
  <2>1. r[t].blk # 0
    BY <1>1, <1>5 DEF Stamp, OverStamp, FreeStamp, OverPush, Place, Found, Freeing
  <2>2. PICK b, top : b = r[t].blk /\ top = r[t].top
    OBVIOUS
  <2>3. Held(own, st, BlockId(t), b, top)
    BY <1>1, <2>1, <2>2, InHandFacts
  <2>4. PICK u, f : u = pack(top - b, USED) /\ f = pack(top - b, FREE)
    OBVIOUS
  <2>5. u \in Words /\ f \in Words
    BY <2>3, <2>4, SizeFits
  <2>6. CASE Stamp(t) \/ OverStamp(t)
    <3>1. Target(t) = top - b
      <4>1. Found(t)
        BY <1>1, <2>6 DEF Stamp, OverStamp, Place
      <4>2. Target(t) \in Int /\ b \in Int
        BY <1>1, <2>2, <4>1 DEF Found, Valid, Typed
      <4> QED BY <2>2, <4>1, <4>2 DEF Found
    <3>2. word0' = [word0 EXCEPT ![b] = u] /\ word1' = word1
      BY <2>2, <2>4, <2>6, <3>1 DEF Stamp, OverStamp
    <3> QED BY <2>5, <3>2, StoreFits
  <2>7. CASE FreeStamp(t)
    <3>1. word0' = [word0 EXCEPT ![b] = f] /\ word1' = word1
      BY <2>2, <2>4, <2>7 DEF FreeStamp
    <3> QED BY <2>5, <3>1, StoreFits
  <2>8. CASE OverPush(t)
    <3>1. word0' = word0 /\ word1' = [word1 EXCEPT ![b] = w]
      BY <1>3, <2>2, <2>8 DEF OverPush
    <3> QED BY <1>4, <3>1, StoreFits
  <2> QED BY <1>5, <2>6, <2>7, <2>8
<1>6. CASE SplitDone(t)
  <2>1. PICK b, size : b = r[t].blk /\ size = Retained(t)
    OBVIOUS
  <2>2. size \in Nat \ {0} /\ size <= InHand(t)
    BY <1>6, <2>1, KeptSize
  <2>3. InHand(t) \in Nat /\ InHand(t) <= heap_end /\ heap_end \in Nat
    <3>1. r[t].blk # 0
      BY <1>1, <1>6 DEF SplitDone, Place, SplitBlock
    <3>2. r[t].blk \in Nat \ {0} /\ InHand(t) \in Nat /\ r[t].top = r[t].blk + InHand(t) /\ r[t].top <= heap_end
      BY <1>1, <3>1, InHandFacts
    <3> QED BY <3>2, HeapBounds
  <2>4. size \in Words
    BY <2>2, <2>3, FitsWord
  <2>5. word0' = [word0 EXCEPT ![b] = pack(size, USED)] /\ word1' = word1
    BY <1>6, <2>1 DEF SplitDone
  <2>6. pack(size, USED) = size
    BY <2>2 DEF pack, USED
  <2> QED BY <1>4, <2>4, <2>5, <2>6, StoreFits
<1>7. CASE PushStore(t)
  <2>1. PICK b : b = Piece(t)
    OBVIOUS
  <2>2. PICK old \in Nat : old = r[t].old
    BY <1>1, <1>7 DEF PushStore, Moving
  <2>3. PICK a : a = AddrOf(old)
    OBVIOUS
  <2>4. a \in Nat /\ a <= old
    <3>1. MIN_ALIGN \in Nat \ {0}
      BY HeapBounds
    <3>2. a \in Nat
      <4>1. 0 \in Nat /\ 0 % MIN_ALIGN = 0
        BY <3>1
      <4> QED BY <2>3, <4>1, HeadFacts
    <3>3. PICK tag \in 0 .. MIN_ALIGN - 1 : tag = old % MIN_ALIGN
      BY <3>1, DivMod
    <3> QED BY <2>3, <3>1, <3>2, <3>3 DEF AddrOf
  <2>5. a \in Words
    <3>1. WORD \in Nat
      BY HeapBounds
    <3> QED BY <2>2, <2>4, <3>1 DEF Words
  <2>6. word0' = word0 /\ word1' = [word1 EXCEPT ![b] = a]
    BY <1>7, <2>1, <2>2, <2>3 DEF PushStore
  <2> QED BY <2>5, <2>6, StoreFits
<1>8. CASE CarveGap(t)
  <2>1. PICK size, start : /\ size = GapPiece(t).size /\ start = r[t].end - size
                           /\ Valid(start, size) /\ size \in Nat /\ size <= heap_end
    <3>1. PICK lo, hi, piece, size, k, start :
             /\ lo = r[t].lo /\ hi = r[t].end
             /\ piece = largest_carvable(hi, hi - lo) /\ size = piece.size /\ k = piece.bin
             /\ start = hi - size
             /\ Held(own, st, GapId(t), lo, hi) /\ lo < hi
             /\ lo \in Nat \ {0} /\ hi \in Nat /\ hi <= heap_end /\ hi % MIN_ALIGN = 0 /\ lo % MIN_ALIGN = 0
             /\ size \in Nat /\ size <= hi - lo /\ k \in Bins /\ Valid(start, size) /\ bin_index(size) = k
             /\ start \in Nat /\ lo <= start /\ start <= hi /\ start % MIN_ALIGN = 0
             /\ k # oversize_bin => k \in FixedBins
      BY <1>8, GapCut
    <3>2. GapPiece(t) = piece
      BY <3>1 DEF GapPiece
    <3>3. size <= heap_end /\ heap_end \in Nat
      BY <3>1, HeapBounds
    <3> QED BY <3>1, <3>2, <3>3
  <2>2. pack(size, FREE) \in Words
    <3>1. size + 1 \in Words
      BY <2>1, HeapBounds, FitsWord
    <3> QED BY <3>1 DEF pack, FREE
  <2>3. PICK f : f = pack(size, FREE)
    OBVIOUS
  <2>4. word0' = [word0 EXCEPT ![start] = f] /\ (word1' = word1 \/ word1' = [word1 EXCEPT ![start] = w])
    BY <1>3, <1>8, <2>1, <2>3 DEF CarveGap, Release, GapPiece
  <2> QED BY <1>4, <2>2, <2>3, <2>4, StoreFits
<1>9. CASE SplitCarve(t)
  <2>1. PICK size, start : /\ size = SplitPiece(t).size /\ start = r[t].top - size
                           /\ size \in Nat /\ size <= heap_end
    <3>1. PICK lo, hi, piece, size, need, k, start, iter :
             /\ lo = r[t].blk /\ hi = r[t].top /\ need = Target(t) /\ iter = r[t].iter
             /\ piece = largest_carvable(hi, (hi - lo) - need) /\ size = piece.size /\ k = piece.bin
             /\ start = hi - size
             /\ Held(own, st, BlockId(t), lo, hi) /\ lo \in st
             /\ lo \in Nat \ {0} /\ hi \in Nat /\ lo < hi /\ hi <= heap_end /\ hi % MIN_ALIGN = 0
             /\ lo % MIN_ALIGN = 0
             /\ need \in Nat /\ need > 0 /\ need <= hi - lo /\ lo % align_of_bin(bin_index(hi - lo)) = 0
             /\ size \in Nat /\ size <= (hi - lo) - need /\ k \in Bins /\ Valid(start, size)
             /\ bin_index(size) = k
             /\ start \in Nat /\ lo < start /\ start <= hi /\ need <= start - lo
             /\ k # oversize_bin => k \in FixedBins
      BY <1>9, SplitCut
    <3>2. SplitPiece(t) = piece
      BY <3>1 DEF SplitPiece, InHand
    <3>3. size <= heap_end
      <4>1. lo \in Nat /\ hi \in Nat /\ need \in Nat /\ size \in Nat
        BY <3>1
      <4>2. size <= (hi - lo) - need /\ hi <= heap_end
        BY <3>1
      <4>3. heap_end \in Nat
        BY HeapBounds
      <4> QED BY <4>1, <4>2, <4>3
    <3>4. size \in Nat
      BY <3>1
    <3> QED BY <3>1, <3>2, <3>3, <3>4
  <2>2. pack(size, FREE) \in Words
    <3>1. size + 1 \in Words
      BY <2>1, HeapBounds, FitsWord
    <3> QED BY <3>1 DEF pack, FREE
  <2>3. PICK f : f = pack(size, FREE)
    OBVIOUS
  <2>4. word0' = [word0 EXCEPT ![start] = f] /\ (word1' = word1 \/ word1' = [word1 EXCEPT ![start] = w])
    BY <1>3, <1>9, <2>1, <2>3 DEF SplitCarve, Release, SplitPiece
  <2> QED BY <1>4, <2>2, <2>3, <2>4, StoreFits
<1>10. CASE FitTake(t)
  <2>1. PICK v : v = At(word1, r[t].cur)
    OBVIOUS
  <2>2. v \in Words
    BY <2>1, WordFits
  <2>3. PICK p : p = r[t].prev
    OBVIOUS
  <2>4. word0' = word0 /\ (word1' = word1 \/ word1' = [word1 EXCEPT ![p] = v])
    BY <1>10, <2>1, <2>3 DEF FitTake
  <2> QED BY <2>2, <2>4, StoreFits
<1>11. CASE Copy(t)
  <2>1. \E f : /\ word0' = [a \in Granules |-> IF f[a] THEN At(word0, a - r[t].dst.ptr + r[t].src.ptr) ELSE word0[a]]
               /\ word1' = [a \in Granules |-> IF f[a] THEN At(word1, a - r[t].dst.ptr + r[t].src.ptr) ELSE word1[a]]
    <3>1. PICK into : into = PayloadOf(r[t].dst.ptr, Smaller(r[t].usable, r[t].dst.len))
      OBVIOUS
    <3>2. PICK f : f = [a \in Granules |-> a \in into]
      OBVIOUS
    <3>3. \A a \in Granules : f[a] <=> a \in into
      BY <3>2
    <3> QED BY <1>11, <3>1, <3>3 DEF Copy
  <2> QED BY <2>1, WordFits DEF WordsFit
<1>12. CASE Return(t)
  <2>2. PICK v : v = Token(r[t].dst.ptr)
    OBVIOUS
  <2>3. v \in Words
    <3>1. CASE r[t].dst.ptr = 0
      BY <2>2, <3>1, ZeroFits
    <3>2. CASE r[t].dst.ptr # 0
      <4>1. PICK d \in SliceSet : d = r[t].dst
        BY <1>1 DEF Typed
      <4>2. SliceHeld(own, st, DstId(t), d)
        BY <1>1, <3>2, <4>1 DEF Hands
      <4> QED BY <2>2, <4>1, <4>2, SliceFits
    <3> QED BY <3>1, <3>2
  <2>4. PICK fill : fill = PayloadOf(r[t].dst.ptr, r[t].dst.len)
    OBVIOUS
  <2>5. /\ word0' = [a \in Granules |-> IF a \in fill THEN v ELSE word0[a]]
        /\ word1' = [a \in Granules |-> IF a \in fill THEN v ELSE word1[a]]
    BY <1>12, <2>2, <2>4 DEF Return
  <2> QED BY <2>3, <2>5 DEF WordsFit
<1> QED BY <1>2, <1>5, <1>6, <1>7, <1>8, <1>9, <1>10, <1>11, <1>12 DEF Writes

-----------------------------------------------------------------------------
\* A split cuts off a piece in every round: its counter is below the bytes it
\* has given away.
Counting(t) == Splitting(t) /\ r[t].iter # 0 => r[t].iter + r[t].top <= heap_end

\* A thread that is splitting after the step was so before, or begins.
LEMMA SplitGoesOn ==
  ASSUME SafeUse, NEW own, NEW st, NEW el, NEW n, HInv(own, st, el, n), booted, LInv,
         NEW t \in Threads, Call(t) \/ Step(t), ~SplitCarve(t), r'[t].iter # 0, Splitting(t)'
  PROVE  Splitting(t) /\ r'[t].iter = r[t].iter /\ r'[t].top = r[t].top
<1> USE DEF Goto
<1>1. /\ Typed(r[t]) /\ Place(t) /\ JobInPlace(t) /\ pc \in [Threads -> Labels] /\ DOMAIN r = Threads
  BY Here
<1>2. CarvesOrSplits(t)
  <2>1. ~SecondFrees
    BY DEF SafeUse
  <2>2. ASSUME ~CarvesOrSplits(t) PROVE ~Splitting(t)'
    BY <2>1, <2>2, NoCarving
  <2> QED BY <2>2
<1>3. CASE PushLoad(t) \/ PushStore(t) \/ PushRetry(t) \/ PushCas(t)
  <2>0. Pushing(t)
    BY <1>3 DEF Pushing, PushLoad, PushStore, PushRetry, PushCas
  <2>1. r'[t].job = r[t].job /\ r'[t].iter = r[t].iter
    <3>1. CASE PushLoad(t) BY <1>1, <3>1, Fields DEF PushLoad, Typed
    <3>2. CASE PushStore(t) BY <1>1, <3>2, Fields DEF PushStore, Typed
    <3>3. CASE PushRetry(t) BY <1>1, <3>3, Fields DEF PushRetry, Typed
    <3>4. CASE PushCas(t)
      <4>1. PICK blk, top : r' = [r EXCEPT ![t].old = 0, ![t].blk = blk, ![t].top = top]
        BY <3>4 DEF PushCas
      <4> QED BY <1>1, <4>1, Fields DEF Typed
    <3> QED BY <1>3, <3>1, <3>2, <3>3, <3>4
  <2>2. pc'[t] \in {"push_load", "push_store", "push_cas", AfterPush(r[t].job)}
    BY <1>1, <1>3 DEF PushLoad, PushStore, PushRetry, PushCas
  <2>3. r[t].job \in {"fit", "shrink"}
    BY <2>1, <2>2 DEF Splitting, Pushing, AfterPush
  <2>4. r'[t].top = r[t].top
    <3>1. CASE PushLoad(t) BY <1>1, <3>1, Fields DEF PushLoad, Typed
    <3>2. CASE PushStore(t) BY <1>1, <3>2, Fields DEF PushStore, Typed
    <3>3. CASE PushRetry(t) BY <1>1, <3>3, Fields DEF PushRetry, Typed
    <3>4. CASE PushCas(t)
      <4>1. PICK top : top = r[t].top
        OBVIOUS
      <4>2. PICK blk : r' = [r EXCEPT ![t].old = 0, ![t].blk = blk, ![t].top = top]
        BY <2>3, <3>4, <4>1 DEF PushCas
      <4> QED BY <1>1, <4>1, <4>2, Fields DEF Typed
    <3> QED BY <1>3, <3>1, <3>2, <3>3, <3>4
  <2> QED BY <2>0, <2>1, <2>3, <2>4 DEF Splitting
<1>4. CASE Lock(t)
  <2>1. /\ r' = r /\ pc[t] = "lock" /\ r[t].job \in {"slow", "over", "shrink", "free"}
        /\ pc'[t] \in {"pop_load", "fit_head", "split", "over_push"}
        /\ pc'[t] = "split" => r[t].job = "shrink"
    BY <1>1, <1>4 DEF Lock, JobInPlace
  <2> QED BY <2>1 DEF Splitting, Pushing
<1>5. CASE RefillFixed(t) \/ RefillOversize(t)
  <2>1. pc'[t] \in {"gap", "unlock"}
    BY <1>1, <1>5 DEF RefillFixed, RefillOversize, Refill
  <2> QED BY <2>1 DEF Splitting, Pushing
<1>6. CASE CarveGap(t)
  <2>1. PICK start, bin : r' = [r EXCEPT ![t].end = start, ![t].bin = bin]
    BY <1>6 DEF CarveGap
  <2>2. r'[t].job = r[t].job
    BY <1>1, <2>1, Fields DEF Typed
  <2>3. pc'[t] \in {"gap", "push_load"} /\ r[t].job \in {"slow", "over"}
    BY <1>1, <1>6 DEF CarveGap, Release, JobInPlace
  <2> QED BY <2>2, <2>3 DEF Splitting, Pushing
<1>7. CASE FitTake(t)
  <2>1. PICK blk, top : r' = [r EXCEPT ![t].blk = blk, ![t].top = top, ![t].prev = 0, ![t].cur = 0, ![t].job = "fit"]
    BY <1>7 DEF FitTake
  <2>2. r'[t].iter = r[t].iter
    BY <1>1, <2>1, Fields DEF Typed
  <2>3. r[t].iter = 0
    BY <1>1, <1>7 DEF FitTake, Place, AskingAt, Asking
  <2> QED BY <2>2, <2>3
<1>8. CASE ReallocShrink(t)
  <2>1. PICK blk, top : r' = [r EXCEPT ![t].job = "shrink", ![t].blk = blk, ![t].top = top]
    BY <1>8 DEF ReallocShrink
  <2>2. r'[t].iter = r[t].iter
    BY <1>1, <2>1, Fields DEF Typed
  <2>3. r[t].iter = 0
    BY <1>1, <1>8 DEF ReallocShrink, Place
  <2> QED BY <2>2, <2>3
<1> QED BY <1>2, <1>3, <1>4, <1>5, <1>6, <1>7, <1>8 DEF CarvesOrSplits

\* What SplitCarve does to the locals.
LEMMA SplitCarves ==
  ASSUME SafeUse, NEW own, NEW st, NEW el, NEW n, HInv(own, st, el, n), LInv,
         NEW t \in Threads, SplitCarve(t)
  PROVE  \E start, iter, k :
           /\ r' = [r EXCEPT ![t].top = start, ![t].iter = iter + 1, ![t].bin = k]
           /\ k \in Bins /\ start \in Nat /\ iter = r[t].iter /\ iter \in Nat
           /\ r[t].top \in Nat /\ start < r[t].top /\ r[t].top <= heap_end
<1>1. PICK lo, hi, piece, size, need, k, start, iter :
        /\ lo = r[t].blk /\ hi = r[t].top /\ need = Target(t) /\ iter = r[t].iter
        /\ piece = largest_carvable(hi, (hi - lo) - need) /\ size = piece.size /\ k = piece.bin
        /\ start = hi - size
        /\ hi \in Nat /\ hi <= heap_end /\ size \in Nat /\ k \in Bins /\ Valid(start, size)
        /\ start \in Nat
  BY SplitCut
<1>2. r' = [r EXCEPT ![t].top = start, ![t].iter = iter + 1, ![t].bin = k]
  <2>1. Typed(r[t]) /\ DOMAIN r = Threads
    BY Here
  <2>2. r' = [r EXCEPT ![t].top = start, ![t].iter = @ + 1, ![t].bin = k]
    BY <1>1 DEF SplitCarve, InHand
  <2> QED BY <1>1, <2>1, <2>2 DEF Typed, NoLocals
<1>3. start < hi
  <2>1. size >= LNR_FLOOR /\ LNR_FLOOR \in Nat \ {0} /\ size \in Nat /\ hi \in Nat
    BY <1>1, GeoConstants, CadAssumption DEF Valid
  <2> QED BY <1>1, <2>1
<1>4. iter \in Nat
  BY <1>1, Here DEF Typed
<1> QED BY <1>1, <1>2, <1>3, <1>4

LEMMA CountingStep ==
  ASSUME SafeUse, NEW own, NEW st, NEW el, NEW n, HInv(own, st, el, n), booted, LInv,
         NEW t \in Threads, Call(t) \/ Step(t), Counting(t)
  PROVE  Counting(t)'
<1>1. CASE ~SplitCarve(t)
  <2>1. SUFFICES ASSUME Splitting(t)', r'[t].iter # 0 PROVE r'[t].iter + r'[t].top <= heap_end
    BY DEF Counting, heap_end
  <2> QED BY <1>1, <2>1, SplitGoesOn DEF Counting
<1>2. CASE SplitCarve(t)
  <2>1. PICK start, iter, k :
          /\ r' = [r EXCEPT ![t].top = start, ![t].iter = iter + 1, ![t].bin = k]
          /\ start \in Nat /\ iter = r[t].iter /\ iter \in Nat
          /\ r[t].top \in Nat /\ start < r[t].top /\ r[t].top <= heap_end
    BY <1>2, SplitCarves
  <2>2. PICK hi : hi = r[t].top
    OBVIOUS
  <2>3. iter # 0 => iter + hi <= heap_end
    BY <1>2, <2>1, <2>2 DEF Counting, Splitting, SplitCarve
  <2>4. (iter + 1) + start <= heap_end
    <3>1. heap_end \in Nat /\ hi \in Nat /\ hi <= heap_end /\ start < hi
      BY <2>1, <2>2, HeapBounds
    <3> QED BY <2>1, <2>3, <3>1
  <2>5. Typed(r[t]) /\ DOMAIN r = Threads
    BY Here
  <2>6. r'[t].top = start /\ r'[t].iter = iter + 1
    BY <2>1, <2>5, Fields DEF Typed
  <2> QED BY <2>4, <2>6 DEF Counting, heap_end
<1> QED BY <1>1, <1>2

-----------------------------------------------------------------------------
\* The locals that the inductive invariant does not bound where they are not
\* in use.
Ranged(x) ==
  /\ x.src \in Slices /\ x.bin \in Bins
  /\ x.size \in Words /\ x.top \in Words /\ x.old \in Words /\ x.nxt \in Words
  /\ x.cur \in Words /\ x.usable \in Words /\ x.iter \in Words

LEMMA BinsFit == 0 \in Bins /\ Bins \subseteq Words
<1>1. 0 \in Bins /\ oversize_bin \in Nat /\ \A k \in Bins : k \in Nat /\ k <= oversize_bin
  BY BinRange
<1>2. oversize_bin < WORD
  <2>1. NUM_BINS \in Nat \ {0} /\ META_BYTES + (NUM_BINS + 2) * 8 + MIN_ALIGN <= WORD
    BY CadAssumption
  <2>2. MIN_ALIGN \in Nat /\ META_BYTES \in Nat /\ WORD \in Nat
    BY HeapBounds DEF META_BYTES
  <2>3. oversize_bin = NUM_BINS - 1
    BY DEF oversize_bin
  <2> QED BY <2>1, <2>2, <2>3
<1> QED BY <1>1, <1>2, HeapBounds DEF Words

LEMMA IdleRanged == Ranged(NoLocals)
<1>1. 0 \in Words /\ NullSlice \in Slices /\ 0 \in Bins
  BY ZeroFits, BinsFit
<1> QED BY <1>1 DEF Ranged, NoLocals

LEMMA RequestsFit ==
  ASSUME SafeUse, NEW size \in Requests
  PROVE  size \in Words /\ RequestBin(size) \in Bins
<1>1. size \in 0 .. WORD - 1 /\ WORD \in Nat
  BY CadAssumption, HeapBounds DEF Requests
<1>2. size \in Words
  BY <1>1 DEF Words
<1> QED BY <1>2, RequestOk

\* What a call has in hand ends in the heap, and what it frees has a bin.
LEMMA HandFits ==
  HeapInv /\ booted => \A t \in Threads :
    /\ r[t].blk # 0 => r[t].top \in Words
    /\ pc[t] = "free_stamp" => r[t].bin \in Bins
<1> SUFFICES ASSUME HeapInv, booted, NEW t \in Threads
             PROVE  /\ r[t].blk # 0 => r[t].top \in Words
                    /\ pc[t] = "free_stamp" => r[t].bin \in Bins
  OBVIOUS
<1>1. PICK own, st, el, n : HInv(own, st, el, n)
  BY DEF HeapInv
<1>2. Hands(own, st, t) /\ Place(t) /\ Typed(r[t])
  BY <1>1 DEF HInv, Thread, Types
<1>3. r[t].blk # 0 => r[t].top \in Words
  BY <1>2, SizeFits DEF Hands, Block
<1>4. pc[t] = "free_stamp" => r[t].bin \in Bins
  <2>1. SUFFICES ASSUME Freeing(t) PROVE r[t].bin \in Bins
    BY <1>2 DEF Place
  <2>2. r[t].bin = bin_index(InHand(t)) /\ Valid(r[t].blk, InHand(t)) /\ r[t].blk \in Int
    BY <1>2, <2>1 DEF Freeing, Typed
  <2> QED BY <2>2, ValidFacts, CadAssumption
<1> QED BY <1>3, <1>4

LEMMA HandFitsNext ==
  (HeapInv /\ booted => \A t \in Threads :
    /\ r[t].blk # 0 => r[t].top \in Words
    /\ pc[t] = "free_stamp" => r[t].bin \in Bins)'
BY HandFits, PTL

\* Calls and returns.
LEMMA CallRanged ==
  ASSUME SafeUse, NEW own, NEW st, NEW el, NEW n, HInv(own, st, el, n), LInv,
         NEW t \in Threads, Call(t) \/ Return(t), Ranged(r[t])
  PROVE  Ranged(r'[t])
<1>1. Typed(r[t]) /\ Place(t) /\ DOMAIN r = Threads
  BY Here
<1>2. CASE AllocCall(t)
  <2>1. PICK size, job, bin :
          /\ size \in AllocSizes
          /\ r' = [r EXCEPT ![t] = [@ EXCEPT !.op = "alloc", !.size = size, !.job = job, !.bin = bin]]
          /\ bin = RequestBin(size)
    BY <1>2 DEF AllocCall
  <2>2. r[t] = NoLocals
    BY <1>1, <1>2 DEF AllocCall, MayCall, Place
  <2>3. r'[t] = [NoLocals EXCEPT !.op = "alloc", !.size = size, !.job = job, !.bin = bin]
    BY <1>1, <2>1, <2>2
  <2>4. size \in Words /\ bin \in Bins
    BY <2>1, RequestsFit DEF Requests
  <2>5. 0 \in Words /\ NullSlice \in Slices
    BY ZeroFits
  <2> QED BY <2>3, <2>4, <2>5 DEF Ranged, NoLocals
<1>3. ASSUME NEW s \in live PROVE s \in Slices
  <2>1. s \in SliceSet /\ SliceHeld(own, st, LiveId(s), s)
    BY <1>3 DEF HInv, Types, LiveSlices
  <2> QED BY <2>1, SliceFits
<1>4. CASE FreeCall(t)
  <2>1. PICK s \in live : r' = [r EXCEPT ![t].op = "free", ![t].src = s]
    BY <1>4 DEF FreeCall
  <2>2. s \in Slices
    BY <1>3
  <2> QED BY <1>1, <2>1, <2>2, Fields DEF Typed, Ranged
<1>5. CASE ReallocCall(t)
  <2>1. PICK s \in live, size \in ReallocSizes : r' = [r EXCEPT ![t].op = "realloc", ![t].src = s, ![t].size = size]
    BY <1>5 DEF ReallocCall
  <2>2. s \in Slices /\ size \in Words
    BY <1>3, RequestsFit DEF Requests
  <2> QED BY <1>1, <2>1, <2>2, Fields DEF Typed, Ranged
<1>6. CASE Return(t)
  <2>1. r' = [r EXCEPT ![t] = NoLocals]
    BY <1>6 DEF Return
  <2> QED BY <1>1, <2>1, IdleRanged
<1> QED BY <1>2, <1>4, <1>5, <1>6 DEF Call, FreeAgain, SafeUse

\* Steps that load a word, and steps that leave these locals alone.
LEMMA LoadRanged ==
  ASSUME SafeUse, NEW own, NEW st, NEW el, NEW n, HInv(own, st, el, n), LInv, WordsFit,
         NEW t \in Threads, Ranged(r[t]),
         \/ Lock(t) \/ Unlock(t) \/ PushLoad(t) \/ PushStore(t) \/ PushRetry(t) \/ PushCas(t)
         \/ PopEmpty(t) \/ PopLoad(t) \/ PopNext(t) \/ PopRetry(t)
         \/ Stamp(t) \/ Got(t) \/ FitHead(t) \/ FitSkip(t) \/ OverStamp(t) \/ ReallocKeep(t)
         \/ Copy(t) \/ FreeStamp(t) \/ OverPush(t)
  PROVE  Ranged(r'[t])
<1>1. Typed(r[t]) /\ Place(t) /\ DOMAIN r = Threads
  BY Here
<1>2. 0 \in Words
  BY ZeroFits
<1>3. CASE Lock(t) \/ PushStore(t) \/ Stamp(t) \/ OverStamp(t) \/ Copy(t) \/ FreeStamp(t)
  BY <1>3 DEF Lock, PushStore, Stamp, OverStamp, Copy, FreeStamp, control, memory, client
<1>4. CASE Unlock(t) /\ r[t].job = "shrink"
  <2>1. PICK s : r' = [r EXCEPT ![t].dst = s, ![t].blk = 0, ![t].top = 0]
    BY <1>4 DEF Unlock
  <2> QED BY <1>1, <1>2, <2>1, Fields DEF Typed, Ranged
<1>5. CASE Unlock(t) /\ r[t].job # "shrink"
  <2>1. r' = r
    BY <1>5 DEF Unlock
  <2> QED BY <2>1
<1>6. CASE PushLoad(t) \/ PopLoad(t)
  <2>1. PICK k \in Bins : k = r[t].bin
    BY DEF Ranged
  <2>2. PICK w : w = head[k]
    OBVIOUS
  <2>3. w \in Words
    BY <2>2, HeadFits
  <2>4. r' = [r EXCEPT ![t].old = w]
    BY <1>6, <2>1, <2>2 DEF PushLoad, PopLoad
  <2> QED BY <1>1, <2>3, <2>4, Fields DEF Typed, Ranged
<1>7. CASE PushRetry(t)
  <2>1. r' = [r EXCEPT ![t].old = 0]
    BY <1>7 DEF PushRetry
  <2> QED BY <1>1, <1>2, <2>1, Fields DEF Typed, Ranged
<1>8. CASE PopRetry(t)
  <2>1. r' = [r EXCEPT ![t].old = 0, ![t].nxt = 0]
    BY <1>8 DEF PopRetry
  <2> QED BY <1>1, <1>2, <2>1, Fields DEF Typed, Ranged
<1>9. CASE PushCas(t)
  <2>1. PICK blk, top : /\ blk = IF r[t].job = "free" THEN 0 ELSE r[t].blk
                        /\ top = IF r[t].job = "free" THEN 0 ELSE r[t].top
    OBVIOUS
  <2>2. r' = [r EXCEPT ![t].old = 0, ![t].blk = blk, ![t].top = top]
    BY <1>1, <1>9, <2>1, Fields DEF PushCas, Typed
  <2>3. top \in Words
    BY <1>2, <2>1 DEF Ranged
  <2> QED BY <1>1, <1>2, <2>2, <2>3, Fields DEF Typed, Ranged
<1>10. CASE PopEmpty(t)
  <2>1. r' = r \/ r' = [r EXCEPT ![t].job = "slow"]
    BY <1>10 DEF PopEmpty
  <2> QED BY <1>1, <2>1, Fields DEF Typed, Ranged
<1>11. CASE PopNext(t)
  <2>1. PICK w : w = At(word1, AddrOf(r[t].old))
    OBVIOUS
  <2>2. w \in Words
    BY <2>1, WordFits
  <2>3. r' = [r EXCEPT ![t].nxt = w]
    BY <1>11, <2>1 DEF PopNext
  <2> QED BY <1>1, <2>2, <2>3, Fields DEF Typed, Ranged
<1>12. CASE Got(t)
  <2>1. PICK s : r' = [r EXCEPT ![t].dst = s, ![t].blk = 0, ![t].top = 0]
    BY <1>12 DEF Got
  <2> QED BY <1>1, <1>2, <2>1, Fields DEF Typed, Ranged
<1>13. CASE FitHead(t)
  <2>1. PICK w : w = head[oversize_bin]
    OBVIOUS
  <2>2. w \in Words
    BY <2>1, BinRange, HeadFits
  <2>3. r' = [r EXCEPT ![t].cur = w]
    BY <1>13, <2>1 DEF FitHead
  <2> QED BY <1>1, <2>2, <2>3, Fields DEF Typed, Ranged
<1>14. CASE FitSkip(t)
  <2>1. PICK w, c : w = At(word1, r[t].cur) /\ c = r[t].cur
    OBVIOUS
  <2>2. w \in Words
    BY <2>1, WordFits
  <2>3. r' = [r EXCEPT ![t].prev = c, ![t].cur = w]
    BY <1>14, <2>1 DEF FitSkip
  <2> QED BY <1>1, <2>2, <2>3, Fields DEF Typed, Ranged
<1>15. CASE ReallocKeep(t)
  <2>1. PICK s : r' = [r EXCEPT ![t].job = "keep", ![t].dst = s]
    BY <1>15 DEF ReallocKeep
  <2> QED BY <1>1, <2>1, Fields DEF Typed, Ranged
<1>16. CASE OverPush(t)
  <2>1. r' = [r EXCEPT ![t].blk = 0, ![t].top = 0]
    BY <1>16 DEF OverPush
  <2> QED BY <1>1, <1>2, <2>1, Fields DEF Typed, Ranged
<1> QED BY <1>3, <1>4, <1>5, <1>6, <1>7, <1>8, <1>9, <1>10, <1>11, <1>12, <1>13, <1>14, <1>15, <1>16

\* Steps that find a block, cut a piece off one, or have done so.
LEMMA BlockRanged ==
  ASSUME SafeUse, NEW own, NEW st, NEW el, NEW n, HInv(own, st, el, n), booted, LInv, HeapInv', booted',
         NEW t \in Threads, Ranged(r[t]), Counting(t),
         \/ PopCas(t) \/ RefillFixed(t) \/ RefillOversize(t) \/ CarveGap(t) \/ Bump(t) \/ FitTake(t)
         \/ SplitCarve(t) \/ SplitDone(t) \/ ReallocShrink(t) \/ ReallocGrow(t) \/ FreeLoad(t)
  PROVE  Ranged(r'[t])
<1>1. Typed(r[t]) /\ Place(t) /\ DOMAIN r = Threads /\ Hands(own, st, t) /\ Moving(own, st, t)
  BY Here
<1>2. 0 \in Words
  BY ZeroFits
<1>3. /\ r'[t].blk # 0 => r'[t].top \in Words
      /\ pc'[t] = "free_stamp" => r'[t].bin \in Bins
  BY HandFitsNext
<1>4. CASE PopCas(t)
  <2>1. PICK b, top, job : /\ r' = [r EXCEPT ![t].old = 0, ![t].nxt = 0, ![t].blk = b, ![t].top = top, ![t].job = job]
                           /\ b = AddrOf(r[t].old)
    <3>1. PICK b : b = AddrOf(r[t].old)
      OBVIOUS
    <3>2. PICK top : top = b + bin_class(r[t].bin)
      OBVIOUS
    <3>3. PICK job : job = IF r[t].job = "slow" THEN "hit" ELSE r[t].job
      OBVIOUS
    <3>4. r' = [r EXCEPT ![t].old = 0, ![t].nxt = 0, ![t].blk = b, ![t].top = top, ![t].job = job]
      BY <1>1, <1>4, <3>1, <3>2, <3>3, Fields DEF PopCas, Typed
    <3> QED BY <3>1, <3>4
  <2>2. b # 0
    <3>1. b \in st
      BY <1>1, <1>4, <2>1 DEF Moving, PopCas
    <3> QED BY <3>1 DEF HInv, Types
  <2>3. r'[t].blk = b /\ r'[t].top = top
    BY <1>1, <2>1, Fields DEF Typed
  <2>4. top \in Words
    BY <1>3, <2>2, <2>3
  <2> QED BY <1>1, <1>2, <2>1, <2>4, Fields DEF Typed, Ranged
<1>5. CASE RefillFixed(t) \/ RefillOversize(t)
  <2>1. RefillStep(t) /\ Asking(t) /\ r[t].job \in {"slow", "over"}
    BY <1>5, RefillSame
  <2>2. PICK aligned : aligned = align_up(bump, align_of_bin(RequestBin(r[t].size)))
    OBVIOUS
  <2>3. PICK top, lo : top = Wrap(aligned + Target(t)) /\ lo = bump
    OBVIOUS
  <2>4. CASE HasRoom(aligned, Target(t))
    <3>1. r' = [r EXCEPT ![t].blk = aligned, ![t].top = top, ![t].lo = lo, ![t].end = aligned, ![t].prev = 0]
      BY <2>1, <2>2, <2>3, <2>4 DEF RefillStep
    <3>2. aligned # 0
      <4>1. Room(own, st) /\ r[t].size \in Requests
        BY <2>1 DEF HInv, Asking, Serving
      <4>2. aligned \in Nat /\ bump <= aligned
        BY <2>2, <4>1, RefillFacts
      <4>3. bump \in Nat /\ HeapStart <= bump /\ HeapStart \in Nat \ {0}
        BY <4>1, HeapBounds DEF Room
      <4> QED BY <4>2, <4>3
    <3>3. r'[t].blk = aligned /\ r'[t].top = top
      BY <1>1, <3>1, Fields DEF Typed
    <3>4. top \in Words
      BY <1>3, <3>2, <3>3
    <3> QED BY <1>1, <3>1, <3>4, Fields DEF Typed, Ranged
  <2>5. CASE ~HasRoom(aligned, Target(t))
    <3>1. r' = [r EXCEPT ![t].prev = 0]
      BY <2>1, <2>2, <2>5 DEF RefillStep
    <3> QED BY <1>1, <3>1, Fields DEF Typed, Ranged
  <2> QED BY <2>4, <2>5
<1>6. CASE CarveGap(t)
  <2>1. PICK lo, hi, piece, size, k, start :
          /\ lo = r[t].lo /\ hi = r[t].end
          /\ piece = largest_carvable(hi, hi - lo) /\ size = piece.size /\ k = piece.bin
          /\ start = hi - size /\ k \in Bins
    BY <1>6, GapCut
  <2>2. r' = [r EXCEPT ![t].end = start, ![t].bin = k]
    BY <1>6, <2>1 DEF CarveGap
  <2>3. k \in Bins
    BY <2>1
  <2> QED BY <1>1, <2>2, <2>3, Fields DEF Typed, Ranged
<1>7. CASE Bump(t)
  <2>1. PICK k : k = RequestBin(r[t].size)
    OBVIOUS
  <2>2. r' = [r EXCEPT ![t].lo = 0, ![t].end = 0, ![t].bin = k]
    BY <1>7, <2>1 DEF Bump
  <2>3. k \in Bins
    <3>1. Found(t)
      BY <1>1, <1>7 DEF Bump, Place, Carving
    <3> QED BY <2>1, <3>1, RequestsFit DEF Found, Serving
  <2> QED BY <1>1, <2>2, <2>3, Fields DEF Typed, Ranged
<1>8. CASE FitTake(t)
  <2>1. PICK c : c = r[t].cur
    OBVIOUS
  <2>2. PICK top : r' = [r EXCEPT ![t].blk = c, ![t].top = top, ![t].prev = 0, ![t].cur = 0, ![t].job = "fit"]
    BY <1>8, <2>1 DEF FitTake
  <2>3. c # 0
    BY <1>8, <2>1 DEF FitTake
  <2>4. r'[t].blk = c /\ r'[t].top = top
    BY <1>1, <2>2, Fields DEF Typed
  <2>5. top \in Words
    BY <1>3, <2>3, <2>4
  <2> QED BY <1>1, <1>2, <2>2, <2>5, Fields DEF Typed, Ranged
<1>9. CASE SplitCarve(t)
  <2>1. PICK start, iter, k :
          /\ r' = [r EXCEPT ![t].top = start, ![t].iter = iter + 1, ![t].bin = k]
          /\ k \in Bins /\ start \in Nat /\ iter = r[t].iter /\ iter \in Nat
          /\ r[t].top \in Nat /\ start < r[t].top /\ r[t].top <= heap_end
    BY <1>9, SplitCarves
  <2>2. PICK hi : hi = r[t].top
    OBVIOUS
  <2>3. heap_end \in Nat /\ hi \in Nat /\ hi <= heap_end /\ start < hi /\ start \in Nat /\ iter \in Nat
    BY <2>1, <2>2, HeapBounds
  <2>4. iter # 0 => iter + hi <= heap_end
    BY <1>9, <2>1, <2>2 DEF Counting, Splitting, SplitCarve
  <2>5. iter + 1 <= heap_end + 1 /\ start <= heap_end
    BY <2>3, <2>4
  <2>6. iter + 1 \in Words /\ start \in Words
    BY <2>3, <2>5, FitsWord
  <2>7. PICK next : next = iter + 1
    OBVIOUS
  <2>8. r' = [r EXCEPT ![t].top = start, ![t].iter = next, ![t].bin = k] /\ k \in Bins /\ next \in Words
    BY <2>1, <2>6, <2>7
  <2> QED BY <1>1, <2>6, <2>8, Fields DEF Typed, Ranged
<1>10. CASE SplitDone(t)
  <2>1. PICK top : top = r[t].blk + Retained(t)
    OBVIOUS
  <2>2. r' = [r EXCEPT ![t].top = top, ![t].iter = 0]
    BY <1>10, <2>1 DEF SplitDone
  <2>3. r[t].blk # 0
    BY <1>1, <1>10 DEF SplitDone, Place, SplitBlock
  <2>4. r'[t].blk = r[t].blk /\ r'[t].top = top
    BY <1>1, <2>2, Fields DEF Typed
  <2>5. top \in Words
    BY <1>3, <2>3, <2>4
  <2> QED BY <1>1, <1>2, <2>2, <2>5, Fields DEF Typed, Ranged
<1>11. ASSUME HoldsSrc(t)
       PROVE  /\ BlockOf(r[t].src) # 0 /\ CurSize(t) = r[t].src.len + MIN_ALIGN
              /\ r[t].src.len \in Words /\ r[t].src.len \in Nat
  <2>1. PICK s \in SliceSet : s = r[t].src
    BY <1>1 DEF Typed
  <2>2. SliceHeld(own, st, SrcId(t), s)
    BY <1>1, <1>11, <2>1 DEF Hands
  <2>3. BlockOf(s) # 0 /\ header_size(At(word0, BlockOf(s))) = s.len + MIN_ALIGN /\ s.len \in Nat
    BY <2>2, SliceFacts
  <2>4. s.len \in Words
    BY <2>2, SliceFits
  <2> QED BY <2>1, <2>3, <2>4 DEF CurSize
<1>12. CASE ReallocShrink(t)
  <2>1. PICK b, top : /\ r' = [r EXCEPT ![t].job = "shrink", ![t].blk = b, ![t].top = top]
                      /\ b = BlockOf(r[t].src)
    BY <1>12 DEF ReallocShrink
  <2>2. HoldsSrc(t)
    BY <1>1, <1>12 DEF ReallocShrink, HoldsSrc, Place, Serving
  <2>3. r'[t].blk = b /\ r'[t].top = top
    BY <1>1, <2>1, Fields DEF Typed
  <2>4. top \in Words
    BY <1>3, <1>11, <2>1, <2>2, <2>3
  <2> QED BY <1>1, <2>1, <2>4, Fields DEF Typed, Ranged
<1>13. CASE ReallocGrow(t)
  <2>1. HoldsSrc(t) /\ Serving(t)
    BY <1>1, <1>13 DEF ReallocGrow, HoldsSrc, Place, Serving
  <2>2. PICK job, k, usable : job = AllocJob(r[t].size) /\ k = RequestBin(r[t].size) /\ usable = CurSize(t) - MIN_ALIGN
    OBVIOUS
  <2>3. r' = [r EXCEPT ![t].job = job, ![t].bin = k, ![t].usable = usable]
    BY <1>13, <2>2 DEF ReallocGrow
  <2>4. k \in Bins
    BY <2>1, <2>2, RequestsFit DEF Serving
  <2>5. usable \in Words
    <3>1. PICK len \in Nat : len = r[t].src.len
      BY <1>11, <2>1
    <3>2. usable = (len + MIN_ALIGN) - MIN_ALIGN /\ MIN_ALIGN \in Nat /\ len \in Words
      BY <1>11, <2>1, <2>2, <3>1, HeapBounds
    <3>3. (len + MIN_ALIGN) - MIN_ALIGN = len
      BY <3>1, <3>2
    <3> QED BY <3>2, <3>3
  <2> QED BY <1>1, <2>3, <2>4, <2>5, Fields DEF Typed, Ranged
<1>14. CASE FreeLoad(t)
  <2>1. PICK b : b = BlockOf(r[t].src)
    OBVIOUS
  <2>2. PICK header : header = At(word0, b)
    OBVIOUS
  <2>3. CASE Refused(header)
    <3>1. r' = [r EXCEPT ![t].job = "free"]
      BY <1>14, <2>1, <2>2, <2>3 DEF FreeLoad
    <3> QED BY <1>1, <3>1, Fields DEF Typed, Ranged
  <2>4. CASE ~Refused(header)
    <3>1. PICK top, k : r' = [r EXCEPT ![t].job = "free", ![t].blk = b, ![t].top = top, ![t].bin = k]
      BY <1>14, <2>1, <2>2, <2>4 DEF FreeLoad
    <3>2. pc'[t] = "free_stamp"
      <4>1. DOMAIN pc = Threads
        BY DEF LInv, Shape
      <4> QED BY <1>14, <2>1, <2>2, <2>4, <4>1 DEF FreeLoad, Goto
    <3>3. HoldsSrc(t)
      BY <1>1, <1>14 DEF FreeLoad, HoldsSrc, Place, Leaving
    <3>4. r'[t].blk = b /\ r'[t].top = top /\ r'[t].bin = k
      BY <1>1, <3>1, Fields DEF Typed
    <3>5. top \in Words /\ k \in Bins
      BY <1>3, <1>11, <2>1, <3>2, <3>3, <3>4
    <3> QED BY <1>1, <3>1, <3>5, Fields DEF Typed, Ranged
  <2> QED BY <2>3, <2>4
<1> QED BY <1>4, <1>5, <1>6, <1>7, <1>8, <1>9, <1>10, <1>12, <1>13, <1>14

-----------------------------------------------------------------------------
\* The shared words that are not the heap's.
SetupFits ==
  /\ booted \in BOOLEAN
  /\ magic \in {Blank, MAGIC} /\ print \in {Blank, Mine, Theirs}
  /\ told \in [Threads -> {NotTold, Ok, BadMagic, ConfigMismatch}]
  /\ lock \in {0, 1, Scrap} /\ calls \in 0 .. MaxCalls
  /\ ~booted => head \in [Bins -> {Scrap, 0}] /\ bump \in {Scrap, HeapStart}

\* What types need beside the inductive invariant.
AllFit ==
  /\ SetupFits /\ WordsFit
  /\ \A t \in Threads : Ranged(r[t]) /\ Counting(t)

LEMMA SetupFitsNext ==
  ASSUME SafeUse, LInv, HeapInv, SetupFits, [Next]_vars
  PROVE  SetupFits'
<1> USE DEF SetupFits, setup, client, control, memory
<1>1. CASE UNCHANGED vars
  BY <1>1 DEF vars, HeapStart, control_bytes
<1>2. ASSUME NEW t \in Threads, InitCall(t) \/ VerifyMagic(t) \/ Prepare(t) PROVE SetupFits'
  <2>1. CASE InitCall(t) BY <2>1 DEF InitCall, HeapStart, control_bytes
  <2>2. CASE VerifyMagic(t) BY <2>2 DEF VerifyMagic, Tell, HeapStart, control_bytes
  <2>3. CASE InitMagic(t) BY <2>3 DEF InitMagic, HeapStart, control_bytes
  <2>4. CASE InitPrint(t) BY <2>4 DEF InitPrint, PrintStored, HeapStart, control_bytes
  <2>5. CASE InitHead(t) BY <2>5 DEF InitHead, HeapStart, control_bytes
  <2>6. CASE InitBump(t) BY <2>6 DEF InitBump, HeapStart, control_bytes
  <2>7. CASE InitLock(t) BY <2>7 DEF InitLock
  <2>8. CASE VerifyPrint(t) BY <2>8 DEF VerifyPrint, Tell, HeapStart, control_bytes
  <2> QED BY <1>2, <2>1, <2>2, <2>3, <2>4, <2>5, <2>6, <2>7, <2>8 DEF Prepare
<1>3. ASSUME NEW t \in Threads, Call(t), booted PROVE SetupFits'
  <2>1. /\ booted' = booted /\ magic' = magic /\ print' = print /\ told' = told /\ lock' = lock
        /\ calls < MaxCalls /\ calls' = calls + 1
    BY <1>3 DEF Call, AllocCall, FreeCall, FreeAgain, ReallocCall, MayCall
  <2>2. MaxCalls \in Nat
    BY ScrapAssumption
  <2>3. calls' \in 0 .. MaxCalls
    BY <2>1, <2>2
  <2> QED BY <1>3, <2>1, <2>3
<1>4. ASSUME NEW t \in Threads, Step(t), booted PROVE SetupFits'
  <2>1. booted' = booted /\ magic' = magic /\ print' = print /\ told' = told /\ calls' = calls
        /\ (lock' = lock \/ lock' \in {0, 1})
    BY <1>4 DEF Step, Swap, Lock, Unlock, PushLoad, PushStore, PushRetry, PopEmpty, PopLoad, PopNext, PopRetry,
       PushCas, PopCas, Stamp, Got, RefillFixed, Refill, CarveGap, Bump, FitHead, FitSkip, FitTake,
       RefillOversize, OverStamp, SplitCarve, SplitDone, ReallocKeep, ReallocShrink, ReallocGrow, Copy,
       FreeLoad, FreeStamp, OverPush, Return
  <2>2. lock' \in {0, 1, Scrap}
    BY <2>1
  <2>3. booted'
    BY <1>4, <2>1
  <2> QED BY <2>1, <2>2, <2>3
<1>5. ASSUME NEW t \in Threads, ~booted PROVE ~Call(t) /\ ~Step(t)
  BY <1>5, EarlyIdle DEF HeapInv
<1> QED BY <1>1, <1>2, <1>3, <1>4, <1>5 DEF Next

\* Before init has returned a thread has at most a counter.
LEMMA EarlyRanged ==
  HeapInv /\ ~booted => \A t \in Threads : Ranged(r[t]) /\ ~Splitting(t)
<1> SUFFICES ASSUME Preparing, NEW t \in Threads PROVE Ranged(r[t]) /\ ~Splitting(t)
  BY DEF HeapInv
<1>1. PICK i : i = r[t].iter
  OBVIOUS
<1>2. r[t] = [NoLocals EXCEPT !.iter = i]
  BY <1>1 DEF Preparing
<1>3. i \in Words
  <2>1. i = 0 \/ i \in Bins
    BY <1>1 DEF Preparing
  <2> QED BY <2>1, BinsFit
<1>4. Ranged(r[t])
  BY <1>2, <1>3, IdleRanged DEF Ranged, NoLocals
<1>5. OffHeap(t) \/ Initialising(t)
  BY DEF Preparing
<1> QED BY <1>4, <1>5 DEF Splitting, Pushing, OffHeap, Initialising

LEMMA EarlyRangedNext ==
  (HeapInv /\ ~booted => \A t \in Threads : Ranged(r[t]) /\ ~Splitting(t))'
BY EarlyRanged, PTL

LEMMA AllFitNext ==
  ASSUME SafeUse, LInv, HeapInv, HeapInv', AllFit, [Next]_vars
  PROVE  AllFit'
<1>1. SetupFits'
  BY SetupFitsNext DEF AllFit
<1>2. CASE UNCHANGED vars
  BY <1>1, <1>2 DEF AllFit, WordsFit, Counting, Splitting, Pushing, vars, heap_end
<1>3. ASSUME NEW t \in Threads, SetupStep(t) PROVE AllFit'
  <2>1. word0' = word0 /\ word1' = word1
    BY <1>3 DEF SetupStep, InitCall, VerifyMagic, Prepare, InitMagic, InitPrint, InitHead, InitBump,
       InitLock, VerifyPrint, memory
  <2>2. WordsFit'
    BY <2>1 DEF AllFit, WordsFit
  <2>3. CASE ~booted'
    <3>1. \A u \in Threads : Ranged(r'[u]) /\ ~Splitting(u)'
      BY <2>3, EarlyRangedNext
    <3> QED BY <1>1, <2>2, <3>1 DEF AllFit, Counting
  <2>4. CASE booted'
    <3>1. r' = r
      <4>1. ~InitHead(t)
        <5>1. InitHead(t) => ~booted /\ booted' = booted
          BY DEF InitHead, client, setup, LInv, InitAlone, Initialising
        <5> QED BY <2>4, <5>1
      <4> QED BY <1>3, <4>1 DEF SetupStep, InitCall, VerifyMagic, Prepare, InitMagic, InitPrint, InitBump,
           InitLock, VerifyPrint
    <3>2. ASSUME NEW u \in Threads PROVE Counting(u)'
      <4>1. \/ pc'[u] \in {"idle", "verify_print", "init_magic", "init_print", "init_head", "init_bump", "init_lock"}
            \/ pc'[u] = pc[u]
        <5>1. DOMAIN pc = Threads
          BY DEF LInv, Shape
        <5> QED BY <1>3, <5>1 DEF SetupStep, InitCall, VerifyMagic, Prepare, InitMagic, InitPrint, InitHead,
                InitBump, InitLock, VerifyPrint, Goto
      <4>2. Splitting(u)' => Splitting(u)
        BY <3>1, <4>1 DEF Splitting, Pushing
      <4> QED BY <3>1, <4>2 DEF AllFit, Counting, heap_end
    <3> QED BY <1>1, <2>2, <3>1, <3>2 DEF AllFit
  <2> QED BY <2>3, <2>4
<1>4. ASSUME NEW t \in Threads, Call(t) \/ Step(t) PROVE AllFit'
  <2>1. booted
    <3>1. ~booted => Preparing
      BY DEF HeapInv
    <3> QED BY <1>4, <3>1, EarlyIdle
  <2>2. Alone(t) /\ booted'
    BY <1>4, <2>1, StepAlone DEF LInv
  <2>3. PICK own, st, el, n : HInv(own, st, el, n)
    BY <2>1 DEF HeapInv
  <2>4. WordsFit /\ Ranged(r[t]) /\ Counting(t)
    BY DEF AllFit
  <2>5. Counting(t)'
    BY <1>4, <2>1, <2>3, <2>4, CountingStep
  <2>6. WordsFit'
    <3>1. CASE Call(t)
      <4>1. word0' = word0 /\ word1' = word1
        BY <3>1 DEF Call, AllocCall, FreeCall, FreeAgain, ReallocCall, MayCall, memory
      <4> QED BY <2>4, <4>1 DEF WordsFit
    <3>2. CASE Step(t)
      <4>1. r[t].old \in Words
        BY <2>4 DEF Ranged
      <4> QED BY <2>1, <2>3, <2>4, <3>2, <4>1, WordsStep
    <3> QED BY <1>4, <3>1, <3>2
  <2>7. Ranged(r'[t])
    <3>1. CASE Call(t) \/ Return(t)
      BY <2>3, <2>4, <3>1, CallRanged
    <3>2. CASE \/ Lock(t) \/ Unlock(t) \/ PushLoad(t) \/ PushStore(t) \/ PushRetry(t) \/ PushCas(t)
               \/ PopEmpty(t) \/ PopLoad(t) \/ PopNext(t) \/ PopRetry(t)
               \/ Stamp(t) \/ Got(t) \/ FitHead(t) \/ FitSkip(t) \/ OverStamp(t) \/ ReallocKeep(t)
               \/ Copy(t) \/ FreeStamp(t) \/ OverPush(t)
      BY <2>3, <2>4, <3>2, LoadRanged
    <3>3. CASE \/ PopCas(t) \/ RefillFixed(t) \/ RefillOversize(t) \/ CarveGap(t) \/ Bump(t) \/ FitTake(t)
               \/ SplitCarve(t) \/ SplitDone(t) \/ ReallocShrink(t) \/ ReallocGrow(t) \/ FreeLoad(t)
      BY <2>1, <2>2, <2>3, <2>4, <3>3, BlockRanged
    <3> QED BY <1>4, <3>1, <3>2, <3>3 DEF Step, Swap
  <2>8. ASSUME NEW u \in Threads, u # t PROVE Ranged(r'[u]) /\ Counting(u)'
    <3>1. pc'[u] = pc[u] /\ r'[u] = r[u]
      BY <2>2, <2>8 DEF Alone
    <3> QED BY <3>1 DEF AllFit, Counting, Splitting, Pushing, heap_end
  <2> QED BY <1>1, <2>5, <2>6, <2>7, <2>8 DEF AllFit
<1> QED BY <1>2, <1>3, <1>4 DEF Next, SetupStep

\* Before init has returned.
LEMMA EarlyTypes ==
  ASSUME LInv, HeapInv, AllFit, ~booted
  PROVE  TypeOK
<1>1. Preparing
  BY DEF HeapInv
<1>2. 0 \in Words /\ NullSlice \in Slices
  BY ZeroFits
<1>3. \A t \in Threads : \E i \in Words : r[t] = [NoLocals EXCEPT !.iter = i]
  <2>1. SUFFICES ASSUME NEW t \in Threads PROVE \E i \in Words : r[t] = [NoLocals EXCEPT !.iter = i]
    OBVIOUS
  <2>2. r[t] = [NoLocals EXCEPT !.iter = r[t].iter] /\ r[t].iter \in Words
    BY <1>1 DEF Preparing, AllFit, Ranged
  <2> QED BY <2>2
<1>4. ASSUME NEW t \in Threads
      PROVE  /\ DOMAIN r[t] = DOMAIN NoLocals
             /\ r[t].op \in {"none", "alloc", "free", "again", "realloc"}
             /\ r[t].job \in Jobs
             /\ r[t].src \in Slices /\ r[t].dst \in Slices
             /\ r[t].bin \in Bins
             /\ {r[t].size, r[t].blk, r[t].top, r[t].lo, r[t].end, r[t].old, r[t].nxt,
                 r[t].prev, r[t].cur, r[t].usable, r[t].iter} \subseteq Words
  <2>1. PICK i \in Words : r[t] = [NoLocals EXCEPT !.iter = i]
    BY <1>3
  <2>2. 0 \in Bins
    BY BinsFit
  <2> QED BY <1>2, <2>1, <2>2 DEF NoLocals, Jobs
<1>5. head \in [Bins -> HeadWords]
  <2>1. Scrap \in HeadWords
    BY DEF HeadWords
  <2>2. 0 \in HeadWords
    <3>1. MIN_ALIGN \in Nat \ {0} /\ HeapStart \in Nat \ {0} /\ heap_end \in Nat /\ HeapStart <= heap_end
      BY HeapBounds
    <3>2. 0 \in Nat /\ 0 % MIN_ALIGN = 0 /\ 0 < heap_end
      BY <3>1
    <3>3. 0 \in Granules
      BY <3>2, GranuleAt
    <3>4. 0 \in 0 .. MIN_ALIGN - 1 /\ 0 = 0 + 0
      BY <3>1
    <3> QED BY <3>3, <3>4 DEF HeadWords
  <2> QED BY <2>1, <2>2 DEF AllFit, SetupFits
<1>6. bump \in Words
  <2>1. Scrap \in Words
    BY ScrapAssumption, HeapBounds DEF Words
  <2>2. HeapStart \in Words
    BY HeapBounds DEF Words
  <2> QED BY <2>1, <2>2 DEF AllFit, SetupFits
<1>7. live \subseteq Slices /\ pc \in [Threads -> Labels]
  BY <1>1 DEF Preparing
<1> QED BY <1>4, <1>5, <1>6, <1>7 DEF TypeOK, AllFit, SetupFits, WordsFit

\* After init has returned.
LEMMA BootedTypes ==
  ASSUME SafeUse, LInv, HeapInv, AllFit, booted
  PROVE  TypeOK
<1>1. PICK own, st, el, n : HInv(own, st, el, n)
  BY DEF HeapInv
<1>2. heap_end \in Nat /\ heap_end < WORD /\ WORD \in Nat
  BY HeapBounds
<1>3. 0 \in Words /\ NullSlice \in Slices
  BY ZeroFits
<1>4. head \in [Bins -> HeadWords]
  <2>1. head \in [Bins -> Nat]
    BY <1>1 DEF HInv, Types
  <2>2. \A k \in Bins : head[k] \in HeadWords
    BY <1>1, HeadFits
  <2> QED BY <2>1, <2>2
<1>5. bump \in Words
  <2>1. bump \in Nat /\ bump <= heap_end
    BY <1>1 DEF HInv, Room
  <2>2. 0 - heap_end <= bump /\ bump <= heap_end + 1 /\ bump \in Int
    BY <1>2, <2>1
  <2> QED BY <2>2, FitsWord
<1>6. live \subseteq Slices /\ pc \in [Threads -> Labels]
  <2>1. ASSUME NEW s \in live PROVE s \in Slices
    <3>1. s \in SliceSet /\ SliceHeld(own, st, LiveId(s), s)
      BY <1>1 DEF HInv, Types, LiveSlices
    <3> QED BY <3>1, SliceFits
  <2> QED BY <1>1, <2>1 DEF HInv, Types
<1>7. ASSUME NEW t \in Threads
      PROVE  /\ DOMAIN r[t] = DOMAIN NoLocals
             /\ r[t].op \in {"none", "alloc", "free", "again", "realloc"}
             /\ r[t].job \in Jobs
             /\ r[t].src \in Slices /\ r[t].dst \in Slices
             /\ r[t].bin \in Bins
             /\ {r[t].size, r[t].blk, r[t].top, r[t].lo, r[t].end, r[t].old, r[t].nxt,
                 r[t].prev, r[t].cur, r[t].usable, r[t].iter} \subseteq Words
  <2>1. Typed(r[t]) /\ Place(t) /\ Hands(own, st, t) /\ Fitting(el, n, t)
    BY <1>1, Here
  <2>2. Ranged(r[t])
    BY DEF AllFit
  <2>3. r[t].dst \in Slices
    <3>1. PICK s \in SliceSet : s = r[t].dst
      BY <2>1 DEF Typed
    <3>2. s.ptr = 0 => s = NullSlice
      BY <2>1, <3>1 DEF Hands
    <3>3. s.ptr # 0 => SliceHeld(own, st, DstId(t), s)
      BY <2>1, <3>1 DEF Hands
    <3> QED BY <1>3, <3>1, <3>2, <3>3, SliceFits
  <2>4. r[t].blk \in Words
    <3>1. CASE r[t].blk = 0 BY <1>3, <3>1
    <3>2. CASE r[t].blk # 0 BY <2>1, <3>2, SizeFits DEF Hands, Block
    <3> QED BY <3>1, <3>2
  <2>5. r[t].lo \in Words /\ r[t].end \in Words
    <3>1. CASE ~Carving(t) BY <1>3, <2>1, <3>1 DEF Hands
    <3>2. CASE Carving(t)
      <4>1. PICK lo, end, b : lo = r[t].lo /\ end = r[t].end /\ b = r[t].blk
        OBVIOUS
      <4>2. lo \in Nat /\ end \in Int /\ b \in Int /\ lo <= end /\ end <= b /\ b # 0
        BY <2>1, <3>2, <4>1 DEF Place, Found, Typed
      <4>3. b <= heap_end
        <5>1. Held(own, st, BlockId(t), b, r[t].top)
          BY <2>1, <4>1, <4>2 DEF Hands, Block
        <5>2. PICK top : top = r[t].top
          OBVIOUS
        <5>3. b \in Nat \ {0} /\ top \in Nat /\ b < top /\ top <= heap_end
          BY <5>1, <5>2, HeldFacts
        <5> QED BY <1>2, <5>3
      <4>4. 0 - heap_end <= lo /\ lo <= heap_end + 1 /\ 0 - heap_end <= end /\ end <= heap_end + 1
        BY <1>2, <4>2, <4>3
      <4> QED BY <4>1, <4>2, <4>4, FitsWord
    <3> QED BY <3>1, <3>2
  <2>6. r[t].prev \in Words
    <3>1. CASE r[t].prev = 0 BY <1>3, <3>1
    <3>2. CASE r[t].prev # 0
      <4>0. PICK k \in Bins : k = oversize_bin
        BY BinRange
      <4>9. PICK m \in Nat : m = n[k]
        BY <1>1 DEF HInv, Types
      <4>10. PICK f : f = el[k]
        OBVIOUS
      <4>1. k = oversize_bin /\ m = n[k] /\ f = el[k] /\ k \in Bins
        BY <4>0, <4>9, <4>10
      <4>2. pc[t] = "fit"
        BY <2>1, <3>2 DEF Place
      <4>3. PICK j \in 0 .. m : r[t].prev = IF j = m THEN 0 ELSE f[j + 1]
        BY <2>1, <4>1, <4>2 DEF Fitting
      <4>4. j # m /\ r[t].prev = f[j + 1]
        BY <3>2, <4>3
      <4>5. j + 1 \in 1 .. m
        BY <4>1, <4>3, <4>4
      <4>6. PICK i : i = j + 1
        OBVIOUS
      <4>7. FreeBlock(own, st, BinId(k, f[i]), k, f[i])
        BY <1>1, <4>1, <4>5, <4>6 DEF HInv, Lists
      <4>8. f[i] \in Words
        BY <4>7, SizeFits DEF FreeBlock, Block
      <4> QED BY <4>4, <4>6, <4>8
    <3> QED BY <3>1, <3>2
  <2>7. /\ DOMAIN r[t] = DOMAIN NoLocals
        /\ r[t].op \in {"none", "alloc", "free", "again", "realloc"} /\ r[t].job \in Jobs
    BY <2>1 DEF Typed
  <2>8. /\ r[t].src \in Slices /\ r[t].bin \in Bins
        /\ r[t].size \in Words /\ r[t].top \in Words /\ r[t].old \in Words /\ r[t].nxt \in Words
        /\ r[t].cur \in Words /\ r[t].usable \in Words /\ r[t].iter \in Words
    BY <2>2 DEF Ranged
  <2> QED BY <2>3, <2>4, <2>5, <2>6, <2>7, <2>8
<1> QED BY <1>4, <1>5, <1>6, <1>7 DEF TypeOK, AllFit, SetupFits, WordsFit

\* Every word, local and slice has its type: no sum or difference the allocator
\* stores goes beyond a word.
THEOREM TypeOKHolds ==
  ASSUME SafeUse
  PROVE  Spec /\ HonestPops => []TypeOK
<1>1. Init => AllFit
  <2> SUFFICES ASSUME Init PROVE AllFit
    OBVIOUS
  <2>1. SetupFits
    <3>1. MaxCalls \in Nat
      BY ScrapAssumption
    <3>2. calls \in 0 .. MaxCalls
      BY <3>1 DEF Init
    <3> QED BY <3>2 DEF Init, SetupFits
  <2>2. WordsFit
    BY ZeroFits DEF Init, WordsFit
  <2>3. \A t \in Threads : r[t] = NoLocals /\ pc[t] = "idle"
    BY DEF Init
  <2> QED BY <2>1, <2>2, <2>3, IdleRanged DEF AllFit, Counting, Splitting, Pushing
<1>2. LInv /\ HeapInv /\ HeapInv' /\ AllFit /\ [Next]_vars => AllFit'
  BY AllFitNext
<1>3. LInv /\ HeapInv /\ AllFit => TypeOK
  BY EarlyTypes, BootedTypes
<1> QED BY <1>1, <1>2, <1>3, HeapInvHolds, LInvHolds, PTL DEF Spec

-----------------------------------------------------------------------------
(* Honest pops.  The tag tells how many swaps a pop was overtaken by.      *)

\* A remainder moves on with its number.
LEMMA NextRemainder ==
  ASSUME NEW x \in Nat, NEW y \in Nat, NEW m \in Nat \ {0}, x % m = y % m
  PROVE  (x + 1) % m = (y + 1) % m
<1>1. PICK s \in 0 .. m - 1 : s = x % m
  BY DivMod
<1>2. PICK p \in Int : p = x \div m
  BY DivMod
<1>3. PICK q \in Int : q = y \div m
  BY DivMod
<1>4. x = m * p + s /\ y = m * q + s
  BY <1>1, <1>2, <1>3, DivMod
<1>5. CASE s + 1 < m
  <2>1. PICK v \in 0 .. m - 1 : v = s + 1
    BY <1>5
  <2>2. (m * p + v) % m = v /\ (m * q + v) % m = v
    BY DivModUnique
  <2>3. x + 1 = m * p + v /\ y + 1 = m * q + v
    BY <1>4, <2>1
  <2> QED BY <2>2, <2>3
<1>6. CASE s + 1 = m
  <2>1. (m * (p + 1) + 0) % m = 0 /\ (m * (q + 1) + 0) % m = 0
    <3>1. p + 1 \in Int /\ q + 1 \in Int /\ 0 \in 0 .. m - 1
      OBVIOUS
    <3> QED BY <3>1, DivModUnique
  <2>2. x + 1 = m * (p + 1) + 0 /\ y + 1 = m * (q + 1) + 0
    BY <1>4, <1>6
  <2> QED BY <2>1, <2>2
<1> QED BY <1>5, <1>6

\* It returns after a whole turn only.
LEMMA Turns ==
  ASSUME NEW x \in Nat, NEW y \in Nat, NEW m \in Nat \ {0}, x % m = y % m,
         NEW d \in Nat, d < m, (x + d) % m = y % m
  PROVE  d = 0
<1>1. PICK s \in 0 .. m - 1 : s = x % m
  BY DivMod
<1>2. PICK p \in Int : p = x \div m
  <2>1. x \div m \in Int
    BY DivMod
  <2> QED BY <2>1
<1>3. PICK q \in Int : q = y \div m
  <2>1. y \div m \in Int
    BY DivMod
  <2> QED BY <2>1
<1>4. x = m * p + s /\ y = m * q + s
  BY <1>1, <1>2, <1>3, DivMod
<1>5. y % m = s
  BY <1>1
<1>6. CASE s + d < m
  <2>1. PICK v \in 0 .. m - 1 : v = s + d
    BY <1>6
  <2>2. (m * p + v) % m = v
    BY DivModUnique
  <2>3. x + d = m * p + v
    BY <1>4, <2>1
  <2>4. v = s
    BY <1>5, <2>2, <2>3
  <2> QED BY <2>1, <2>4
<1>7. CASE s + d >= m
  <2>1. PICK v \in 0 .. m - 1 : v = s + d - m
    BY <1>7
  <2>2. (m * (p + 1) + v) % m = v
    <3>1. p + 1 \in Int
      OBVIOUS
    <3> QED BY <3>1, DivModUnique
  <2>3. x + d = m * (p + 1) + v
    BY <1>4, <2>1
  <2>4. v = s
    BY <1>5, <2>2, <2>3
  <2> QED BY <2>1, <2>4
<1> QED BY <1>6, <1>7

\* A head word is a block's address with the tag.
LEMMA TagOfHead ==
  ASSUME NEW b \in Nat, b % MIN_ALIGN = 0, NEW w \in Nat
  PROVE  (b + NextTag(w)) % MIN_ALIGN = (w + 1) % MIN_ALIGN
<1>1. PICK m \in Nat \ {0} : m = MIN_ALIGN
  BY HeapBounds
<1>2. PICK g \in 0 .. m - 1 : g = (w + 1) % m
  <2>1. PICK v \in Nat : v = w + 1
    OBVIOUS
  <2>2. v % m \in 0 .. m - 1
    BY DivMod
  <2> QED BY <2>1, <2>2
<1>3. PICK q \in Int : b = m * q
  <2>1. b \in Int /\ b % m = 0
    BY <1>1
  <2> QED BY <2>1, ModQuotient
<1>4. (m * q + g) % m = g
  BY DivModUnique
<1> QED BY <1>1, <1>2, <1>3, <1>4 DEF NextTag

\* A pop that is not overtaken by as many swaps as there are tags, and whose
\* compare-and-swap succeeds, has not been overtaken by any.
LEMMA InTimeIsHonest ==
  ASSUME NEW t \in Threads, UpToDate(t), lag[t] < MIN_ALIGN
  PROVE  HonestPop(t)
<1>1. SUFFICES ASSUME PopCas(t) PROVE r[t].nxt = At(word1, AddrOf(r[t].old))
  BY DEF HonestPop
<1>2. pc[t] = "pop_cas" /\ head[r[t].bin] = r[t].old
  BY <1>1 DEF PopCas, HeadAsLoaded
<1>3. PICK x \in Nat, d \in Nat : x = r[t].old /\ d = lag[t]
  BY DEF UpToDate
<1>4. PICK m \in Nat \ {0} : m = MIN_ALIGN
  BY HeapBounds
<1>5. x % m = (x + d) % m /\ d < m
  BY <1>2, <1>3, <1>4 DEF UpToDate
<1>6. d = 0
  BY <1>5, Turns
<1> QED BY <1>2, <1>3, <1>6 DEF UpToDate

\* A swap sets the next tag.
LEMMA SwapsTag ==
  ASSUME SafeUse, NEW own, NEW st, NEW el, NEW n, HInv(own, st, el, n), booted, LInv,
         NEW t \in Threads, Swap(t), HonestPop(t), NEW k, k = r[t].bin
  PROVE  /\ k \in FixedBins /\ head[k] \in Nat /\ head'[k] \in Nat
         /\ head'[k] % MIN_ALIGN = (head[k] + 1) % MIN_ALIGN
         /\ ~InPop(t)'
<1>1. /\ Typed(r[t]) /\ Moving(own, st, t) /\ Place(t) /\ JobInPlace(t) /\ FixedBinOnly(t)
      /\ head \in [Bins -> Nat] /\ pc \in [Threads -> Labels]
  BY Here
<1>2. PICK old : old = r[t].old
  OBVIOUS
<1>3. CASE PushCas(t)
  <2>1. PICK b : b = Piece(t)
    OBVIOUS
  <2>2. /\ k \in FixedBins /\ k \in Bins /\ FreeBlock(own, st, PushId(t), k, b)
        /\ old \in Nat /\ head[k] = old
    BY <1>1, <1>2, <1>3, <2>1, FixedFacts DEF Moving, PushCas, HeadAsLoaded, Pushing
  <2>3. b \in Nat /\ b % MIN_ALIGN = 0
    BY <2>2, HeldFacts DEF FreeBlock, Block
  <2>4. head'[k] = b + NextTag(old)
    BY <1>1, <1>2, <1>3, <2>1, <2>2 DEF PushCas
  <2>5. b + NextTag(old) \in Nat /\ (b + NextTag(old)) % MIN_ALIGN = (old + 1) % MIN_ALIGN
    BY <2>2, <2>3, HeadFacts, TagOfHead
  <2>6. ~InPop(t)'
    <3>1. pc'[t] = AfterPush(r[t].job)
      BY <1>1, <1>3 DEF PushCas, Goto
    <3> QED BY <3>1 DEF InPop, AfterPush
  <2> QED BY <2>2, <2>4, <2>5, <2>6
<1>4. CASE PopCas(t)
  <2>1. /\ pc[t] = "pop_cas" /\ Popping(t) /\ head[k] = old
        /\ old \in Nat /\ AddrOf(old) \in st
    BY <1>1, <1>2, <1>4 DEF PopCas, HeadAsLoaded, Moving, Popping
  <2>2. k \in FixedBins /\ k \in Bins
    <3>1. k # oversize_bin
      BY <1>1, <2>1 DEF FixedBinOnly
    <3>2. Asking(t)
      BY <1>1, <2>1 DEF Place, AskingAt
    <3> QED BY <3>1, <3>2, RequestOk, FixedFacts DEF Asking, Serving
  <2>3. Lists(own, st, el, n) /\ n[k] \in Nat /\ st \subseteq Granules \ {0}
    BY <2>2 DEF HInv, Types
  <2>4. PICK b, m, f : b = AddrOf(old) /\ m = n[k] /\ f = el[k]
    OBVIOUS
  <2>5. b # 0 /\ m \in 1 .. m /\ b = f[m] /\ b \in Granules /\ word1[b] = f[m - 1] /\ m \in Nat
    <3>1. b # 0
      BY <2>1, <2>3, <2>4
    <3>2. n[k] \in 1 .. n[k] /\ AddrOf(head[k]) = el[k][n[k]]
      BY <2>1, <2>2, <2>3, <2>4, <3>1, ListTop
    <3> QED BY <2>1, <2>2, <2>3, <2>4, <3>1, <3>2, ListBlock
  <2>6. PICK nxt : nxt = r[t].nxt
    OBVIOUS
  <2>7. nxt = f[m - 1]
    BY <1>4, <1>2, <2>4, <2>5, <2>6 DEF HonestPop, At
  <2>8. nxt \in Nat /\ nxt % MIN_ALIGN = 0
    <3>1. CASE m - 1 = 0
      <4>1. f[0] = 0
        BY <2>2, <2>3, <2>4 DEF Lists
      <4>2. 0 % MIN_ALIGN = 0
        BY HeapBounds
      <4> QED BY <2>7, <3>1, <4>1, <4>2
    <3>2. CASE m - 1 # 0
      <4>1. PICK i : i = m - 1
        OBVIOUS
      <4>2. i \in 1 .. n[k]
        BY <2>4, <2>5, <3>2, <4>1
      <4>3. el[k][i] \in Nat /\ el[k][i] % MIN_ALIGN = 0
        BY <2>2, <2>3, <4>2, ListBlock
      <4> QED BY <2>4, <2>7, <4>1, <4>3
    <3> QED BY <3>1, <3>2
  <2>9. head'[k] = nxt + NextTag(old)
    BY <1>1, <1>2, <1>4, <2>2, <2>6 DEF PopCas
  <2>10. nxt + NextTag(old) \in Nat /\ (nxt + NextTag(old)) % MIN_ALIGN = (old + 1) % MIN_ALIGN
    BY <2>1, <2>8, HeadFacts, TagOfHead
  <2>11. ~InPop(t)'
    BY <1>1, <1>4 DEF PopCas, Goto, InPop
  <2> QED BY <2>1, <2>2, <2>9, <2>10, <2>11
<1> QED BY <1>3, <1>4 DEF Swap

\* The link of the top block stays while the head does.
LEMMA TopLinkStays ==
  ASSUME SafeUse, NEW own, NEW st, NEW el, NEW n, HInv(own, st, el, n), booted, LInv,
         NEW t \in Threads, Call(t) \/ Step(t), NEW k \in FixedBins,
         NEW b \in st, b = AddrOf(head[k])
  PROVE  At(word1', b) = At(word1, b)
<1>1. /\ Lists(own, st, el, n) /\ n[k] \in Nat /\ st \subseteq Granules \ {0} /\ k \in Bins
  BY FixedFacts DEF HInv, Types
<1>2. n[k] \in 1 .. n[k] /\ b = el[k][n[k]]
  BY <1>1, ListTop
<1>3. PICK i \in 1 .. n[k] : i = n[k]
  BY <1>2
<1>4. word1'[el[k][i]] = word1[el[k][i]]
  BY LinksStay
<1> QED BY <1>2, <1>3, <1>4 DEF At

\* The bin and the head word of a pop in progress.
LEMMA PopInProgress ==
  ASSUME SafeUse, NEW own, NEW st, NEW el, NEW n, HInv(own, st, el, n), LInv, NEW t \in Threads, InPop(t)
  PROVE  /\ r[t].bin \in FixedBins /\ head \in [Bins -> Nat] /\ head[r[t].bin] \in Nat
         /\ r[t].old \in Nat /\ AddrOf(r[t].old) \in st
<1>1. /\ Moving(own, st, t) /\ Place(t) /\ FixedBinOnly(t) /\ head \in [Bins -> Nat]
  BY Here
<1>2. r[t].bin # oversize_bin
  BY <1>1 DEF InPop, FixedBinOnly, Popping
<1>3. Asking(t)
  BY <1>1 DEF InPop, Place, AskingAt
<1>4. r[t].bin \in FixedBins /\ r[t].bin \in Bins
  BY <1>2, <1>3, RequestOk, FixedFacts DEF Asking, Serving
<1> QED BY <1>1, <1>4 DEF Moving, InPop

\* A pop that goes on is up to date after any step of the allocator.
LEMMA GoesOnUpToDate ==
  ASSUME SafeUse, NEW own, NEW st, NEW el, NEW n, HInv(own, st, el, n), booted, LInv,
         NEW t \in Threads, Call(t) \/ Step(t), HonestPop(t), CountSwaps,
         NEW u \in Threads, InPop(u), InPop(u)', UpToDate(u), UpToDate(t) \/ ~InPop(t),
         r'[u].bin = r[u].bin, r'[u].old = r[u].old,
         \/ pc'[u] = pc[u] /\ r'[u].nxt = r[u].nxt
         \/ PopNext(u) /\ head' = head /\ r'[u].nxt = At(word1', AddrOf(r[u].old))
  PROVE  UpToDate(u)'
<1>1. PICK k \in FixedBins : k = r[u].bin
  BY PopInProgress
<1>2. PICK old \in Nat, d \in Nat : old = r[u].old /\ d = lag[u]
  BY DEF UpToDate
<1>3. PICK m \in Nat \ {0} : m = MIN_ALIGN
  BY HeapBounds
<1>4. head[k] \in Nat /\ AddrOf(old) \in st /\ head \in [Bins -> Nat]
  BY <1>1, <1>2, PopInProgress
<1>5. head[k] % m = (old + d) % m
  BY <1>1, <1>2, <1>3 DEF UpToDate
<1>6. lag'[u] = IF head'[k] = head[k] THEN lag[u] ELSE lag[u] + 1
  BY <1>1 DEF CountSwaps, InPop
<1>7. CASE head'[k] # head[k]
  <2>1. Swap(t) /\ r[t].bin = k
    BY <1>4, <1>7, OnlySwapsMoveHeads
  <2>2. head'[k] \in Nat /\ head'[k] % MIN_ALIGN = (head[k] + 1) % MIN_ALIGN
    BY <2>1, SwapsTag
  <2>3. lag'[u] = d + 1
    BY <1>2, <1>6, <1>7
  <2>4. PICK e \in Nat : e = d + 1
    OBVIOUS
  <2>5. PICK x \in Nat, y \in Nat : x = head[k] /\ y = old + d
    BY <1>4
  <2>6. (x + 1) % m = (y + 1) % m
    <3>1. x % m = y % m
      BY <1>5, <2>5
    <3> QED BY <3>1, NextRemainder
  <2>7. y + 1 = old + e
    BY <2>4, <2>5
  <2>8. head'[k] % MIN_ALIGN = (old + e) % MIN_ALIGN
    BY <1>3, <2>2, <2>5, <2>6, <2>7
  <2>9. lag'[u] = e /\ e # 0 /\ r'[u].old = old /\ r'[u].bin = k
    BY <1>1, <1>2, <2>3, <2>4
  <2> QED BY <2>8, <2>9 DEF UpToDate
<1>8. CASE head'[k] = head[k]
  <2>1. lag'[u] = d /\ r'[u].old = old /\ r'[u].bin = k
    BY <1>1, <1>2, <1>6, <1>8
  <2>2. head'[k] % MIN_ALIGN = (old + d) % MIN_ALIGN
    BY <1>3, <1>5, <1>8
  <2>3. ASSUME d = 0
        PROVE  head'[k] = old /\ (pc'[u] = "pop_cas" => r'[u].nxt = At(word1', AddrOf(old)))
    <3>1. head[k] = old /\ (pc[u] = "pop_cas" => r[u].nxt = At(word1, AddrOf(old)))
      BY <1>1, <1>2, <2>3 DEF UpToDate
    <3>2. CASE pc'[u] = pc[u] /\ r'[u].nxt = r[u].nxt
      <4>1. PICK b \in st : b = AddrOf(old)
        BY <1>4
      <4>2. At(word1', b) = At(word1, b)
        BY <3>1, <4>1, TopLinkStays
      <4> QED BY <1>8, <3>1, <3>2, <4>1, <4>2
    <3>3. CASE r'[u].nxt = At(word1', AddrOf(r[u].old))
      BY <1>2, <1>8, <3>1, <3>3
    <3> QED BY <3>2, <3>3
  <2> QED BY <2>1, <2>2, <2>3 DEF UpToDate
<1> QED BY <1>7, <1>8

\* A pop that begins is up to date.
LEMMA BeginsUpToDate ==
  ASSUME SafeUse, NEW own, NEW st, NEW el, NEW n, HInv(own, st, el, n), LInv,
         NEW t \in Threads, PopLoad(t), CountSwaps
  PROVE  UpToDate(t)'
<1>1. Typed(r[t]) /\ DOMAIN r = Threads /\ pc \in [Threads -> Labels] /\ Place(t) /\ head \in [Bins -> Nat]
  BY Here
<1>2. PICK k \in Bins : k = r[t].bin
  <2>1. Asking(t)
    BY <1>1 DEF Place, AskingAt, PopLoad
  <2> QED BY <2>1, RequestOk DEF Asking, Serving
<1>3. PICK h \in Nat : h = head[k]
  BY <1>1
<1>4. head' = head
  BY DEF PopLoad, control
<1>5. r' = [r EXCEPT ![t].old = h]
  BY <1>2, <1>3 DEF PopLoad
<1>6. r'[t].old = h /\ r'[t].bin = k
  BY <1>1, <1>2, <1>5, Fields DEF Typed
<1>7. pc[t] = "pop_load" /\ pc'[t] = "pop_next"
  BY <1>1 DEF PopLoad, Goto
<1>8. lag'[t] = 0
  BY <1>7 DEF CountSwaps, InPop
<1>9. h % MIN_ALIGN = (h + 0) % MIN_ALIGN
  OBVIOUS
<1> QED BY <1>3, <1>4, <1>6, <1>7, <1>8, <1>9 DEF UpToDate

\* The next link of the top block, as a pop reads it.
LEMMA ReadsTheLink ==
  ASSUME NEW own, NEW st, NEW el, NEW n, HInv(own, st, el, n), LInv, NEW t \in Threads, PopNext(t)
  PROVE  /\ head' = head /\ r'[t].bin = r[t].bin /\ r'[t].old = r[t].old
         /\ r'[t].nxt = At(word1', AddrOf(r[t].old))
<1>1. Typed(r[t]) /\ DOMAIN r = Threads
  BY Here
<1>2. PICK v : v = At(word1, AddrOf(r[t].old))
  OBVIOUS
<1>3. r' = [r EXCEPT ![t].nxt = v]
  BY <1>2 DEF PopNext
<1>4. head' = head /\ word1' = word1
  BY DEF PopNext, control, memory
<1>5. r'[t].bin = r[t].bin /\ r'[t].old = r[t].old /\ r'[t].nxt = v
  BY <1>1, <1>3, Fields DEF Typed
<1> QED BY <1>2, <1>4, <1>5

\* A thread in a pop has loaded the head or the link.
LEMMA PopsBegin ==
  ASSUME LInv, NEW t \in Threads, JobInPlace(t), Typed(r[t]), Call(t) \/ Step(t),
         pc'[t] \in {"pop_next", "pop_cas"}
  PROVE  PopLoad(t) \/ PopNext(t)
<1> USE DEF Goto
<1>1. DOMAIN pc = Threads /\ DOMAIN r = Threads
  BY DEF LInv, Shape
<1>2. CASE Call(t)
  BY <1>1, <1>2 DEF Call, AllocCall, FreeCall, FreeAgain, ReallocCall, AllocEntry
<1>3. CASE Step(t)
  <2>1. CASE PopLoad(t) BY <2>1
  <2>2. CASE PopNext(t) BY <2>2
  <2>3. CASE Lock(t) BY <1>1, <2>3 DEF Lock, JobInPlace
  <2>4. CASE Unlock(t) BY <1>1, <2>4 DEF Unlock
  <2>5. CASE PushCas(t) BY <1>1, <2>5 DEF PushCas, AfterPush
  <2>6. CASE PushLoad(t) \/ PushStore(t) \/ PushRetry(t) \/ PopEmpty(t) \/ PopRetry(t)
    BY <1>1, <2>6 DEF PushLoad, PushStore, PushRetry, PopEmpty, PopRetry
  <2>7. CASE PopCas(t) \/ Stamp(t) \/ Got(t) \/ RefillFixed(t) \/ RefillOversize(t) \/ Bump(t)
    BY <1>1, <2>7 DEF PopCas, Stamp, Got, AfterGot, RefillFixed, RefillOversize, Refill, Bump
  <2>8. CASE CarveGap(t) \/ FitHead(t) \/ FitSkip(t) \/ FitTake(t) \/ OverStamp(t)
    BY <1>1, <2>8 DEF CarveGap, Release, FitHead, FitSkip, FitTake, OverStamp
  <2>9. CASE SplitCarve(t) \/ SplitDone(t) \/ ReallocKeep(t) \/ ReallocShrink(t) \/ ReallocGrow(t)
    <3>1. CASE ReallocGrow(t)
      <4>1. AllocEntry(r[t].size) \in {"lock", "pop_load"}
        BY DEF AllocEntry
      <4> QED BY <1>1, <3>1, <4>1 DEF ReallocGrow
    <3>2. CASE SplitCarve(t) BY <1>1, <3>2 DEF SplitCarve, Release
    <3>3. CASE SplitDone(t) BY <1>1, <3>3 DEF SplitDone
    <3>4. CASE ReallocKeep(t) \/ ReallocShrink(t) BY <1>1, <3>4 DEF ReallocKeep, ReallocShrink
    <3> QED BY <2>9, <3>1, <3>2, <3>3, <3>4
  <2>10. CASE Copy(t) \/ FreeLoad(t) \/ FreeStamp(t) \/ OverPush(t) \/ Return(t)
    BY <1>1, <2>10 DEF Copy, FreeLoad, FreeStamp, FreeEntry, OverPush, Return
  <2> QED BY <1>3, <2>1, <2>2, <2>3, <2>4, <2>5, <2>6, <2>7, <2>8, <2>9, <2>10 DEF Step, Swap
<1> QED BY <1>2, <1>3

\* A step that changes neither the heap nor the locals of a pop.
LEMMA StaysUpToDate ==
  ASSUME NEW u \in Threads, InPop(u)', pc'[u] = pc[u], r' = r, head' = head, word1' = word1,
         CountSwaps \/ lag' = lag, UpToDate(u)
  PROVE  UpToDate(u)'
<1>1. InPop(u)
  BY DEF InPop
<1>2. lag'[u] = lag[u]
  BY <1>1 DEF CountSwaps, InPop
<1> QED BY <1>2 DEF UpToDate

LEMMA NextTagsTell ==
  ASSUME SafeUse, LInv, HeapInv, TagsTell, \A t \in Threads : HonestPop(t), [Next /\ CountSwaps]_lagVars
  PROVE  TagsTell'
<1>1. SUFFICES ASSUME NEW u \in Threads, InPop(u)' PROVE UpToDate(u)'
  BY DEF TagsTell
<1>2. CASE UNCHANGED lagVars
  <2>1. pc' = pc /\ r' = r /\ head' = head /\ word1' = word1 /\ lag' = lag
    BY <1>2 DEF lagVars, vars
  <2>2. UpToDate(u)
    BY <1>1, <2>1 DEF TagsTell, InPop
  <2> QED BY <1>1, <2>1, <2>2, StaysUpToDate
<1>3. ASSUME NEW t \in Threads, SetupStep(t), CountSwaps PROVE UpToDate(u)'
  <2>1. pc'[u] \in {"pop_next", "pop_cas"}
    BY <1>1 DEF InPop
  <2>2. pc'[u] = pc[u]
    <3>1. DOMAIN pc = Threads
      BY DEF LInv, Shape
    <3> QED BY <1>3, <2>1, <3>1 DEF SetupStep, InitCall, VerifyMagic, Prepare, InitMagic, InitPrint, InitHead,
            InitBump, InitLock, VerifyPrint, Goto
  <2>3. CASE VerifyMagic(t) \/ VerifyPrint(t)
    <3>1. head' = head /\ word1' = word1 /\ r' = r
      BY <2>3, VerifyStaysPut DEF StaysPut
    <3>2. UpToDate(u)
      BY <2>1, <2>2 DEF TagsTell, InPop
    <3> QED BY <1>1, <1>3, <2>2, <3>1, <3>2, StaysUpToDate
  <2>4. CASE ~booted
    <3>1. OffHeap(u) \/ Initialising(u)
      BY <2>4 DEF HeapInv, Preparing
    <3> QED BY <2>1, <2>2, <3>1 DEF OffHeap, Initialising
  <2>5. CASE booted /\ ~VerifyMagic(t) /\ ~VerifyPrint(t)
    <3>1. ~Initialising(t)
      BY <2>5 DEF LInv, InitAlone
    <3> QED BY <1>3, <2>5, <3>1 DEF SetupStep, InitCall, Prepare, InitMagic, InitPrint, InitHead, InitBump,
            InitLock, Initialising
  <2> QED BY <2>3, <2>4, <2>5
<1>4. ASSUME NEW t \in Threads, Call(t) \/ Step(t), CountSwaps PROVE UpToDate(u)'
  <2>1. booted
    <3>1. ~booted => Preparing
      BY DEF HeapInv
    <3> QED BY <1>4, <3>1, EarlyIdle
  <2>2. Alone(t)
    BY <1>4, StepAlone DEF LInv
  <2>3. PICK own, st, el, n : HInv(own, st, el, n)
    BY <2>1 DEF HeapInv
  <2>4. HonestPop(t)
    BY <1>4
  <2>5. UpToDate(t) \/ ~InPop(t)
    BY DEF TagsTell
  <2>6. CASE u # t
    <3>1. pc'[u] = pc[u] /\ r'[u] = r[u]
      BY <2>2, <2>6 DEF Alone
    <3>2. InPop(u) /\ UpToDate(u)
      BY <1>1, <3>1 DEF TagsTell, InPop
    <3> QED BY <1>1, <1>4, <2>1, <2>3, <2>4, <2>5, <3>1, <3>2, GoesOnUpToDate
  <2>7. CASE u = t
    <3>1. JobInPlace(t) /\ Typed(r[t])
      BY <2>3, Here
    <3>2. pc'[t] \in {"pop_next", "pop_cas"}
      BY <1>1, <2>7 DEF InPop
    <3>3. PopLoad(t) \/ PopNext(t)
      BY <1>4, <3>1, <3>2, PopsBegin
    <3>4. CASE PopLoad(t)
      BY <1>4, <2>3, <2>7, <3>4, BeginsUpToDate
    <3>5. CASE PopNext(t)
      <4>1. InPop(t) /\ UpToDate(t)
        BY <3>5 DEF PopNext, InPop, TagsTell
      <4>2. /\ head' = head /\ r'[t].bin = r[t].bin /\ r'[t].old = r[t].old
            /\ r'[t].nxt = At(word1', AddrOf(r[t].old))
        BY <2>3, <3>5, ReadsTheLink
      <4>3. InPop(t)'
        BY <1>1, <2>7
      <4> QED BY <1>4, <2>1, <2>3, <2>4, <2>5, <2>7, <3>5, <4>1, <4>2, <4>3, GoesOnUpToDate
    <3> QED BY <3>3, <3>4, <3>5
  <2> QED BY <2>6, <2>7
<1> QED BY <1>2, <1>3, <1>4 DEF Next, SetupStep

-----------------------------------------------------------------------------
(* As long as no pop is overtaken by as many swaps of its bin as there are  *)
(* tags, the tag of the head tells by how many it was (push_fixed and       *)
(* pop_fixed), whatever the threads do.                                     *)
THEOREM TagsTellHolds ==
  ASSUME SafeUse
  PROVE  LagSpec /\ []InTime => []TagsTell
<1>1. Init => HeapInv
  BY InitPreparing DEF HeapInv
<1>2. Init => TagsTell
  BY DEF Init, TagsTell, InPop
<1>3. InTime /\ TagsTell => \A t \in Threads : HonestPop(t)
  <2> SUFFICES ASSUME InTime, TagsTell, NEW t \in Threads, PopCas(t) PROVE HonestPop(t)
    BY DEF HonestPop
  <2>1. InPop(t)
    BY DEF InPop, PopCas
  <2> QED BY <2>1, InTimeIsHonest DEF InTime, TagsTell
<1>4. [Next /\ CountSwaps]_lagVars => [Next]_vars
  BY DEF lagVars
<1>5. LInv /\ HeapInv /\ InTime /\ TagsTell /\ [Next /\ CountSwaps]_lagVars => HeapInv' /\ TagsTell'
  BY <1>3, <1>4, NextHeap, NextTagsTell
<1>6. LagSpec => Spec
  BY <1>4, PTL DEF LagSpec, Spec
<1> QED BY <1>1, <1>2, <1>5, <1>6, LInvHolds, PTL DEF LagSpec

(* Then no compare-and-swap of a pop succeeds on a head that has come back  *)
(* (the ABA that the tag is there to prevent), which is all that the other  *)
(* theorems ask of the pops.                                                *)
THEOREM TagsKeepPopsHonest ==
  ASSUME SafeUse
  PROVE  LagSpec /\ []InTime => Spec /\ HonestPops
<1>1. InTime /\ TagsTell
        => [\A t \in Threads : PopCas(t) => r[t].nxt = At(word1, AddrOf(r[t].old))]_vars
  <2> SUFFICES ASSUME InTime, TagsTell, NEW t \in Threads, PopCas(t)
               PROVE  r[t].nxt = At(word1, AddrOf(r[t].old))
    OBVIOUS
  <2>1. InPop(t)
    BY DEF InPop, PopCas
  <2>2. HonestPop(t)
    BY <2>1, InTimeIsHonest DEF InTime, TagsTell
  <2> QED BY <2>2 DEF HonestPop
<1>2. [Next /\ CountSwaps]_lagVars => [Next]_vars
  BY DEF lagVars
<1>3. LagSpec => Spec
  BY <1>2, PTL DEF LagSpec, Spec
<1> QED BY <1>1, <1>3, TagsTellHolds, PTL DEF HonestPops

(* So none of it needs more than that no pop is overtaken by a whole turn of *)
(* the tags: blocks in use never overlap and keep their contents, the free   *)
(* lists hold free blocks, the allocator is a malloc, its bins are stacks,   *)
(* and nothing is lost.                                                      *)
THEOREM InTimeIsSafe ==
  ASSUME SafeUse
  PROVE  LagSpec /\ []InTime
           => /\ [](NoOverlap /\ LiveBlocksValid /\ FreeListsValid /\ ContentsSurvive)
              /\ [](SpeculativeReadSafe /\ FailureJustified /\ HeapInvNow /\ TypeOK)
              /\ RefinesMalloc /\ BinsRefineStacks /\ BumpMovesUp /\ NothingLeaks
BY TagsKeepPopsHonest, NothingOverlaps, LiveBlocksAreValid, FreeListsAreValid, ContentsAreKept,
   SpeculativeReadsAreSafe, FailuresAreJustified, HeapInvNowHolds, TypeOKHolds, AllocatorIsMalloc,
   BinsAreStacks, BumpOnlyMovesUp, NothingIsLeaked, PTL
=============================================================================
