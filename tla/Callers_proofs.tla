--------------------------- MODULE Callers_proofs ---------------------------
(***************************************************************************)
(* The callers of the allocator, for any threads, payloads, layouts and    *)
(* offsets: views stay inside allocated payloads, and what GlobalAlloc     *)
(* hands out is aligned, large enough and apart from everything else.      *)
(* Of the allocator only its contract, Malloc, is used.                    *)
(***************************************************************************)
EXTENDS Callers, TLAPS

-----------------------------------------------------------------------------
(* The invariant.                                                          *)

SliceType == [ptr : Nat, len : Nat]
BoxType == [ptr : Nat, size : Nat, align : Nat \ {0}]
CallType == [op : {"none", "alloc", "free", "realloc"}, size : Nat, src : SliceType,
             hold : {"none", "whole", "cut", "given"}]
ViaType == [api : {"slice", "global"}, align : Nat \ {0}, box : BoxType]

Types ==
  /\ live \subseteq Payloads /\ detached \subseteq live
  /\ call \in [Threads -> CallType] /\ via \in [Threads -> ViaType]
  /\ views \subseteq [ptr : Nat, len : Nat, owner : Int]
  /\ boxes \subseteq BoxType
  /\ \A t \in Threads : /\ call[t].hold = "whole" => call[t].src \in Payloads
                        /\ call[t].op = "alloc" => call[t].hold = "none"

\* The call of t keeps memory from everybody else.
Holding(t) == call[t].hold \in {"whole", "cut"}

\* Allocated payloads are disjoint, those in the hands of a call included.
Disjoint ==
  /\ \A s, u \in live : s # u => ~M!Meet(s, u)
  /\ \A t \in Threads, s \in live : Holding(t) => ~M!Meet(call[t].src, s)
  /\ \A t, u \in Threads : t # u /\ Holding(t) /\ Holding(u) => ~M!Meet(call[t].src, call[u].src)

\* What bounds a view is allocated, and the view is inside it.
Bounded(v) ==
  \/ v.owner = Vouched
  \/ v.owner = Unbounded /\ \E s \in detached : Inside(v, s)
  \/ \E s \in live \ detached : s.ptr = v.owner /\ Inside(v, s)

ViewsBound == \A v \in views : Bounded(v)

Aligned(ptr, align) == MIN_ALIGN % align = 0 /\ ptr % align = 0

\* Behind a pointer of GlobalAlloc is a payload that no Slice and no view names.
Backed(b) ==
  /\ Aligned(b.ptr, b.align)
  /\ \E s \in live \ detached : s.ptr = b.ptr /\ b.size <= s.len
  /\ \A v \in views : v.owner # b.ptr

BoxesBacked ==
  /\ \A b \in boxes : Backed(b)
  /\ \A b, c \in boxes : b.ptr = c.ptr => b = c

\* What GlobalAlloc keeps while it is inside a call of the allocator.
ViaKept ==
  \A t \in Threads :
    /\ call[t].op = "alloc" => via[t].box = NoBox
    /\ call[t].op \in {"alloc", "realloc"} /\ via[t].api = "global" => MIN_ALIGN % via[t].align = 0
    /\ call[t].op = "realloc" /\ via[t].api = "slice" => via[t].box = NoBox
    /\ call[t].op = "realloc" /\ call[t].hold = "whole" /\ via[t].api = "global" =>
         /\ Aligned(via[t].box.ptr, via[t].box.align)
         /\ via[t].box.ptr = call[t].src.ptr /\ via[t].box.size <= call[t].src.len

CInv == Types /\ Disjoint /\ ViewsBound /\ BoxesBacked /\ ViaKept

-----------------------------------------------------------------------------
(* Arithmetic.                                                             *)

\* Payloads that start at one address are one payload, if they are disjoint.
LEMMA SamePtr ==
  ASSUME NEW s \in [ptr : Nat \ {0}, len : Nat \ {0}],
         NEW u \in [ptr : Nat, len : Nat \ {0}], s.ptr = u.ptr
  PROVE  M!Meet(s, u) /\ M!Meet(u, s)
  BY DEF M!Meet

\* A multiple of a multiple of an alignment is aligned.
LEMMA AlignDown ==
  ASSUME NEW a \in Nat \ {0}, NEW m \in Nat \ {0}, NEW x \in Nat,
         m % a = 0, x % m = 0
  PROVE  x % a = 0
<1>1. PICK j \in Int : m = a * j
  OBVIOUS
<1>2. PICK k \in Int : x = m * k
  OBVIOUS
<1>3. x = a * (j * k)
  BY <1>1, <1>2
<1>4. j * k \in Int
  OBVIOUS
<1> QED BY <1>3, <1>4

-----------------------------------------------------------------------------
(* Views.                                                                  *)

\* A part of a view is bounded as the view is.
LEMMA PartBounded ==
  ASSUME Types, NEW v \in views, Bounded(v), NEW o \in Nat, NEW n \in Nat, o + n <= v.len
  PROVE  /\ Part(v, o, n) \in [ptr : Nat, len : Nat, owner : Int]
         /\ Bounded(Part(v, o, n)) /\ Part(v, o, n).owner = v.owner
<1> DEFINE p == Part(v, o, n)
<1>1. v \in [ptr : Nat, len : Nat, owner : Int]
  BY DEF Types
<1>2. /\ p \in [ptr : Nat, len : Nat, owner : Int]
      /\ p.ptr = v.ptr + o /\ p.len = n /\ p.owner = v.owner
  <2>1. p = [[v EXCEPT !.ptr = v.ptr + o] EXCEPT !.len = n]
    BY <1>1 DEF Part
  <2>2. [v EXCEPT !.ptr = v.ptr + o] \in [ptr : Nat, len : Nat, owner : Int]
    BY <1>1
  <2> HIDE DEF p
  <2> QED BY <1>1, <2>1, <2>2
<1>3. ASSUME NEW s \in live, Inside(v, s)
      PROVE  Inside(p, s)
  <2>1. s.ptr \in Nat /\ s.len \in Nat
    BY CallersAssumption DEF Types
  <2> HIDE DEF p
  <2> QED BY <1>1, <1>2, <1>3, <2>1 DEF Inside
<1>4. Bounded(p)
  BY <1>2, <1>3 DEF Bounded, Types
<1> QED BY <1>2, <1>4

\* Deriving views adds bounded views, of owners that other views have.
LEMMA NewViewsBound ==
  ASSUME CInv, NEW new, views' = views \cup new,
         new \subseteq [ptr : Nat, len : Nat, owner : Int],
         \A v \in new : Bounded(v) /\ \E w \in views : v.owner = w.owner,
         UNCHANGED <<live, call, via, detached, boxes>>
  PROVE  CInv'
<1>1. Types' BY DEF CInv, Types
<1>2. Disjoint' BY DEF CInv, Disjoint, Holding, M!Meet
<1>3. ViewsBound' BY DEF CInv, ViewsBound, Bounded
<1>4. BoxesBacked' BY DEF CInv, BoxesBacked, Backed
<1>5. ViaKept' BY DEF CInv, ViaKept
<1> QED BY <1>1, <1>2, <1>3, <1>4, <1>5 DEF CInv

\* Borrowing, deriving and dropping views, and the conversions to and from a Slice.
LEMMA ViewStepCInv ==
  ASSUME CInv, ViewStep
  PROVE  CInv'
<1>1. CASE View
  <2>1. PICK s \in Owned : views' = views \cup {ViewOf(s, s.ptr)}
    BY <1>1 DEF View, NewViews
  <2>2. s \in live \ detached /\ s \in [ptr : Nat \ {0}, len : Nat \ {0}] /\ \A b \in boxes : b.ptr # s.ptr
    BY <2>1, CallersAssumption DEF Owned, CInv, Types
  <2>3. UNCHANGED <<live, call, via, detached, boxes>>
    BY <1>1 DEF View
  <2>4. Types' BY <2>1, <2>2, <2>3 DEF CInv, Types, ViewOf
  <2>5. Disjoint' BY <2>3 DEF CInv, Disjoint, Holding, M!Meet
  <2>6. ViewsBound'
    <3>1. Inside(ViewOf(s, s.ptr), s) /\ ViewOf(s, s.ptr).owner = s.ptr
      BY <2>2 DEF Inside, ViewOf
    <3> QED BY <2>1, <2>2, <2>3, <3>1 DEF CInv, ViewsBound, Bounded
  <2>7. BoxesBacked' BY <2>1, <2>2, <2>3 DEF CInv, BoxesBacked, Backed, ViewOf
  <2>8. ViaKept' BY <2>3 DEF CInv, ViaKept
  <2> QED BY <2>4, <2>5, <2>6, <2>7, <2>8 DEF CInv
<1>2. CASE Subslice
  <2>1. PICK v \in views, o \in Offsets, n \in Offsets :
          HasPart(v, o, n) /\ views' = views \cup {Part(v, o, n)}
    BY <1>2 DEF Subslice, NewViews
  <2>2. o \in Nat /\ n \in Nat /\ o + n <= v.len
    BY <2>1, CallersAssumption DEF HasPart
  <2>3. /\ Part(v, o, n) \in [ptr : Nat, len : Nat, owner : Int]
        /\ Bounded(Part(v, o, n)) /\ Part(v, o, n).owner = v.owner
    BY <2>2, PartBounded DEF CInv, ViewsBound
  <2> DEFINE new == {Part(v, o, n)}
  <2>4. /\ new \subseteq [ptr : Nat, len : Nat, owner : Int]
        /\ \A x \in new : Bounded(x) /\ \E w \in views : x.owner = w.owner
    BY <2>3
  <2>5. views' = views \cup new /\ UNCHANGED <<live, call, via, detached, boxes>>
    BY <1>2, <2>1 DEF Subslice
  <2> HIDE DEF new
  <2> QED BY <2>4, <2>5, NewViewsBound
<1>3. CASE SplitAt
  <2>1. PICK v \in views, mid \in Offsets :
          mid <= v.len /\ views' = views \cup {HeadAt(v, mid), TailAt(v, mid)}
    BY <1>3 DEF SplitAt, NewViews
  <2>2. mid \in Nat /\ v.len \in Nat /\ v.len - mid \in Nat /\ 0 + mid <= v.len /\ mid + (v.len - mid) <= v.len
    BY <2>1, CallersAssumption DEF CInv, Types
  <2>3. /\ HeadAt(v, mid) \in [ptr : Nat, len : Nat, owner : Int]
        /\ Bounded(HeadAt(v, mid)) /\ HeadAt(v, mid).owner = v.owner
    BY <2>2, PartBounded DEF CInv, ViewsBound, HeadAt
  <2>4. /\ TailAt(v, mid) \in [ptr : Nat, len : Nat, owner : Int]
        /\ Bounded(TailAt(v, mid)) /\ TailAt(v, mid).owner = v.owner
    BY <2>2, PartBounded DEF CInv, ViewsBound, TailAt
  <2> DEFINE new == {HeadAt(v, mid), TailAt(v, mid)}
  <2>5. /\ new \subseteq [ptr : Nat, len : Nat, owner : Int]
        /\ \A x \in new : Bounded(x) /\ \E w \in views : x.owner = w.owner
    BY <2>3, <2>4
  <2>6. views' = views \cup new /\ UNCHANGED <<live, call, via, detached, boxes>>
    BY <1>3, <2>1 DEF SplitAt
  <2> HIDE DEF new
  <2> QED BY <2>5, <2>6, NewViewsBound
<1>4. CASE DropView
  <2>1. views' \subseteq views /\ UNCHANGED <<live, call, via, detached, boxes>>
    BY <1>4 DEF DropView
  <2>2. Types' BY <2>1 DEF CInv, Types
  <2>3. Disjoint' BY <2>1 DEF CInv, Disjoint, Holding, M!Meet
  <2>4. ViewsBound' BY <2>1 DEF CInv, ViewsBound, Bounded
  <2>5. BoxesBacked' BY <2>1 DEF CInv, BoxesBacked, Backed
  <2>6. ViaKept' BY <2>1 DEF CInv, ViaKept
  <2> QED BY <2>2, <2>3, <2>4, <2>5, <2>6 DEF CInv
<1>5. CASE IntoView
  <2>1. PICK s \in Owned : /\ Movable(s) /\ detached' = detached \cup {s}
                           /\ views' = views \cup {ViewOf(s, Unbounded)}
    BY <1>5 DEF IntoView, NewViews
  <2>2. /\ s \in live \ detached /\ s \in [ptr : Nat \ {0}, len : Nat \ {0}]
        /\ \A b \in boxes : b.ptr # s.ptr
    BY <2>1, CallersAssumption DEF Owned, CInv, Types
  <2>3. UNCHANGED <<live, call, via, boxes>>
    BY <1>5 DEF IntoView
  <2>4. Types' BY <2>1, <2>2, <2>3 DEF CInv, Types, ViewOf, Unbounded
  <2>5. Disjoint' BY <2>3 DEF CInv, Disjoint, Holding, M!Meet
  <2>6. ViewsBound'
    <3>1. Bounded(ViewOf(s, Unbounded))'
      BY <2>1, <2>2 DEF Bounded, ViewOf, Inside
    <3>2. ASSUME NEW v \in views PROVE Bounded(v)'
      BY <2>1, <2>3 DEF CInv, ViewsBound, Bounded, Movable
    <3> QED BY <2>1, <3>1, <3>2 DEF ViewsBound, Bounded
  <2>7. BoxesBacked'
    <3>1. ASSUME NEW b \in boxes PROVE Backed(b)'
      <4>1. b.ptr # 0
        BY CallersAssumption DEF CInv, BoxesBacked, Backed, Types
      <4> QED BY <2>1, <2>2, <2>3, <4>1 DEF CInv, BoxesBacked, Backed, ViewOf, Unbounded
    <3> QED BY <2>3, <3>1 DEF CInv, BoxesBacked
  <2>8. ViaKept' BY <2>3 DEF CInv, ViaKept
  <2> QED BY <2>4, <2>5, <2>6, <2>7, <2>8 DEF CInv
<1>6. CASE ToSlice
  <2> DEFINE Mark(v, s) == IF v.owner = Unbounded /\ Inside(v, s)
                             THEN [v EXCEPT !.owner = Vouched] ELSE v
  <2>1. PICK s \in detached : /\ detached' = detached \ {s}
                              /\ views' = {Mark(v, s) : v \in views}
    BY <1>6 DEF ToSlice
  <2>2. UNCHANGED <<live, call, via, boxes>>
    BY <1>6 DEF ToSlice
  <2>3. Types' BY <2>1, <2>2 DEF CInv, Types, Vouched
  <2>4. Disjoint' BY <2>2 DEF CInv, Disjoint, Holding, M!Meet
  <2>5. ViewsBound'
    <3> SUFFICES ASSUME NEW w \in views' PROVE Bounded(w)'
      BY DEF ViewsBound
    <3>0. PICK v \in views : w = Mark(v, s)
      BY <2>1
    <3>1. CASE v.owner = Unbounded /\ Inside(v, s)
      <4>1. Mark(v, s).owner = Vouched
        BY <3>1 DEF CInv, Types
      <4> QED BY <3>0, <4>1 DEF Bounded
    <3>2. CASE ~(v.owner = Unbounded /\ Inside(v, s))
      <4>1. Mark(v, s) = v
        BY <3>2
      <4>2. Bounded(v)'
        BY <2>1, <2>2, <3>2 DEF CInv, ViewsBound, Bounded
      <4> QED BY <3>0, <4>1, <4>2
    <3> QED BY <3>1, <3>2
  <2>6. BoxesBacked'
    <3>1. ASSUME NEW b \in boxes PROVE Backed(b)'
      <4>1. b.ptr \in Nat /\ \A v \in views : v.owner # b.ptr
        BY DEF CInv, BoxesBacked, Backed, Types, BoxType
      <4>2. \A v \in views : Mark(v, s).owner # b.ptr
        BY <4>1 DEF CInv, Types, Vouched
      <4> QED BY <2>1, <2>2, <4>2 DEF CInv, BoxesBacked, Backed
    <3> QED BY <2>2, <3>1 DEF CInv, BoxesBacked
  <2>7. ViaKept' BY <2>2 DEF CInv, ViaKept
  <2> QED BY <2>3, <2>4, <2>5, <2>6, <2>7 DEF CInv
<1> QED BY <1>1, <1>2, <1>3, <1>4, <1>5, <1>6 DEF ViewStep

-----------------------------------------------------------------------------
(* Calls.                                                                  *)

\* The values a call starts and ends with.
LEMMA CallTypes ==
  /\ M!NoCall \in CallType /\ M!NoCall.op = "none" /\ M!NoCall.hold = "none"
  /\ NoBox \in BoxType
  BY DEF M!NoCall, M!Null, CallType, SliceType, NoBox, BoxType

\* A call that holds no memory begins or ends, and nothing else changes.
LEMMA EmptyHanded ==
  ASSUME CInv, NEW t \in Threads, NEW c \in CallType, NEW w \in ViaType,
         call' = [call EXCEPT ![t] = c], via' = [via EXCEPT ![t] = w],
         c.hold = "none", c.op \in {"none", "alloc"},
         c.op = "alloc" => w.box = NoBox /\ (w.api = "global" => MIN_ALIGN % w.align = 0),
         UNCHANGED <<live, views, detached, boxes>>
  PROVE  CInv'
<1>1. call'[t] = c /\ via'[t] = w /\ \A u \in Threads \ {t} : call'[u] = call[u] /\ via'[u] = via[u]
  BY DEF CInv, Types
<1>2. Types' BY <1>1 DEF CInv, Types
<1>3. Disjoint' BY <1>1 DEF CInv, Disjoint, Holding, M!Meet
<1>4. ViewsBound' BY DEF CInv, ViewsBound, Bounded
<1>5. BoxesBacked' BY DEF CInv, BoxesBacked, Backed
<1>6. ViaKept' BY <1>1 DEF CInv, ViaKept
<1> QED BY <1>2, <1>3, <1>4, <1>5, <1>6 DEF CInv

\* A call takes a payload that no view borrows, and its box if it has one.
LEMMA Taken ==
  ASSUME CInv, NEW t \in Threads, NEW s \in live \ detached, NEW c \in CallType, NEW w \in ViaType,
         call' = [call EXCEPT ![t] = c], via' = [via EXCEPT ![t] = w],
         c.op \in {"free", "realloc"}, c.src = s, c.hold = "whole",
         c.op = "realloc" =>
           /\ w.api = "slice" => w.box = NoBox
           /\ w.api = "global" => /\ MIN_ALIGN % w.align = 0
                                  /\ Aligned(w.box.ptr, w.box.align)
                                  /\ w.box.ptr = s.ptr /\ w.box.size <= s.len,
         \A v \in views : v.owner # s.ptr,
         live' = live \ {s}, boxes' = {b \in boxes : b.ptr # s.ptr},
         UNCHANGED <<views, detached>>
  PROVE  CInv'
<1>1. call'[t] = c /\ via'[t] = w /\ \A u \in Threads \ {t} : call'[u] = call[u] /\ via'[u] = via[u]
  BY DEF CInv, Types
<1>2. Types' BY <1>1 DEF CInv, Types
<1>3. Disjoint'
  <2>1. \A u \in Threads \ {t} : Holding(u) => ~M!Meet(s, call[u].src)
    BY DEF CInv, Disjoint, M!Meet
  <2> QED BY <1>1, <2>1 DEF CInv, Disjoint, Holding, M!Meet
<1>4. ViewsBound' BY DEF CInv, ViewsBound, Bounded
<1>5. BoxesBacked' BY DEF CInv, BoxesBacked, Backed
<1>6. ViaKept' BY <1>1 DEF CInv, ViaKept
<1> QED BY <1>2, <1>3, <1>4, <1>5, <1>6 DEF CInv

\* A payload that meets no other comes out of a call: into the hands of a
\* Slice, of nobody, or of GlobalAlloc's caller.
LEMMA Returned ==
  ASSUME CInv, NEW t \in Threads, NEW s \in Payloads,
         \A u \in live : ~M!Meet(s, u),
         \A u \in Threads \ {t} : Holding(u) => ~M!Meet(s, call[u].src),
         call' = [call EXCEPT ![t] = M!NoCall],
         live' = live \cup {s},
         \/ /\ detached' \in {detached, detached \cup {s}} /\ boxes' = boxes
         \/ /\ detached' = detached
            /\ \E b \in BoxType : /\ b.ptr = s.ptr /\ b.size <= s.len /\ Aligned(b.ptr, b.align)
                                  /\ boxes' = boxes \cup {b},
         UNCHANGED <<views, via>>
  PROVE  CInv'
<1>1. call'[t] = M!NoCall /\ \A u \in Threads \ {t} : call'[u] = call[u]
  BY DEF CInv, Types
<1>2. s \in [ptr : Nat \ {0}, len : Nat \ {0}]
      /\ \A u \in live : u \in [ptr : Nat \ {0}, len : Nat \ {0}] /\ u.ptr # s.ptr
  BY CallersAssumption, SamePtr DEF CInv, Types
<1>3. s \notin live
  BY <1>2
<1>4. \A v \in views : v.owner # s.ptr
  BY <1>2, <1>3 DEF CInv, ViewsBound, Bounded, Types, Vouched, Unbounded
<1>5. \A b \in boxes : b.ptr # s.ptr
  BY <1>2 DEF CInv, BoxesBacked, Backed
<1>6. Types'
  BY <1>1, CallTypes DEF CInv, Types
<1>7. Disjoint'
  <2>1. \A u \in Threads : (call'[u].hold \in {"whole", "cut"}) => u # t /\ Holding(u)
    BY <1>1, CallTypes DEF Holding
  <2>2. \A u \in live : ~M!Meet(u, s)
    BY DEF M!Meet
  <2>3. \A u \in Threads \ {t} : Holding(u) => ~M!Meet(call[u].src, s)
    BY DEF M!Meet
  <2>4. \A x, y \in live' : x # y => ~M!Meet(x, y)
    BY <2>2 DEF CInv, Disjoint
  <2> QED BY <1>1, <2>1, <2>3, <2>4 DEF CInv, Disjoint, Holding, M!Meet
<1>8. ViewsBound'
  BY <1>3 DEF CInv, ViewsBound, Bounded, Types
<1>9. BoxesBacked'
  <2>1. \A b \in boxes : Backed(b)'
    BY <1>3 DEF CInv, BoxesBacked, Backed, Types
  <2>2. CASE boxes' = boxes
    BY <2>1, <2>2 DEF CInv, BoxesBacked
  <2>3. ASSUME detached' = detached, NEW b \in BoxType, b.ptr = s.ptr, b.size <= s.len,
               Aligned(b.ptr, b.align), boxes' = boxes \cup {b}
        PROVE  BoxesBacked'
    <3>1. Backed(b)'
      BY <1>3, <1>4, <2>3 DEF CInv, Types, Backed, Aligned
    <3> QED BY <1>5, <2>1, <2>3, <3>1 DEF CInv, BoxesBacked
  <2> QED BY <2>2, <2>3
<1>10. ViaKept'
  BY <1>1, CallTypes DEF CInv, ViaKept
<1> QED BY <1>6, <1>7, <1>8, <1>9, <1>10 DEF CInv

\* A call gives up some or all of the memory it holds.
LEMMA WorkCInv ==
  ASSUME CInv, NEW t \in Threads, Work(t)
  PROVE  CInv'
<1>1. UNCHANGED <<live, via, views, detached, boxes>>
  BY DEF Work, M!Cut, M!Give
<1>2. call[t] \in CallType
  BY DEF CInv, Types
<1>3. ASSUME call' \in [Threads -> CallType], \A u \in Threads \ {t} : call'[u] = call[u],
             Holding(t), call[t].op \in {"free", "realloc"}, call'[t].op = call[t].op,
             call'[t].hold \in {"cut", "given"}, call'[t].src.ptr = call[t].src.ptr,
             call'[t].src.len <= call[t].src.len
      PROVE  CInv'
  <2>1. Types'
    <3>1. \A u \in Threads : /\ call'[u].hold = "whole" => call'[u].src \in Payloads
                            /\ call'[u].op = "alloc" => call'[u].hold = "none"
      <4>1. \A u \in Threads \ {t} : /\ call'[u].hold = "whole" => call'[u].src \in Payloads
                                    /\ call'[u].op = "alloc" => call'[u].hold = "none"
        BY <1>3 DEF CInv, Types
      <4>2. call'[t].hold # "whole" /\ call'[t].op # "alloc"
        BY <1>3
      <4> QED BY <4>1, <4>2
    <3> QED BY <1>1, <1>3, <3>1 DEF CInv, Types
  <2>2. Disjoint'
    <3> DEFINE src(u) == call[u].src
    <3>1. \A u \in Threads : src(u) \in SliceType
      BY DEF CInv, Types, CallType
    <3>2. \A u \in Threads : Holding(u)' => Holding(u)
      BY <1>3 DEF Holding
    <3>3. ASSUME NEW x \in SliceType
          PROVE  /\ ~M!Meet(src(t), x) => ~M!Meet(call'[t].src, x)
                 /\ ~M!Meet(x, src(t)) => ~M!Meet(x, call'[t].src)
      <4>1. call'[t].src \in SliceType
        BY <1>3 DEF CallType
      <4> HIDE DEF src
      <4>2. src(t) \in SliceType /\ call'[t].src.ptr = src(t).ptr /\ call'[t].src.len <= src(t).len
        BY <1>3, <3>1 DEF src
      <4> QED BY <3>3, <4>1, <4>2 DEF SliceType, M!Meet
    <3>4. \A x \in live : x \in SliceType
      BY CallersAssumption DEF CInv, Types, SliceType
    <3>5. \A u \in Threads, x \in live : Holding(u)' => ~M!Meet(call'[u].src, x)
      BY <1>3, <3>2, <3>3, <3>4 DEF CInv, Disjoint
    <3>6. \A u, w \in Threads : u # w /\ Holding(u)' /\ Holding(w)' => ~M!Meet(call'[u].src, call'[w].src)
      BY <1>3, <3>1, <3>2, <3>3 DEF CInv, Disjoint
    <3> QED BY <1>1, <3>5, <3>6 DEF CInv, Disjoint, M!Meet
  <2>3. ViewsBound' BY <1>1 DEF CInv, ViewsBound, Bounded
  <2>4. BoxesBacked' BY <1>1 DEF CInv, BoxesBacked, Backed
  <2>5. ViaKept' BY <1>1, <1>3 DEF CInv, ViaKept
  <2> QED BY <2>1, <2>2, <2>3, <2>4, <2>5 DEF CInv
<1>4. CASE M!Cut(t)
  <2>1. PICK n \in 0 .. call[t].src.len : call' = [call EXCEPT ![t].src.len = n, ![t].hold = "cut"]
    BY <1>4 DEF M!Cut
  <2> DEFINE src == [call[t].src EXCEPT !.len = n]
  <2>a. src \in SliceType /\ src.ptr = call[t].src.ptr /\ src.len = n
    BY <1>2, <2>1 DEF CallType, SliceType
  <2>b. call' = [call EXCEPT ![t] = [[call[t] EXCEPT !.src = src] EXCEPT !.hold = "cut"]]
    BY <2>1
  <2> HIDE DEF src
  <2>2. /\ call'[t] \in CallType /\ call'[t].src.ptr = call[t].src.ptr /\ call'[t].src.len = n
        /\ call'[t].hold = "cut" /\ call'[t].op = call[t].op
        /\ \A u \in Threads \ {t} : call'[u] = call[u]
        /\ DOMAIN call' = Threads /\ call' = [u \in Threads |-> call'[u]]
    BY <1>2, <2>a, <2>b DEF CInv, Types, CallType
  <2>3. call' \in [Threads -> CallType]
    BY <2>2 DEF CInv, Types
  <2> QED BY <1>2, <1>3, <1>4, <2>2, <2>3 DEF M!Cut, Holding, CallType, SliceType
<1>5. CASE M!Give(t)
  <2>1. /\ call'[t] \in CallType /\ call'[t].src = call[t].src
        /\ call'[t].hold = "given" /\ call'[t].op = call[t].op
        /\ \A u \in Threads \ {t} : call'[u] = call[u]
        /\ DOMAIN call' = Threads /\ call' = [u \in Threads |-> call'[u]]
    BY <1>2, <1>5 DEF M!Give, CInv, Types, CallType
  <2>2. call' \in [Threads -> CallType]
    BY <2>1 DEF CInv, Types
  <2> QED BY <1>2, <1>3, <1>5, <2>1, <2>2 DEF M!Give, Holding, CallType, SliceType
<1> QED BY <1>4, <1>5 DEF Work

\* A slice that goes into free or realloc goes into a call of that kind.
LEMMA TakingCall ==
  ASSUME NEW t \in Threads, NEW s \in SliceType, NEW n \in Nat,
         M!CallFree(t, s) \/ M!CallRealloc(t, s, n)
  PROVE  \E c \in CallType :
           /\ call' = [call EXCEPT ![t] = c] /\ live' = live \ {s}
           /\ c.src = s /\ c.hold = "whole" /\ c.op \in {"free", "realloc"}
           /\ M!CallFree(t, s) => c.op = "free"
<1>1. CASE M!CallFree(t, s)
  <2> DEFINE c == [op |-> "free", size |-> 0, src |-> s, hold |-> "whole"]
  <2>1. c \in CallType /\ c.src = s /\ c.hold = "whole" /\ c.op = "free"
    BY DEF CallType
  <2>2. call' = [call EXCEPT ![t] = c] /\ live' = live \ {s}
    BY <1>1 DEF M!CallFree, M!Begin
  <2> HIDE DEF c
  <2> QED BY <2>1, <2>2
<1>2. CASE ~M!CallFree(t, s) /\ M!CallRealloc(t, s, n)
  <2> DEFINE c == [op |-> "realloc", size |-> n, src |-> s, hold |-> "whole"]
  <2>1. c \in CallType /\ c.src = s /\ c.hold = "whole" /\ c.op = "realloc"
    BY DEF CallType
  <2>2. call' = [call EXCEPT ![t] = c] /\ live' = live \ {s}
    BY <1>2 DEF M!CallRealloc, M!Begin
  <2> HIDE DEF c
  <2> QED BY <1>2, <2>1, <2>2
<1> QED BY <1>1, <1>2

\* Every call, from its entry to its return.
LEMMA CallStepCInv ==
  ASSUME CInv, NEW t \in Threads, CallStep(t)
  PROVE  CInv'
<1>1. /\ call[t] \in CallType /\ via[t] \in ViaType
      /\ \A s \in live : s \in [ptr : Nat \ {0}, len : Nat \ {0}]
  BY CallersAssumption DEF CInv, Types
<1>2. Sizes \subseteq Nat /\ RequestSizes \subseteq Nat
  <2>1. \A l \in Layouts : l.size \in Nat
    BY CallersAssumption
  <2> QED BY <2>1, CallersAssumption DEF RequestSizes
<1>3. ViaSlice \in ViaType /\ ViaSlice.api = "slice" /\ ViaSlice.box = NoBox
  BY CallTypes DEF ViaSlice, ViaType
<1>4. ASSUME NEW a \in Nat \ {0}, NEW b \in BoxType
      PROVE  /\ ViaGlobal(a, b) \in ViaType /\ ViaGlobal(a, b).api = "global"
             /\ ViaGlobal(a, b).align = a /\ ViaGlobal(a, b).box = b
  BY DEF ViaGlobal, ViaType
<1>5. CASE Alloc(t) \/ GlobalAlloc(t)
  <2>1. PICK n \in Nat, w \in ViaType :
          /\ M!CallAlloc(t, n) /\ via' = [via EXCEPT ![t] = w]
          /\ w.box = NoBox /\ (w.api = "global" => MIN_ALIGN % w.align = 0)
    <3>1. CASE Alloc(t)
      BY <1>2, <1>3, <3>1 DEF Alloc
    <3>2. CASE GlobalAlloc(t)
      <4>1. PICK l \in Layouts : /\ Satisfiable(l) /\ M!CallAlloc(t, l.size)
                                 /\ via' = [via EXCEPT ![t] = ViaGlobal(l.align, NoBox)]
        BY <3>2 DEF GlobalAlloc
      <4>2. l.size \in Nat /\ l.align \in Nat \ {0} /\ MIN_ALIGN % l.align = 0
        <5>1. l \in [size : Nat, align : Nat \ {0}] /\ l.align <= MIN_ALIGN
          BY <4>1, CallersAssumption DEF Satisfiable
        <5>2. MIN_ALIGN % l.align = 0
          BY <5>1, CallersAssumption
        <5> QED BY <5>1, <5>2
      <4> DEFINE n == l.size
      <4> DEFINE w == ViaGlobal(l.align, NoBox)
      <4>3. w \in ViaType /\ w.box = NoBox /\ w.align = l.align
        BY <1>4, <4>2, CallTypes
      <4>4. n \in Nat /\ M!CallAlloc(t, n) /\ via' = [via EXCEPT ![t] = w] /\ MIN_ALIGN % w.align = 0
        BY <4>1, <4>2, <4>3
      <4> HIDE DEF n, w
      <4> QED BY <4>3, <4>4
    <3> QED BY <1>5, <3>1, <3>2
  <2> DEFINE c == [op |-> "alloc", size |-> n, src |-> M!Null, hold |-> "none"]
  <2>2. c \in CallType /\ c.hold = "none" /\ c.op = "alloc"
    BY DEF M!Null, CallType, SliceType
  <2>3. call' = [call EXCEPT ![t] = c] /\ UNCHANGED <<live, views, detached, boxes>>
    BY <1>5, <2>1 DEF M!CallAlloc, M!Begin, Alloc, GlobalAlloc
  <2> HIDE DEF c
  <2> QED BY <2>1, <2>2, <2>3, EmptyHanded
<1>6. ASSUME NEW s \in Owned, Movable(s), NEW n \in Nat, M!CallFree(t, s) \/ M!CallRealloc(t, s, n),
             via' = [via EXCEPT ![t] = ViaSlice], UNCHANGED <<views, detached, boxes>>
      PROVE  CInv'
  <2>1. PICK c \in CallType : /\ call' = [call EXCEPT ![t] = c] /\ c.op \in {"free", "realloc"}
                              /\ c.src = s /\ c.hold = "whole" /\ live' = live \ {s}
    <3>1. s \in SliceType
      BY <1>1, <1>6 DEF Owned, SliceType
    <3> QED BY <1>6, <3>1, TakingCall
  <2>2. s \in live \ detached /\ boxes' = {b \in boxes : b.ptr # s.ptr}
    BY <1>6 DEF Owned
  <2>3. \A v \in views : v.owner # s.ptr
    BY <1>6 DEF Movable
  <2>4. UNCHANGED <<views, detached>>
    BY <1>6
  <2> QED BY <1>3, <1>6, <2>1, <2>2, <2>3, <2>4, Taken
<1>7. CASE Free(t)
  BY <1>6, <1>7 DEF Free
<1>8. CASE Realloc(t)
  BY <1>2, <1>6, <1>8 DEF Realloc
<1>9. ASSUME NEW b \in boxes, NEW s \in live, s.ptr = b.ptr, NEW n \in Nat,
             NEW box \in {NoBox, b}, box = b \/ M!CallFree(t, s),
             M!CallFree(t, s) \/ M!CallRealloc(t, s, n),
             via' = [via EXCEPT ![t] = ViaGlobal(b.align, box)], boxes' = boxes \ {b},
             UNCHANGED <<views, detached>>
      PROVE  CInv'
  <2>1. /\ b \in BoxType /\ Aligned(b.ptr, b.align) /\ \A v \in views : v.owner # s.ptr
        /\ s \notin detached /\ b.size <= s.len
    <3>1. PICK u \in live \ detached : u.ptr = b.ptr /\ b.size <= u.len
      BY DEF CInv, BoxesBacked, Backed
    <3>2. u = s
      BY <1>1, <1>9, <3>1, SamePtr DEF CInv, Disjoint
    <3> QED BY <1>9, <3>1, <3>2 DEF CInv, BoxesBacked, Backed, Types
  <2>2. PICK c \in CallType : /\ call' = [call EXCEPT ![t] = c] /\ c.op \in {"free", "realloc"}
                              /\ c.op = "realloc" => box = b
                              /\ c.src = s /\ c.hold = "whole" /\ live' = live \ {s}
    <3>1. s \in SliceType
      BY <1>1, <1>9 DEF SliceType
    <3> QED BY <1>9, <3>1, TakingCall
  <2>3. boxes' = {x \in boxes : x.ptr # s.ptr}
    BY <1>9 DEF CInv, BoxesBacked
  <2>4. b.align \in Nat \ {0} /\ box \in BoxType /\ MIN_ALIGN % b.align = 0
    BY <2>1, CallTypes DEF BoxType, Aligned
  <2> DEFINE w == ViaGlobal(b.align, box)
  <2>5. w \in ViaType /\ w.api = "global" /\ w.align = b.align /\ w.box = box
    BY <1>4, <2>4
  <2>6. via' = [via EXCEPT ![t] = w] /\ UNCHANGED <<views, detached>>
    BY <1>9
  <2> HIDE DEF w
  <2>7. c.op = "realloc" => /\ Aligned(w.box.ptr, w.box.align) /\ MIN_ALIGN % w.align = 0
                            /\ w.box.ptr = s.ptr /\ w.box.size <= s.len
    BY <1>9, <2>1, <2>2, <2>4, <2>5
  <2>8. w.api # "slice" /\ s \in live \ detached
    BY <1>9, <2>1, <2>5
  <2> QED BY <2>1, <2>2, <2>3, <2>5, <2>6, <2>7, <2>8, Taken
<1>10. CASE GlobalDealloc(t)
  BY <1>9, <1>10 DEF GlobalDealloc
<1>11. CASE GlobalRealloc(t)
  BY <1>2, <1>9, <1>11 DEF GlobalRealloc
<1>12. CASE Work(t)
  BY <1>12, WorkCInv
<1>13. CASE ReturnNull(t)
  <2>1. call' = [call EXCEPT ![t] = M!NoCall] /\ UNCHANGED <<views, via>>
    BY <1>13 DEF ReturnNull, M!Fail
  <2>2. boxes' = boxes \/ (via[t].box # NoBox /\ boxes' = boxes \cup {via[t].box})
    BY <1>13 DEF ReturnNull
  <2>3. CASE call[t].op = "alloc"
    <3>1. UNCHANGED <<live, views, detached, boxes>>
      BY <1>13, <2>2, <2>3 DEF ReturnNull, M!Fail, CInv, ViaKept
    <3>2. via' = [via EXCEPT ![t] = via[t]]
      BY <2>1 DEF CInv, Types
    <3> QED BY <1>1, <2>1, <3>1, <3>2, CallTypes, EmptyHanded
  <2>4. CASE call[t].op # "alloc"
    <3>1. call[t].op = "realloc" /\ call[t].hold = "whole" /\ live' = live \cup {call[t].src}
      BY <1>13, <2>4 DEF ReturnNull, M!Fail
    <3>2. /\ call[t].src \in Payloads
          /\ \A u \in live : ~M!Meet(call[t].src, u)
          /\ \A u \in Threads \ {t} : Holding(u) => ~M!Meet(call[t].src, call[u].src)
      BY <3>1 DEF CInv, Types, Disjoint, Holding
    <3>3. CASE via[t].api = "slice"
      <4>1. boxes' = boxes /\ detached' \in {detached, detached \cup {call[t].src}}
        BY <1>13, <2>2, <3>1, <3>3 DEF ReturnNull, CInv, ViaKept
      <4> QED BY <2>1, <3>1, <3>2, <4>1, Returned
    <3>4. CASE via[t].api = "global"
      <4>1. detached' = detached
        BY <1>13, <3>4 DEF ReturnNull
      <4>2. /\ via[t].box \in BoxType /\ Aligned(via[t].box.ptr, via[t].box.align)
            /\ via[t].box.ptr = call[t].src.ptr /\ via[t].box.size <= call[t].src.len
        BY <1>1, <3>1, <3>4 DEF CInv, ViaKept, ViaType
      <4> QED BY <2>1, <2>2, <3>1, <3>2, <4>1, <4>2, Returned
    <3> QED BY <1>1, <3>3, <3>4 DEF ViaType
  <2> QED BY <2>3, <2>4
<1>14. CASE ReturnSlice(t)
  <2>1. PICK s \in Payloads :
          /\ M!Succeed(t, s)
          /\ boxes' = IF via[t].api = "global"
                        THEN boxes \cup {[ptr |-> s.ptr, size |-> call[t].size, align |-> via[t].align]}
                        ELSE boxes
    BY <1>14 DEF ReturnSlice
  <2>2. call' = [call EXCEPT ![t] = M!NoCall] /\ live' = live \cup {s} /\ UNCHANGED <<views, via, detached>>
    BY <1>14, <2>1 DEF ReturnSlice, M!Succeed
  <2>3. /\ call[t].op \in {"alloc", "realloc"} /\ call[t].size <= s.len /\ s.ptr % MIN_ALIGN = 0
        /\ \A u \in live : ~M!Meet(s, u)
        /\ \A u \in Threads \ {t} : Holding(u) => ~M!Meet(s, call[u].src)
    BY <1>1, <2>1, CallersAssumption DEF M!Succeed, M!Good, M!Others, Holding, CallType
  <2>4. CASE via[t].api = "slice"
    BY <2>1, <2>2, <2>3, <2>4, Returned
  <2>5. CASE via[t].api = "global"
    <3> DEFINE b == [ptr |-> s.ptr, size |-> call[t].size, align |-> via[t].align]
    <3>1. b \in BoxType /\ b.ptr = s.ptr /\ b.size <= s.len
      BY <1>1, <2>3, CallersAssumption DEF BoxType, CallType, ViaType
    <3>2. MIN_ALIGN % via[t].align = 0
      BY <2>3, <2>5 DEF CInv, ViaKept
    <3>3. Aligned(b.ptr, b.align)
      BY <1>1, <2>3, <3>2, AlignDown, CallersAssumption DEF Aligned, ViaType
    <3>4. boxes' = boxes \cup {b}
      BY <2>1, <2>5
    <3> HIDE DEF b
    <3> QED BY <2>2, <2>3, <3>1, <3>3, <3>4, Returned
  <2> QED BY <1>1, <2>4, <2>5 DEF ViaType
<1>15. CASE ReturnFreed(t)
  <2>1. /\ call' = [call EXCEPT ![t] = M!NoCall] /\ via' = [via EXCEPT ![t] = via[t]]
        /\ UNCHANGED <<live, views, detached, boxes>>
    BY <1>15 DEF ReturnFreed, M!Finish, CInv, Types
  <2> QED BY <1>1, <2>1, CallTypes, EmptyHanded
<1> QED BY <1>5, <1>7, <1>8, <1>10, <1>11, <1>12, <1>13, <1>14, <1>15 DEF CallStep

\* Nothing is allocated, handed out or borrowed at first.
LEMMA InitCInv == Init => CInv
<1> SUFFICES ASSUME Init PROVE CInv
  OBVIOUS
<1>1. call = [t \in Threads |-> M!NoCall] /\ live = {} /\ via = [t \in Threads |-> ViaSlice]
  BY DEF Init, M!MallocInit
<1>2. ViaSlice \in ViaType
  BY CallTypes DEF ViaSlice, ViaType
<1>3. Types BY <1>1, <1>2, CallTypes DEF Init, Types
<1>4. Disjoint BY <1>1, CallTypes DEF Disjoint, Holding
<1>5. ViewsBound BY DEF Init, ViewsBound
<1>6. BoxesBacked BY DEF Init, BoxesBacked
<1>7. ViaKept BY <1>1, CallTypes DEF ViaKept
<1> QED BY <1>3, <1>4, <1>5, <1>6, <1>7 DEF CInv

\* The invariant is inductive.
LEMMA NextCInv == CInv /\ [Next]_vars => CInv'
<1> SUFFICES ASSUME CInv, [Next]_vars PROVE CInv'
  OBVIOUS
<1>1. CASE ViewStep BY <1>1, ViewStepCInv
<1>2. CASE \E t \in Threads : CallStep(t) BY <1>2, CallStepCInv
<1>3. CASE UNCHANGED vars
  <2> USE <1>3 DEF vars, CInv
  <2>1. Types' BY DEF Types
  <2>2. Disjoint' BY DEF Disjoint, Holding, M!Meet
  <2>3. ViewsBound' BY DEF ViewsBound, Bounded
  <2>4. BoxesBacked' BY DEF BoxesBacked, Backed
  <2>5. ViaKept' BY DEF ViaKept
  <2> QED BY <2>1, <2>2, <2>3, <2>4, <2>5
<1> QED BY <1>1, <1>2, <1>3 DEF Next

\* The invariant holds in every behaviour.
LEMMA CInvHolds == Spec => []CInv
  BY InitCInv, NextCInv, PTL DEF Spec

-----------------------------------------------------------------------------
\* Views never outlive or leave the memory they were borrowed from, for any
\* number of threads and views, as long as no Slice is made of an unbounded one.
THEOREM ViewsStayInside == Spec => []ViewsInside
<1>1. CInv => ViewsInside
  BY DEF CInv, ViewsBound, Bounded, ViewsInside, Types
<1> QED BY <1>1, CInvHolds, PTL

\* Every pointer GlobalAlloc has handed out honours its layout, and its memory
\* is nobody else's, whatever the threads do through both interfaces.
THEOREM GlobalAllocHonours == Spec => []LayoutsHonoured
<1>1. CInv => LayoutsHonoured
  <2> SUFFICES ASSUME CInv, NEW b \in boxes
               PROVE  /\ is_aligned_to(b, b.align)
                      /\ \E s \in live : s.ptr = b.ptr /\ b.size <= s.len
                      /\ \A c \in boxes \ {b} : Apart(b.ptr, b.size, c.ptr, c.size)
                      /\ \A v \in views : v.owner # Vouched => Apart(b.ptr, b.size, v.ptr, v.len)
    BY DEF LayoutsHonoured
  <2>1. \A x \in boxes : x \in BoxType /\ Backed(x)
    BY DEF CInv, Types, BoxesBacked
  <2>2. PICK s \in live \ detached : s.ptr = b.ptr /\ b.size <= s.len
    BY <2>1 DEF Backed
  <2>3. \A u \in live : u \in [ptr : Nat \ {0}, len : Nat \ {0}]
    BY CallersAssumption DEF CInv, Types
  <2>4. is_aligned_to(b, b.align)
    BY <2>1 DEF is_aligned_to, Backed, Aligned, BoxType
  <2>5. ASSUME NEW c \in boxes \ {b}
        PROVE  Apart(b.ptr, b.size, c.ptr, c.size)
    <3>1. PICK u \in live \ detached : u.ptr = c.ptr /\ c.size <= u.len
      BY <2>1 DEF Backed
    <3>2. b.ptr # c.ptr
      BY DEF CInv, BoxesBacked
    <3>3. ~M!Meet(s, u)
      BY <2>2, <3>1, <3>2 DEF CInv, Disjoint
    <3> QED BY <2>1, <2>2, <2>3, <3>1, <3>3 DEF M!Meet, Apart, BoxType
  <2>6. ASSUME NEW v \in views, v.owner # Vouched
        PROVE  Apart(b.ptr, b.size, v.ptr, v.len)
    <3>1. PICK u \in live : u # s /\ Inside(v, u)
      BY <2>1, <2>2, <2>6 DEF CInv, ViewsBound, Bounded, Backed, Types
    <3>2. ~M!Meet(s, u)
      BY <3>1 DEF CInv, Disjoint
    <3>3. v \in [ptr : Nat, len : Nat, owner : Int]
      BY DEF CInv, Types
    <3> QED BY <2>1, <2>2, <2>3, <3>1, <3>2, <3>3 DEF M!Meet, Apart, Inside, BoxType
  <2> QED BY <2>2, <2>4, <2>5, <2>6
<1> QED BY <1>1, CInvHolds, PTL

\* The two views split_at returns have every address of the view between them,
\* and none in common, wherever it is cut.
THEOREM SplitsAreTilings == Spec => []SplitsTile
<1>1. CInv => SplitsTile
  <2> SUFFICES ASSUME CInv, NEW v \in views, NEW mid \in Offsets, mid <= v.len
               PROVE  /\ Addresses(HeadAt(v, mid)) \cup Addresses(TailAt(v, mid)) = Addresses(v)
                      /\ Addresses(HeadAt(v, mid)) \cap Addresses(TailAt(v, mid)) = {}
    BY DEF SplitsTile
  <2>1. v \in [ptr : Nat, len : Nat, owner : Int] /\ mid \in Nat
    BY CallersAssumption DEF CInv, Types
  <2>2. /\ HeadAt(v, mid).ptr = v.ptr /\ HeadAt(v, mid).len = mid
        /\ TailAt(v, mid).ptr = v.ptr + mid /\ TailAt(v, mid).len = v.len - mid
    BY <2>1 DEF HeadAt, TailAt, Part
  <2> QED BY <2>1, <2>2 DEF Addresses
<1> QED BY <1>1, CInvHolds, PTL

-----------------------------------------------------------------------------
(* Nothing reaches the top of memory, where the end of a region wraps.     *)

Low(s) == s.ptr + s.len <= Hi

LowInv ==
  /\ \A s \in live : Low(s)
  /\ \A t \in Threads : Holding(t) => Low(call[t].src)
  /\ \A v \in views : Low(v)

\* A view of a view is no higher than it.
LEMMA PartIsLow ==
  ASSUME NEW v \in [ptr : Nat, len : Nat, owner : Int], Low(v),
         NEW offset \in Nat, NEW len \in Nat, offset + len <= v.len
  PROVE  Low(Part(v, offset, len))
  BY CallersAssumption DEF Low, Part

\* Borrowing and deriving views, and dropping them.
LEMMA ViewStepLow ==
  ASSUME CInv, LowInv, ViewStep
  PROVE  LowInv'
<1>1. UNCHANGED <<live, call>>
  BY DEF ViewStep, View, Subslice, SplitAt, DropView, IntoView, ToSlice
<1>2. \A v \in views : v \in [ptr : Nat, len : Nat, owner : Int] /\ Low(v)
  BY DEF CInv, Types, LowInv
<1>3. \A s \in live : \A owner : Low(ViewOf(s, owner))
  BY DEF LowInv, Low, ViewOf
<1>4. \A v \in views' : Low(v)
  <2>1. CASE View BY <1>2, <1>3, <2>1 DEF View, NewViews, Owned
  <2>2. CASE Subslice
    <3>1. PICK v \in views, offset \in Offsets, len \in Offsets :
            HasPart(v, offset, len) /\ NewViews({Part(v, offset, len)})
      BY <2>2 DEF Subslice
    <3>2. Low(Part(v, offset, len))
      BY <1>2, <3>1, PartIsLow, CallersAssumption DEF HasPart
    <3> QED BY <1>2, <3>1, <3>2 DEF NewViews
  <2>3. CASE SplitAt
    <3>1. PICK v \in views, mid \in Offsets :
            mid <= v.len /\ NewViews({HeadAt(v, mid), TailAt(v, mid)})
      BY <2>3 DEF SplitAt
    <3>2. mid \in Nat /\ v.len \in Nat /\ v.len - mid \in Nat
      BY <1>2, <3>1, CallersAssumption
    <3>3. Low(HeadAt(v, mid)) /\ Low(TailAt(v, mid))
      BY <1>2, <3>1, <3>2, PartIsLow DEF HeadAt, TailAt
    <3> QED BY <1>2, <3>1, <3>3 DEF NewViews
  <2>4. CASE DropView BY <1>2, <2>4 DEF DropView
  <2>5. CASE IntoView BY <1>2, <1>3, <2>5 DEF IntoView, NewViews, Owned
  <2>6. CASE ToSlice
    <3>1. PICK s \in detached :
            views' = {IF v.owner = Unbounded /\ Inside(v, s)
                        THEN [v EXCEPT !.owner = Vouched] ELSE v : v \in views}
      BY <2>6 DEF ToSlice
    <3>2. \A v \in views : Low([v EXCEPT !.owner = Vouched])
      BY <1>2 DEF Low
    <3> QED BY <1>2, <3>1, <3>2
  <2> QED BY <2>1, <2>2, <2>3, <2>4, <2>5, <2>6 DEF ViewStep
<1> QED BY <1>1, <1>4 DEF LowInv, Holding, Low

\* What calls take, cut and return is never higher than what they were given,
\* or is a payload of the heap.
LEMMA CallStepLow ==
  ASSUME CInv, LowInv, NEW t \in Threads, CallStep(t)
  PROVE  LowInv'
<1>1. views' = views
  BY DEF CallStep, Alloc, Free, Realloc, GlobalAlloc, GlobalDealloc, GlobalRealloc,
         Work, ReturnNull, ReturnSlice, ReturnFreed
<1>2. DOMAIN call = Threads /\ \A u \in Threads : call[u] \in CallType
  BY DEF CInv, Types
<1>3. /\ \A s \in live' : Low(s)
      /\ \A u \in Threads : Holding(u)' => Low(call'[u].src)
  <2>1. CASE Alloc(t) \/ GlobalAlloc(t)
    BY <1>2, <2>1 DEF Alloc, GlobalAlloc, M!CallAlloc, M!Begin, LowInv, Holding
  <2>2. CASE Free(t) \/ Realloc(t) \/ GlobalDealloc(t) \/ GlobalRealloc(t)
    <3>1. PICK s \in live, n \in RequestSizes \cup {0} : M!CallFree(t, s) \/ M!CallRealloc(t, s, n)
      BY <2>2 DEF Free, Realloc, GlobalDealloc, GlobalRealloc, Owned, RequestSizes
    <3>2. live' = live \ {s} /\ call'[t].src = s /\ \A u \in Threads \ {t} : call'[u] = call[u]
      BY <1>2, <3>1 DEF M!CallFree, M!CallRealloc, M!Begin
    <3> QED BY <3>2 DEF LowInv, Holding
  <2>3. CASE Work(t)
    <3>1. live' = live /\ \A u \in Threads \ {t} : call'[u] = call[u]
      BY <1>2, <2>3 DEF Work, M!Cut, M!Give
    <3>2. CASE M!Cut(t)
      <4>1. PICK n \in 0 .. call[t].src.len :
              call' = [call EXCEPT ![t].src.len = n, ![t].hold = "cut"]
        BY <3>2 DEF M!Cut
      <4>2. /\ call[t].src.ptr \in Nat /\ call[t].src.len \in Nat
            /\ call'[t].src.ptr = call[t].src.ptr /\ call'[t].src.len = n
        BY <1>2, <4>1 DEF CallType, SliceType
      <4>3. Low(call[t].src)
        BY <3>2 DEF M!Cut, LowInv, Holding
      <4>4. Low(call'[t].src)
        BY <4>1, <4>2, <4>3, CallersAssumption DEF Low
      <4>5. \A u \in Threads \ {t} : Holding(u)' => Low(call'[u].src)
        BY <3>1 DEF LowInv, Holding
      <4> QED BY <3>1, <4>4, <4>5 DEF LowInv
    <3>3. CASE M!Give(t)
      BY <1>2, <3>1, <3>3 DEF M!Give, LowInv, Holding, CallType
    <3> QED BY <2>3, <3>2, <3>3 DEF Work
  <2>4. CASE ReturnNull(t)
    <3>1. \A s \in live' : s \in live \/ (Holding(t) /\ s = call[t].src)
      BY <2>4 DEF ReturnNull, M!Fail, Holding
    <3>2. call'[t] = M!NoCall /\ \A u \in Threads \ {t} : call'[u] = call[u]
      BY <1>2, <2>4 DEF ReturnNull, M!Fail
    <3> QED BY <3>1, <3>2, CallTypes DEF LowInv, Holding
  <2>5. CASE ReturnSlice(t)
    <3>1. PICK s \in Payloads : M!Succeed(t, s)
      BY <2>5 DEF ReturnSlice
    <3>2. live' = live \cup {s} /\ Low(s)
      BY <3>1 DEF M!Succeed, M!Good, Low
    <3>3. call'[t] = M!NoCall /\ \A u \in Threads \ {t} : call'[u] = call[u]
      BY <1>2, <3>1 DEF M!Succeed
    <3> QED BY <3>2, <3>3, CallTypes DEF LowInv, Holding
  <2>6. CASE ReturnFreed(t)
    <3>1. /\ call'[t] = M!NoCall /\ \A u \in Threads \ {t} : call'[u] = call[u]
          /\ live' = live
      BY <1>2, <2>6 DEF ReturnFreed, M!Finish
    <3> QED BY <3>1, CallTypes DEF LowInv, Holding
  <2> QED BY <2>1, <2>2, <2>3, <2>4, <2>5, <2>6 DEF CallStep
<1> QED BY <1>1, <1>3 DEF LowInv, Low

\* Together with CInv, the invariant is inductive.
LEMMA LowHolds == Spec => [](CInv /\ LowInv)
<1>1. Init => LowInv
  BY CallTypes DEF Init, M!MallocInit, LowInv, Holding
<1>2. CInv /\ LowInv /\ [Next]_vars => LowInv'
  <2> SUFFICES ASSUME CInv, LowInv, [Next]_vars PROVE LowInv'
    OBVIOUS
  <2>1. CASE ViewStep BY <2>1, ViewStepLow
  <2>2. CASE \E t \in Threads : CallStep(t) BY <2>2, CallStepLow
  <2>3. CASE UNCHANGED vars BY <2>3 DEF vars, LowInv, Holding, Low
  <2> QED BY <2>1, <2>2, <2>3 DEF Next
<1> QED BY <1>1, <1>2, InitCInv, NextCInv, PTL DEF Spec

\* contains, covers and overlaps say of views that are not empty what they say
\* about the sets of their addresses: no end wraps.
THEOREM ComparisonsAreRight == Spec => []ComparisonsMeanAddresses
<1>1. CInv /\ LowInv => ComparisonsMeanAddresses
  <2> SUFFICES ASSUME CInv, LowInv,
                      NEW v \in views, NEW u \in views, v.len > 0, u.len > 0
               PROVE  /\ \A a \in Addresses(v) \cup Addresses(u) :
                            contains(v, a) <=> a \in Addresses(v)
                      /\ covers(v, u) <=> Addresses(u) \subseteq Addresses(v)
                      /\ overlaps(v, u) <=> Addresses(u) \cap Addresses(v) # {}
    BY DEF ComparisonsMeanAddresses
  <2>1. /\ v.ptr \in Nat /\ v.len \in Nat /\ u.ptr \in Nat /\ u.len \in Nat
        /\ v.ptr + v.len <= Hi /\ u.ptr + u.len <= Hi
    BY DEF CInv, Types, LowInv, Low
  <2>2. end(v) = v.ptr + v.len /\ end(u) = u.ptr + u.len
    BY <2>1, CallersAssumption DEF end
  <2>3. \A a \in Addresses(v) \cup Addresses(u) : contains(v, a) <=> a \in Addresses(v)
    BY <2>1, <2>2 DEF contains, Addresses
  <2>4. covers(v, u) <=> Addresses(u) \subseteq Addresses(v)
    <3>1. u.ptr \in Addresses(u) /\ u.ptr + u.len - 1 \in Addresses(u)
      BY <2>1 DEF Addresses
    <3>2. ASSUME covers(v, u)
          PROVE  Addresses(u) \subseteq Addresses(v)
      BY <2>1, <2>2, <3>2 DEF covers, Addresses
    <3>3. ASSUME Addresses(u) \subseteq Addresses(v)
          PROVE  covers(v, u)
      <4>1. u.ptr \in Addresses(v) /\ u.ptr + u.len - 1 \in Addresses(v)
        BY <3>1, <3>3
      <4>2. v.ptr <= u.ptr /\ u.ptr + u.len - 1 <= v.ptr + v.len - 1
        BY <2>1, <4>1 DEF Addresses
      <4> QED BY <2>1, <2>2, <4>2 DEF covers
    <3> QED BY <3>2, <3>3
  <2>5. overlaps(v, u) <=> Addresses(u) \cap Addresses(v) # {}
    <3>1. ASSUME overlaps(v, u)
          PROVE  v.ptr \in Addresses(u) \cap Addresses(v) \/ u.ptr \in Addresses(u) \cap Addresses(v)
      BY <2>1, <2>2, <3>1 DEF overlaps, Addresses
    <3>2. ASSUME NEW a \in Addresses(u) \cap Addresses(v)
          PROVE  overlaps(v, u)
      BY <2>1, <2>2 DEF overlaps, Addresses
    <3> QED BY <3>1, <3>2
  <2> QED BY <2>3, <2>4, <2>5
<1> QED BY <1>1, LowHolds, PTL

\* The operations on views agree with the sets of addresses views stand for.
THEOREM ViewsAreRight == Spec => []ViewsMeanAddresses
BY SplitsAreTilings, ComparisonsAreRight, PTL DEF ViewsMeanAddresses
=============================================================================
