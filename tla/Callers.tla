------------------------------ MODULE Callers ------------------------------
(***************************************************************************)
(* The callers of the allocator: code that owns Slices and borrows views   *)
(* of them (src/slice.rs), and the GlobalAlloc adapter (src/global.rs),    *)
(* which hands out bare pointers for layouts.  Both use one allocator,     *)
(* known here by its contract, Malloc: calls overlap, fail and move blocks *)
(* as the contract allows.                                                 *)
(***************************************************************************)
EXTENDS Slices, FiniteSets

CONSTANTS
  Threads,
  MIN_ALIGN,     \* the alignment of every payload
  Lo, Hi,        \* where payloads lie
  Payloads,      \* the slices the allocator can hand out
  Sizes,         \* sizes asked for through Slice
  Layouts,       \* [size, align] asked for through GlobalAlloc
  Offsets,       \* arguments of subslice and split_at
  MaxViews,      \* bound: views alive at once
  MaxCalls       \* bound: calls made in a behaviour

VARIABLES
  live,      \* payloads that are allocated and in no call
  call,      \* call[t]: the call thread t is inside
  via,       \* via[t]: through which interface
  views,     \* SliceViews alive
  detached,  \* allocated payloads whose owning Slice is gone
  boxes,     \* pointers handed out by GlobalAlloc, with their layouts
  calls      \* calls made so far

vars == <<live, call, via, views, detached, boxes, calls>>

RequestSizes == Sizes \cup {l.size : l \in Layouts}
M == INSTANCE Malloc WITH Align <- MIN_ALIGN, Sizes <- RequestSizes

\* A payload holds an address, and the heap ends below the top of memory.
\* Alignments are powers of two.
ASSUME CallersAssumption ==
  /\ WORD \in Nat \ {0} /\ MIN_ALIGN \in Nat \ {0}
  /\ Lo \in Nat \ {0} /\ Hi \in Nat /\ Hi < WORD
  /\ \A s \in Payloads : s \in [ptr : Nat \ {0}, len : Nat \ {0}]
  /\ \A l \in Layouts : /\ l \in [size : Nat, align : Nat \ {0}]
                        /\ l.align <= MIN_ALIGN => MIN_ALIGN % l.align = 0
  /\ Sizes \subseteq Nat /\ Offsets \subseteq Nat

NoBox == [ptr |-> 0, size |-> 0, align |-> 1]
ViaSlice == [api |-> "slice", align |-> 1, box |-> NoBox]
ViaGlobal(align, box) == [api |-> "global", align |-> align, box |-> box]

\* What bounds a view: the Slice at the address it borrows from; nothing, for a
\* view whose owner was turned into it; or its user's word alone, once a Slice
\* has been made of the same region again.
Unbounded == 0
Vouched == -1

-----------------------------------------------------------------------------
(* Who may do what.                                                        *)

\* Payloads somebody holds a Slice for.
Owned == {s \in live : s \notin detached /\ \A b \in boxes : b.ptr # s.ptr}

\* A Slice that no view borrows can be moved: into free, realloc or into_view.
Movable(s) == \A v \in views : v.owner # s.ptr

\* Fault: the alignment is not looked at.
Satisfiable_Any(layout) == TRUE

\* GlobalAlloc::alloc returns null for a stronger alignment.
Satisfiable(layout) == layout.align <= MIN_ALIGN

MayCall(t) ==
  /\ calls < MaxCalls
  /\ calls' = calls + 1

-----------------------------------------------------------------------------
Init ==
  /\ M!MallocInit
  /\ via = [t \in Threads |-> ViaSlice]
  /\ views = {} /\ detached = {} /\ boxes = {}
  /\ calls = 0

(* Calls through Slice.                                                    *)

Alloc(t) ==
  /\ MayCall(t)
  /\ \E n \in Sizes : M!CallAlloc(t, n)
  /\ via' = [via EXCEPT ![t] = ViaSlice]
  /\ UNCHANGED <<views, detached, boxes>>

Free(t) ==
  /\ MayCall(t)
  /\ \E s \in Owned : Movable(s) /\ M!CallFree(t, s)
  /\ via' = [via EXCEPT ![t] = ViaSlice]
  /\ UNCHANGED <<views, detached, boxes>>

Realloc(t) ==
  /\ MayCall(t)
  /\ \E s \in Owned, n \in Sizes : Movable(s) /\ M!CallRealloc(t, s, n)
  /\ via' = [via EXCEPT ![t] = ViaSlice]
  /\ UNCHANGED <<views, detached, boxes>>

(* Calls through GlobalAlloc.  The adapter makes a Slice of the pointer;   *)
(* the allocator looks at its address only.                                *)

GlobalAlloc(t) ==
  /\ MayCall(t)
  /\ \E l \in Layouts :
       /\ Satisfiable(l)
       /\ M!CallAlloc(t, l.size)
       /\ via' = [via EXCEPT ![t] = ViaGlobal(l.align, NoBox)]
  /\ UNCHANGED <<views, detached, boxes>>

GlobalDealloc(t) ==
  /\ MayCall(t)
  /\ \E b \in boxes, s \in live :
       /\ s.ptr = b.ptr
       /\ M!CallFree(t, s)
       /\ via' = [via EXCEPT ![t] = ViaGlobal(b.align, NoBox)]
       /\ boxes' = boxes \ {b}
  /\ UNCHANGED <<views, detached>>

GlobalRealloc(t) ==
  /\ MayCall(t)
  /\ \E b \in boxes, s \in live, n \in RequestSizes :
       /\ s.ptr = b.ptr
       /\ M!CallRealloc(t, s, n)
       /\ via' = [via EXCEPT ![t] = ViaGlobal(b.align, b)]
       /\ boxes' = boxes \ {b}
  /\ UNCHANGED <<views, detached>>

(* Inside the allocator, and back.                                         *)

Work(t) ==
  /\ M!Cut(t) \/ M!Give(t)
  /\ UNCHANGED <<via, views, detached, boxes, calls>>

\* The null slice.  GlobalAlloc's caller still has its pointer; realloc took
\* the Slice by value, so nobody owns the block it leaves untouched.
ReturnNull(t) ==
  /\ M!Fail(t)
  /\ boxes' = boxes \cup ({via[t].box} \ {NoBox})
  /\ detached' = IF call[t].op = "realloc" /\ via[t].api = "slice"
                   THEN detached \cup {call[t].src} ELSE detached
  /\ UNCHANGED <<via, views, calls>>

ReturnSlice(t) ==
  /\ \E s \in Payloads :
       /\ M!Succeed(t, s)
       /\ boxes' = IF via[t].api = "global"
                     THEN boxes \cup {[ptr |-> s.ptr, size |-> call[t].size, align |-> via[t].align]}
                     ELSE boxes
  /\ UNCHANGED <<via, views, detached, calls>>

ReturnFreed(t) ==
  /\ M!Finish(t)
  /\ UNCHANGED <<via, views, detached, boxes, calls>>

-----------------------------------------------------------------------------
(* Views.                                                                  *)

Inside(v, s) == s.ptr <= v.ptr /\ v.ptr + v.len <= s.ptr + s.len
ViewOf(s, owner) == [ptr |-> s.ptr, len |-> s.len, owner |-> owner]

NewViews(new) ==
  /\ Cardinality(views) < MaxViews
  /\ views' = views \cup new

\* Slice::view
View ==
  /\ \E s \in Owned : NewViews({ViewOf(s, s.ptr)})
  /\ UNCHANGED <<live, call, via, detached, boxes, calls>>

Subslice ==
  /\ \E v \in views, offset, len \in Offsets :
       HasPart(v, offset, len) /\ NewViews({Part(v, offset, len)})
  /\ UNCHANGED <<live, call, via, detached, boxes, calls>>

SplitAt ==
  /\ \E v \in views, mid \in Offsets :
       mid <= v.len /\ NewViews({HeadAt(v, mid), TailAt(v, mid)})
  /\ UNCHANGED <<live, call, via, detached, boxes, calls>>

\* The last use of a view is over.
DropView ==
  /\ \E v \in views : views' = views \ {v}
  /\ UNCHANGED <<live, call, via, detached, boxes, calls>>

\* Slice::into_view, and the conversion that calls it: the owner is consumed,
\* the payload stays allocated.
IntoView ==
  /\ \E s \in Owned : /\ Movable(s)
                      /\ detached' = detached \cup {s}
                      /\ NewViews({ViewOf(s, Unbounded)})
  /\ UNCHANGED <<live, call, via, boxes, calls>>

\* SliceView::to_slice and Slice::new, under the promise both ask for: they
\* name a whole payload nobody owns.  Unbounded views of it stay.
ToSlice ==
  /\ \E s \in detached :
       /\ detached' = detached \ {s}
       /\ views' = {IF v.owner = Unbounded /\ Inside(v, s)
                      THEN [v EXCEPT !.owner = Vouched] ELSE v : v \in views}
  /\ UNCHANGED <<live, call, via, boxes, calls>>

-----------------------------------------------------------------------------
ViewStep == View \/ Subslice \/ SplitAt \/ DropView \/ IntoView \/ ToSlice
CallStep(t) ==
  \/ Alloc(t) \/ Free(t) \/ Realloc(t)
  \/ GlobalAlloc(t) \/ GlobalDealloc(t) \/ GlobalRealloc(t)
  \/ Work(t) \/ ReturnNull(t) \/ ReturnSlice(t) \/ ReturnFreed(t)

Next == ViewStep \/ \E t \in Threads : CallStep(t)

Spec == Init /\ [][Next]_vars

-----------------------------------------------------------------------------
(* Properties.                                                             *)

Apart(lo, len, lo2, len2) == lo + len <= lo2 \/ lo2 + len2 <= lo

\* Every view, however it was derived, lies within a payload that is allocated
\* and in the hands of no call: no view outlives its region or leaves it,
\* unless a Slice was made of an unbounded view and freed.
ViewsInside == \A v \in views : v.owner # Vouched => \E s \in live : Inside(v, s)

\* Whatever GlobalAlloc has handed out is aligned as its layout asks, as large,
\* and apart from every other pointer's memory and from every view.
LayoutsHonoured ==
  \A b \in boxes :
    /\ is_aligned_to(b, b.align)
    /\ \E s \in live : s.ptr = b.ptr /\ b.size <= s.len
    /\ \A c \in boxes \ {b} : Apart(b.ptr, b.size, c.ptr, c.size)
    /\ \A v \in views : v.owner # Vouched => Apart(b.ptr, b.size, v.ptr, v.len)

\* split_at cuts a view in two: every address of it is in one of the parts,
\* and in one only.
SplitsTile ==
  \A v \in views, mid \in Offsets :
    mid <= v.len =>
      /\ Addresses(HeadAt(v, mid)) \cup Addresses(TailAt(v, mid)) = Addresses(v)
      /\ Addresses(HeadAt(v, mid)) \cap Addresses(TailAt(v, mid)) = {}

\* The comparisons of views mean what they say about the addresses of regions
\* that are not empty.
ComparisonsMeanAddresses ==
  \A v, u \in {w \in views : w.len > 0} :
    /\ \A a \in Addresses(v) \cup Addresses(u) : contains(v, a) <=> a \in Addresses(v)
    /\ covers(v, u) <=> Addresses(u) \subseteq Addresses(v)
    /\ overlaps(v, u) <=> Addresses(u) \cap Addresses(v) # {}

\* A view and what is made of it stand for the right sets of addresses.
ViewsMeanAddresses == SplitsTile /\ ComparisonsMeanAddresses
=============================================================================
