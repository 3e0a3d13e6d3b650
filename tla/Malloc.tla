------------------------------- MODULE Malloc -------------------------------
(***************************************************************************)
(* The contract of a concurrent memory allocator with alloc, free and      *)
(* realloc, as its callers see it: what a call may return while the other  *)
(* threads are inside calls of their own.  A slice is [ptr, len].  Where   *)
(* the memory comes from, and when a request fails, is left open.          *)
(***************************************************************************)
EXTENDS Integers

CONSTANTS
  Threads,
  Sizes,     \* request sizes
  Align,     \* every payload is aligned to it
  Lo, Hi     \* payloads lie in Lo .. Hi - 1

VARIABLES
  live,      \* slices the callers own
  call       \* call[t]: the call thread t is inside

mallocVars == <<live, call>>

Null == [ptr |-> 0, len |-> 0]

\* `hold` says what has become of the slice a free or realloc was given:
\* untouched, cut short in place, or given up.
NoCall == [op |-> "none", size |-> 0, src |-> Null, hold |-> "none"]

Meet(s, u) == s.ptr < u.ptr + u.len /\ u.ptr < s.ptr + s.len

\* Slices that belong to somebody other than t's call.
Others(t) ==
  live \cup {call[u].src : u \in {v \in Threads \ {t} : call[v].hold \in {"whole", "cut"}}}

Good(t, s, n) ==
  /\ s.len >= n
  /\ s.ptr % Align = 0
  /\ Lo <= s.ptr /\ s.ptr + s.len <= Hi
  /\ \A u \in Others(t) : ~Meet(s, u)

MallocInit ==
  /\ live = {}
  /\ call = [t \in Threads |-> NoCall]

Begin(t, c) ==
  /\ call[t] = NoCall
  /\ call' = [call EXCEPT ![t] = c]

CallAlloc(t, n) ==
  /\ Begin(t, [op |-> "alloc", size |-> n, src |-> Null, hold |-> "none"])
  /\ UNCHANGED live

CallFree(t, s) ==
  /\ Begin(t, [op |-> "free", size |-> 0, src |-> s, hold |-> "whole"])
  /\ live' = live \ {s}

CallRealloc(t, s, n) ==
  /\ Begin(t, [op |-> "realloc", size |-> n, src |-> s, hold |-> "whole"])
  /\ live' = live \ {s}

\* The tail of the slice goes back to the allocator, the front stays.
Cut(t) ==
  /\ call[t].op = "realloc" /\ call[t].hold \in {"whole", "cut"}
  /\ \E n \in 0 .. call[t].src.len :
       call' = [call EXCEPT ![t].src.len = n, ![t].hold = "cut"]
  /\ UNCHANGED live

Give(t) ==
  /\ call[t].op \in {"free", "realloc"} /\ call[t].hold = "whole"
  /\ call' = [call EXCEPT ![t].hold = "given"]
  /\ UNCHANGED live

\* A failed alloc changes nothing; a failed realloc hands the slice back.
Fail(t) ==
  /\ \/ call[t].op = "alloc" /\ UNCHANGED live
     \/ call[t].op = "realloc" /\ call[t].hold = "whole" /\ live' = live \cup {call[t].src}
  /\ call' = [call EXCEPT ![t] = NoCall]

Finish(t) ==
  /\ call[t].op = "free" /\ call[t].hold = "given"
  /\ call' = [call EXCEPT ![t] = NoCall]
  /\ UNCHANGED live

\* A successful realloc either stays where it was or has given up its slice.
Succeed(t, s) ==
  /\ call[t].op \in {"alloc", "realloc"}
  /\ call[t].hold \in {"whole", "cut"} => s.ptr = call[t].src.ptr /\ s.len <= call[t].src.len
  /\ Good(t, s, call[t].size)
  /\ live' = live \cup {s}
  /\ call' = [call EXCEPT ![t] = NoCall]

MallocNext ==
  \E t \in Threads :
    \/ \E n \in Sizes : CallAlloc(t, n) \/ \E s \in live : CallRealloc(t, s, n)
    \/ \E s \in live : CallFree(t, s)
    \/ Cut(t) \/ Give(t) \/ Fail(t) \/ Finish(t)
    \/ \E s \in live' \ live : Succeed(t, s)

MallocSpec == MallocInit /\ [][MallocNext]_mallocVars
=============================================================================
