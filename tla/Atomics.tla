------------------------------ MODULE Atomics ------------------------------
(***************************************************************************)
(* The Atomics trait: load, store and compare-and-swap are steps of the    *)
(* machine; every other operation is either one too (a backend that        *)
(* overrides it, as CoreAtomics overrides them all) or the default, a loop *)
(* of a load and a weak compare-and-swap.                                  *)
(***************************************************************************)
EXTENDS Integers, FiniteSets

CONSTANTS
  Threads, Addrs, WORD_BITS, Operands, Initial,
  Backends,    \* sets of operations a backend overrides
  MaxCalls     \* bound: calls made in a behaviour

VARIABLES
  mem,       \* mem[a]: the word at address a
  backend,   \* the operations the backend overrides
  pc,        \* where each thread is
  r,         \* the call and the locals of each thread
  calls      \* calls made so far

vars == <<mem, backend, pc, r, calls>>

A == INSTANCE AtomicWords WITH call <- r

Overridable == {"cas_weak"} \cup A!Derived

ASSUME AtomicsAssumption ==
  /\ Backends \subseteq SUBSET Overridable
  /\ WORD_BITS \in Nat \ {0}
  /\ 2 ^ 0 = 1 /\ \A k \in 0 .. WORD_BITS : 2 ^ (k + 1) = 2 * 2 ^ k
  /\ Operands \subseteq 0 .. A!WORD - 1 /\ Initial \subseteq 0 .. A!WORD - 1
  /\ MaxCalls \in Nat

\* Single steps: the three fundamental operations, the weak compare-and-swap
\* (by default the strong one) and what the backend overrides.
OneStep(op) == op \notin A!Derived \/ op \in backend

\* The operations a caller can name, with the one that runs them and whether
\* it chooses the operand: increment and decrement add and subtract 1.
Entry(op) == CASE op = "inc" -> "add" [] op = "dec" -> "sub" [] OTHER -> op
ValuesOf(op) == IF op \in {"inc", "dec"} THEN {1} ELSE A!ValuesOf(op)

-----------------------------------------------------------------------------
Init ==
  /\ mem \in [Addrs -> Initial]
  /\ backend \in Backends
  /\ pc = [t \in Threads |-> "idle"]
  /\ r = [t \in Threads |-> A!NoOp]
  /\ calls = 0

CallOp(t, name, a, v, w) ==
  /\ pc[t] = "idle" /\ calls < MaxCalls
  /\ r' = [r EXCEPT ![t] = A!Called(Entry(name), a, v, w)]
  /\ pc' = [pc EXCEPT ![t] = IF OneStep(Entry(name)) THEN "access" ELSE "load"]
  /\ calls' = calls + 1
  /\ UNCHANGED <<mem, backend>>

Call(t) ==
  \E name \in A!Ops \cup {"inc", "dec"}, a \in Addrs :
    \E v \in ValuesOf(name), w \in A!CurrentsOf(name) : CallOp(t, name, a, v, w)

Finish(t, cur, ok) ==
  /\ r' = [r EXCEPT ![t] = A!Answered(@, cur, ok)]
  /\ pc' = [pc EXCEPT ![t] = "return"]
  /\ UNCHANGED <<backend, calls>>

Access(t) ==
  LET cur == mem[r[t].addr]
  IN /\ pc[t] = "access"
     /\ mem' = [mem EXCEPT ![r[t].addr] = A!Result(r[t], cur)]
     /\ Finish(t, cur, A!Stores(r[t], cur))

\* A native weak compare-and-swap fails spuriously.
AccessFails(t) ==
  /\ pc[t] = "access" /\ r[t].op = "cas_weak" /\ "cas_weak" \in backend
  /\ UNCHANGED mem
  /\ Finish(t, mem[r[t].addr], FALSE)

-----------------------------------------------------------------------------
(* The default loop.                                                       *)

LoopLoad(t) ==
  /\ pc[t] = "load"
  /\ r' = [r EXCEPT ![t].got = mem[r[t].addr]]
  /\ pc' = [pc EXCEPT ![t] = "cas"]
  /\ UNCHANGED <<mem, backend, calls>>

\* Fault: the new value is stored whatever the word holds by now.
AsLoaded_Unchecked(t) == TRUE

\* What the compare-and-swap of the loop checks.
AsLoaded(t) == mem[r[t].addr] = r[t].got

LoopCas(t) ==
  /\ pc[t] = "cas" /\ AsLoaded(t)
  /\ mem' = [mem EXCEPT ![r[t].addr] = A!Modified(r[t].op, r[t].got, r[t].val)]
  /\ Finish(t, r[t].got, TRUE)

\* Fault: the swap is tried again without loading the word again.
RetryAt_Swap == "cas"

RetryAt == "load"

LoopRetry(t) ==
  /\ pc[t] = "cas" /\ (~AsLoaded(t) \/ "cas_weak" \in backend)
  /\ pc' = [pc EXCEPT ![t] = RetryAt]
  /\ UNCHANGED <<mem, backend, r, calls>>

Return(t) ==
  /\ pc[t] = "return"
  /\ r' = [r EXCEPT ![t] = A!NoOp]
  /\ pc' = [pc EXCEPT ![t] = "idle"]
  /\ UNCHANGED <<mem, backend, calls>>

-----------------------------------------------------------------------------
Step(t) ==
  Access(t) \/ AccessFails(t) \/ LoopLoad(t) \/ LoopCas(t) \/ LoopRetry(t) \/ Return(t)

Next == \E t \in Threads : Call(t) \/ Step(t)

Spec == Init /\ [][Next]_vars

\* A thread keeps running, and a weak compare-and-swap on an unchanged word
\* does not fail for ever.
FairSpec == Spec /\ \A t \in Threads : WF_vars(Step(t)) /\ SF_vars(LoopCas(t))

-----------------------------------------------------------------------------
(* Properties.                                                             *)

\* The call as the abstract words see it: what a loop has loaded shows only
\* when the operation is done.
Shown(c) == IF c.stage = "done" THEN c ELSE [c EXCEPT !.got = 0]

seen == [t \in Threads |-> Shown(r[t])]

W == INSTANCE AtomicWords WITH call <- seen, Operands <- Operands \cup {1}

\* Every operation of every backend, the loops included, takes effect at one
\* instant and returns the value it replaced: no update by another thread is
\* lost, and a compare-and-swap reports success exactly if it stored.
RefinesWords == W!WordsSpec

\* Every operation returns, whatever the other threads do to the word.
CallsReturn == \A t \in Threads : pc[t] # "idle" ~> pc[t] = "idle"

\* Every word holds a word, every call is one of the operations, and a thread
\* in the loop is there for an operation the backend does not override.
TypeOK ==
  /\ mem \in [Addrs -> 0 .. A!WORD - 1]
  /\ backend \in Backends
  /\ pc \in [Threads -> {"idle", "access", "load", "cas", "return"}]
  /\ \A t \in Threads :
       /\ r[t] = A!NoOp \/ (r[t].op \in A!Ops /\ r[t].addr \in Addrs)
       /\ pc[t] \in {"load", "cas"} => ~OneStep(r[t].op)
       /\ r[t].got \in 0 .. A!WORD - 1
  /\ calls \in 0 .. MaxCalls
=============================================================================
