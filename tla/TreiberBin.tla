----------------------------- MODULE TreiberBin -----------------------------
(***************************************************************************)
(* One fixed bin of cadalloc: push_fixed and pop_fixed, a Treiber stack    *)
(* whose head word packs the address of the top block with a tag in the    *)
(* low bits that block addresses leave zero.  The link to the next block   *)
(* is the word at offset 8 of a block.  Every access to a heap word is one *)
(* step, in the sequentially consistent order the Atomics backend gives.   *)
(*                                                                         *)
(* The tag has only MIN_ALIGN values.  A pop that is overtaken by that     *)
(* many successful swaps reads the same head word again although the list  *)
(* has changed: the latch `wrapped` records that such a pop succeeded, and *)
(* the properties below say what holds as long as none has.                *)
(***************************************************************************)
EXTENDS Integers, Sequences, FiniteSets

CONSTANTS
  Threads,
  Blocks,      \* the blocks of this class
  NULL,        \* address 0
  MIN_ALIGN,   \* alignment of a block, hence the number of tags
  MaxCalls     \* bound: calls made in a behaviour

ASSUME TreiberAssumption ==
  /\ NULL \notin Blocks
  /\ MIN_ALIGN \in Nat /\ MIN_ALIGN > 1
  /\ MaxCalls \in Nat

VARIABLES
  head,     \* the head word: [addr, tag]
  next,     \* next[b]: the word at b + 8
  pc,       \* where each thread is in push_fixed / pop_fixed
  blk,      \* argument of the push, or result of the pop
  old,      \* the head word the thread loaded
  nxt,      \* the link word a pop loaded
  held,     \* blocks the callers own, outside the bin and outside any call
  calls,    \* calls made so far
  \* History, read by no step of the code:
  stk,      \* the list the bin stands for
  lag,      \* successful swaps since a pop loaded the head, up to MIN_ALIGN
  wrapped   \* a pop succeeded on a head word that had come round

code == <<head, next, pc, blk, old, nxt, held, calls>>
vars == <<head, next, pc, blk, old, nxt, held, calls, stk, lag, wrapped>>

Addrs == Blocks \cup {NULL}
Tags == 0 .. MIN_ALIGN - 1
Words == [addr : Addrs, tag : Tags]
Labels == {"idle", "push_load", "push_store", "push_cas",
           "pop_load", "pop_next", "pop_cas", "pop_done"}

\* Fault: no tag.
NextTag_Stuck(tag) == tag

\* (old + 1) & mask
NextTag(tag) == (tag + 1) % MIN_ALIGN

NoWord == [addr |-> NULL, tag |-> 0]

Goto(t, label) == pc' = [pc EXCEPT ![t] = label]

\* The loaded words go out of scope at the end of a loop iteration.
DropLocals(t) ==
  /\ old' = [old EXCEPT ![t] = NoWord]
  /\ nxt' = [nxt EXCEPT ![t] = NULL]

-----------------------------------------------------------------------------
(* History: every pop between its load and its swap counts the swaps that  *)
(* succeed under it.                                                       *)

Watching(u) == pc[u] \in {"pop_next", "pop_cas"}
OneMore(n) == IF n < MIN_ALIGN THEN n + 1 ELSE n
SwapBy(t) ==
  lag' = [u \in Threads |-> IF u # t /\ Watching(u) THEN OneMore(lag[u]) ELSE 0]

-----------------------------------------------------------------------------
Init ==
  /\ head = NoWord
  /\ next \in [Blocks -> {NULL}]
  /\ pc = [t \in Threads |-> "idle"]
  /\ blk = [t \in Threads |-> NULL]
  /\ old = [t \in Threads |-> NoWord]
  /\ nxt = [t \in Threads |-> NULL]
  /\ held = Blocks
  /\ calls = 0
  /\ stk = <<>>
  /\ lag = [t \in Threads |-> 0]
  /\ wrapped = FALSE

-----------------------------------------------------------------------------
(* push_fixed(block)                                                       *)

\* The block is private to the caller: it was carved or freed by it.
PushCall(t) ==
  /\ pc[t] = "idle" /\ calls < MaxCalls
  /\ \E b \in held : /\ blk' = [blk EXCEPT ![t] = b]
                     /\ held' = held \ {b}
  /\ calls' = calls + 1
  /\ Goto(t, "push_load")
  /\ UNCHANGED <<head, next, old, nxt, stk, lag, wrapped>>

PushLoad(t) ==
  /\ pc[t] = "push_load"
  /\ old' = [old EXCEPT ![t] = head]
  /\ Goto(t, "push_store")
  /\ UNCHANGED <<head, next, blk, nxt, held, calls, stk, lag, wrapped>>

PushStore(t) ==
  /\ pc[t] = "push_store"
  /\ next' = [next EXCEPT ![blk[t]] = old[t].addr]
  /\ Goto(t, "push_cas")
  /\ UNCHANGED <<head, blk, old, nxt, held, calls, stk, lag, wrapped>>

PushCas(t) ==
  /\ pc[t] = "push_cas" /\ head = old[t]
  /\ head' = [addr |-> blk[t], tag |-> NextTag(old[t].tag)]
  /\ blk' = [blk EXCEPT ![t] = NULL]
  /\ stk' = <<blk[t]>> \o stk
  /\ SwapBy(t)
  /\ DropLocals(t)
  /\ Goto(t, "idle")
  /\ UNCHANGED <<next, held, calls, wrapped>>

\* The head moved, or the weak compare-and-swap failed spuriously.
PushRetry(t) ==
  /\ pc[t] = "push_cas"
  /\ DropLocals(t)
  /\ Goto(t, "push_load")
  /\ UNCHANGED <<head, next, blk, held, calls, stk, lag, wrapped>>

-----------------------------------------------------------------------------
(* pop_fixed()                                                             *)

PopCall(t) ==
  /\ pc[t] = "idle" /\ calls < MaxCalls
  /\ calls' = calls + 1
  /\ Goto(t, "pop_load")
  /\ UNCHANGED <<head, next, blk, old, nxt, held, stk, lag, wrapped>>

PopEmpty(t) ==
  /\ pc[t] = "pop_load" /\ head.addr = NULL
  /\ Goto(t, "idle")
  /\ UNCHANGED <<head, next, blk, old, nxt, held, calls, stk, lag, wrapped>>

PopLoad(t) ==
  /\ pc[t] = "pop_load" /\ head.addr # NULL
  /\ old' = [old EXCEPT ![t] = head]
  /\ lag' = [lag EXCEPT ![t] = 0]
  /\ Goto(t, "pop_next")
  /\ UNCHANGED <<head, next, blk, nxt, held, calls, stk, wrapped>>

\* The speculative read: the block may have left the bin since the load.
PopNext(t) ==
  /\ pc[t] = "pop_next"
  /\ nxt' = [nxt EXCEPT ![t] = next[old[t].addr]]
  /\ Goto(t, "pop_cas")
  /\ UNCHANGED <<head, next, blk, old, held, calls, stk, lag, wrapped>>

PopCas(t) ==
  /\ pc[t] = "pop_cas" /\ head = old[t]
  /\ head' = [addr |-> nxt[t], tag |-> NextTag(old[t].tag)]
  /\ blk' = [blk EXCEPT ![t] = old[t].addr]
  /\ stk' = IF stk = <<>> THEN stk ELSE Tail(stk)
  /\ wrapped' = (wrapped \/ lag[t] = MIN_ALIGN)
  /\ SwapBy(t)
  /\ DropLocals(t)
  /\ Goto(t, "pop_done")
  /\ UNCHANGED <<next, held, calls>>

PopRetry(t) ==
  /\ pc[t] = "pop_cas"
  /\ lag' = [lag EXCEPT ![t] = 0]
  /\ DropLocals(t)
  /\ Goto(t, "pop_load")
  /\ UNCHANGED <<head, next, blk, held, calls, stk, wrapped>>

PopReturn(t) ==
  /\ pc[t] = "pop_done"
  /\ held' = held \cup {blk[t]}
  /\ blk' = [blk EXCEPT ![t] = NULL]
  /\ Goto(t, "idle")
  /\ UNCHANGED <<head, next, old, nxt, calls, stk, lag, wrapped>>

-----------------------------------------------------------------------------
\* A block outside the bin may change class (a realloc that splits it) and
\* be linked into another list, which writes the same link word.
Relink ==
  /\ \E b \in held, a \in Addrs : next' = [next EXCEPT ![b] = a]
  /\ UNCHANGED <<head, pc, blk, old, nxt, held, calls, stk, lag, wrapped>>

Swap(t) == PushCas(t) \/ PopCas(t)

Step(t) ==
  \/ PushLoad(t) \/ PushStore(t) \/ PushRetry(t)
  \/ PopEmpty(t) \/ PopLoad(t) \/ PopNext(t) \/ PopRetry(t) \/ PopReturn(t)
  \/ Swap(t)

Next == (\E t \in Threads : PushCall(t) \/ PopCall(t) \/ Step(t)) \/ Relink

Spec == Init /\ [][Next]_vars

-----------------------------------------------------------------------------
(* The abstract stack this bin implements.                                 *)

absCall == [t \in Threads |->
  IF pc[t] \in {"push_load", "push_store", "push_cas"}
    THEN [op |-> "push", blk |-> blk[t]]
  ELSE IF pc[t] \in {"pop_load", "pop_next", "pop_cas"}
    THEN [op |-> "pop", blk |-> NULL]
  ELSE IF pc[t] = "pop_done"
    THEN [op |-> "got", blk |-> blk[t]]
  ELSE [op |-> "idle", blk |-> NULL]]

Abs == INSTANCE AbstractBin WITH call <- absCall

-----------------------------------------------------------------------------
(* Properties.                                                             *)

InBin == {stk[i] : i \in 1 .. Len(stk)}
InCall == {t \in Threads : blk[t] # NULL}

\* Every variable has its type (push_fixed and pop_fixed only ever store
\* block addresses and tags below MIN_ALIGN).
TypeOK ==
  /\ head \in Words
  /\ next \in [Blocks -> Addrs]
  /\ pc \in [Threads -> Labels]
  /\ blk \in [Threads -> Addrs]
  /\ old \in [Threads -> Words]
  /\ nxt \in [Threads -> Addrs]
  /\ held \subseteq Blocks
  /\ calls \in 0 .. MaxCalls
  /\ stk \in Seq(Blocks)
  /\ lag \in [Threads -> 0 .. MIN_ALIGN]
  /\ wrapped \in BOOLEAN

\* Walking from the head along the link words visits exactly the blocks
\* pushed and not yet popped, in stack order, and ends in address 0.
ChainIsStack ==
  /\ head.addr = (IF stk = <<>> THEN NULL ELSE stk[1])
  /\ \A i \in 1 .. Len(stk) :
       next[stk[i]] = (IF i = Len(stk) THEN NULL ELSE stk[i + 1])

\* A block is in the bin once, or belongs to one caller, or is the subject of
\* one call: pop_fixed never hands out a block that someone still has.
OneOwner ==
  /\ \A i, j \in 1 .. Len(stk) : stk[i] = stk[j] => i = j
  /\ \A t, u \in InCall : blk[t] = blk[u] => t = u
  /\ \A t \in InCall : blk[t] \notin InBin \cup held
  /\ InBin \cap held = {}

\* No block is lost: push and pop account for every one of them.
NoneLost == Blocks = InBin \cup held \cup {blk[t] : t \in InCall}

\* What the bin promises while no pop has succeeded on a head word that came
\* round: one owner per block, none lost, and an intact chain.
BinSafe == ~wrapped => OneOwner /\ NoneLost /\ ChainIsStack

\* Every successful compare-and-swap of push_fixed and pop_fixed is the push
\* or pop of an atomic stack, and pop_fixed reports 0 only when that stack is
\* empty, as long as no pop has succeeded on a head word that came round.
RefinesStack == Abs!AbsInit /\ [][wrapped' \/ Abs!AbsNext]_(Abs!absVars)

\* The same promise without the proviso.  alloc_fixed stamps the header of a
\* popped block because "The block is private to us now (not in any list)".
PoppedBlockIsPrivate ==
  \A t \in Threads : pc[t] = "pop_done" => blk[t] \notin InBin \cup held

-----------------------------------------------------------------------------
(* The inductive invariant behind BinSafe.                                 *)

\* Which locals are in use at which label.
LocalsInUse ==
  \A t \in Threads :
    /\ blk[t] # NULL <=>
         pc[t] \in {"push_load", "push_store", "push_cas", "pop_done"}
    /\ Watching(t) => old[t].addr # NULL

\* A push about to swap has linked its block to the head it loaded.
PushLinked == \A t \in Threads : pc[t] = "push_cas" => next[blk[t]] = old[t].addr

\* The head's tag tells how many swaps a pop was overtaken by, up to the
\* number of tags; overtaken by none, it holds the head itself.
TagWindow ==
  \A t \in Threads : Watching(t) =>
    /\ lag[t] = 0 => old[t] = head
    /\ lag[t] < MIN_ALIGN =>
         head.tag = (IF old[t].tag + lag[t] < MIN_ALIGN
                     THEN old[t].tag + lag[t]
                     ELSE old[t].tag + lag[t] - MIN_ALIGN)

\* The link a pop read is still the top block's link if nothing was swapped.
LinkFresh ==
  \A t \in Threads :
    pc[t] = "pop_cas" /\ lag[t] = 0 => nxt[t] = next[old[t].addr]

IInv ==
  /\ TypeOK
  /\ LocalsInUse
  /\ TagWindow
  /\ ~wrapped => OneOwner /\ NoneLost /\ ChainIsStack /\ PushLinked /\ LinkFresh
=============================================================================
