---------------------------- MODULE AbstractBin ----------------------------
(***************************************************************************)
(* What a fixed bin promises: a stack of blocks whose push and pop take    *)
(* effect in one step somewhere between the call and the return.  This is  *)
(* the contract the rest of the allocator relies on; the lock-free code    *)
(* that keeps it is TreiberBin, and the bins of CadAlloc keep it too.      *)
(***************************************************************************)
EXTENDS Sequences

CONSTANTS Threads, Blocks, NULL

VARIABLES
  stk,    \* the free blocks of the bin, top first
  call    \* call[t]: what thread t is doing on this bin

Idle == [op |-> "idle", blk |-> NULL]
Popping == [op |-> "pop", blk |-> NULL]
Pushing(b) == [op |-> "push", blk |-> b]

absVars == <<stk, call>>

\* Blocks in the bin, or on their way into it.
Taken == {stk[i] : i \in DOMAIN stk}
           \cup {call[t].blk : t \in {u \in Threads : call[u].op = "push"}}

AbsInit ==
  /\ stk = <<>>
  /\ call = [t \in Threads |-> Idle]

\* Nobody pushes a block that is already there.
CallPush(t, b) ==
  /\ call[t] = Idle /\ b \notin Taken
  /\ call' = [call EXCEPT ![t] = Pushing(b)]
  /\ UNCHANGED stk

Push(t) ==
  /\ call[t].op = "push"
  /\ stk' = <<call[t].blk>> \o stk
  /\ call' = [call EXCEPT ![t] = Idle]

CallPop(t) ==
  /\ call[t] = Idle
  /\ call' = [call EXCEPT ![t] = Popping]
  /\ UNCHANGED stk

\* The popped block leaves with the thread: the bin keeps no claim on it.
Pop(t) ==
  /\ call[t] = Popping /\ stk # <<>>
  /\ stk' = Tail(stk)
  /\ call' = [call EXCEPT ![t] = [op |-> "got", blk |-> Head(stk)]]

PopEmpty(t) ==
  /\ call[t] = Popping /\ stk = <<>>
  /\ call' = [call EXCEPT ![t] = Idle]
  /\ UNCHANGED stk

Return(t) ==
  /\ call[t].op = "got"
  /\ call' = [call EXCEPT ![t] = Idle]
  /\ UNCHANGED stk

AbsNext ==
  \E t \in Threads :
    \/ \E b \in Blocks : CallPush(t, b)
    \/ Push(t) \/ CallPop(t) \/ Pop(t) \/ PopEmpty(t) \/ Return(t)

AbsSpec == AbsInit /\ [][AbsNext]_absVars
=============================================================================
