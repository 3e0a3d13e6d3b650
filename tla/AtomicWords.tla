---------------------------- MODULE AtomicWords ----------------------------
(***************************************************************************)
(* What the Atomics trait promises: 64-bit words on which every operation  *)
(* takes effect at one instant between its call and its return, and        *)
(* returns the value the word had just before.                             *)
(***************************************************************************)
EXTENDS Integers

CONSTANTS
  Threads, Addrs,
  WORD_BITS,    \* width of a word
  Operands,     \* the values operations are called with
  Initial       \* what the words hold at first

VARIABLES
  mem,    \* mem[a]: the word at address a
  call    \* call[t]: the operation thread t is inside

wordVars == <<mem, call>>

WORD == 2 ^ WORD_BITS

Derived == {"swap", "add", "sub", "and", "or"}
Ops == {"load", "store", "cas", "cas_weak"} \cup Derived

\* `stage` is "called", then "done"; `got` is the value the operation returns
\* and `ok` says whether it stored.
NoOp == [op |-> "none", addr |-> 0, val |-> 0, current |-> 0,
         stage |-> "none", got |-> 0, ok |-> FALSE]

\* The arguments an operation takes besides its address.
ValuesOf(op) == IF op = "load" THEN {0} ELSE Operands
CurrentsOf(op) == IF op \in {"cas", "cas_weak"} THEN Operands ELSE {0}

-----------------------------------------------------------------------------
Bit(x, i) == (x \div 2 ^ i) % 2

\* The bits x and y have in common, from the lowest up.
BitAnd(x, y) ==
  LET low[n \in 0 .. WORD_BITS] ==
        IF n = 0 THEN 0
        ELSE low[n - 1] + 2 ^ (n - 1) * Bit(x, n - 1) * Bit(y, n - 1)
  IN low[WORD_BITS]
BitOr(x, y) == x + y - BitAnd(x, y)

\* Fault: the sum is not reduced to a word.
Modified_NoWrap(op, cur, val) ==
  CASE op = "add" -> cur + val
    [] op = "sub" -> cur - val
    [] OTHER -> val

\* What a read-modify-write makes of a word that holds `cur`.
Modified(op, cur, val) ==
  CASE op = "swap" -> val
    [] op = "add" -> (cur + val) % WORD
    [] op = "sub" -> (cur - val) % WORD
    [] op = "and" -> BitAnd(cur, val)
    [] op = "or" -> BitOr(cur, val)
    [] OTHER -> cur

\* Whether an operation that finds `cur` stores, and what the word holds then.
Stores(c, cur) ==
  \/ c.op \in {"store"} \cup Derived
  \/ c.op \in {"cas", "cas_weak"} /\ cur = c.current
Result(c, cur) ==
  IF c.op \in Derived THEN Modified(c.op, cur, c.val)
  ELSE IF Stores(c, cur) THEN c.val ELSE cur

-----------------------------------------------------------------------------
WordsInit ==
  /\ mem \in [Addrs -> Initial]
  /\ call = [t \in Threads |-> NoOp]

Called(op, a, v, w) ==
  [op |-> op, addr |-> a, val |-> v, current |-> w,
   stage |-> "called", got |-> 0, ok |-> FALSE]

Invoke(t, c) ==
  /\ call[t] = NoOp
  /\ call' = [call EXCEPT ![t] = c]
  /\ UNCHANGED mem

Answered(c, cur, ok) == [c EXCEPT !.stage = "done", !.got = cur, !.ok = ok]

\* The operation takes effect.
Take(t) ==
  LET c == call[t]
      cur == mem[c.addr]
  IN /\ c.stage = "called"
     /\ mem' = [mem EXCEPT ![c.addr] = Result(c, cur)]
     /\ call' = [call EXCEPT ![t] = Answered(c, cur, Stores(c, cur))]

\* A weak compare-and-swap may report failure on a word that has not changed.
Refuse(t) ==
  LET c == call[t]
  IN /\ c.stage = "called" /\ c.op = "cas_weak"
     /\ call' = [call EXCEPT ![t] = Answered(c, mem[c.addr], FALSE)]
     /\ UNCHANGED mem

Respond(t) ==
  /\ call[t].stage = "done"
  /\ call' = [call EXCEPT ![t] = NoOp]
  /\ UNCHANGED mem

WordsNext ==
  \E t \in Threads :
    \/ \E op \in Ops, a \in Addrs : \E v \in ValuesOf(op), w \in CurrentsOf(op) :
         Invoke(t, Called(op, a, v, w))
    \/ Take(t) \/ Refuse(t) \/ Respond(t)

WordsSpec == WordsInit /\ [][WordsNext]_wordVars
=============================================================================
