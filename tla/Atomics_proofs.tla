--------------------------- MODULE Atomics_proofs ---------------------------
(***************************************************************************)
(* The operations of the Atomics trait, the compare-and-swap loops of its  *)
(* defaults included, are atomic, for any threads, addresses, word width   *)
(* and backend.                                                            *)
(***************************************************************************)
EXTENDS Atomics, WellFoundedInduction, NaturalsInduction, TLAPS

\* A record with the fields of a call.
IsCall(c) == c = [op |-> c.op, addr |-> c.addr, val |-> c.val, current |-> c.current,
                  stage |-> c.stage, got |-> c.got, ok |-> c.ok]

\* What the call of a thread looks like where the thread is.
CallFits(t) ==
  /\ IsCall(r[t])
  /\ pc[t] = "idle" => r[t] = A!NoOp
  /\ pc[t] \in {"access", "load", "cas"} => r[t].stage = "called"
  /\ pc[t] \in {"load", "cas"} => r[t].op \in A!Derived
  /\ pc[t] = "return" => r[t].stage = "done"
  /\ pc[t] \in {"idle", "access", "load", "cas", "return"}

CInv ==
  /\ r = [t \in Threads |-> r[t]] /\ pc = [t \in Threads |-> pc[t]]
  /\ \A t \in Threads : CallFits(t)

\* No thread is inside an operation at first.
LEMMA InitCInv == Init => CInv
  BY DEF Init, CInv, CallFits, IsCall, A!NoOp

\* A step of a thread leaves the other threads where they are.
LEMMA StepAlone ==
  ASSUME CInv, NEW t \in Threads, Call(t) \/ Step(t)
  PROVE  /\ r' = [r EXCEPT ![t] = r'[t]]
         /\ pc' = [pc EXCEPT ![t] = pc'[t]]
  BY DEF CInv, Call, CallOp, Step, Access, AccessFails, LoopLoad, LoopCas, LoopRetry, Return, Finish

\* Setting an answer that is zero to zero changes nothing.
LEMMA FieldUnchanged ==
  ASSUME NEW c, IsCall(c), c.got = 0
  PROVE  [c EXCEPT !.got = 0] = c
  BY DEF IsCall

\* A step leaves its thread in an operation the word knows, at a point of it.
LEMMA StepFits ==
  ASSUME CInv, NEW t \in Threads, Call(t) \/ Step(t)
  PROVE  CallFits(t)'
<1>0. CallFits(t) /\ t \in DOMAIN r /\ t \in DOMAIN pc
  BY DEF CInv
<1> USE <1>0 DEF CallFits, IsCall, A!NoOp, A!Answered
<1>1. CASE Call(t)
  <2>1. PICK name \in A!Ops \cup {"inc", "dec"}, a \in Addrs :
          \E v \in ValuesOf(name), w \in A!CurrentsOf(name) : CallOp(t, name, a, v, w)
    BY <1>1 DEF Call
  <2>2. PICK v \in ValuesOf(name), w \in A!CurrentsOf(name) : CallOp(t, name, a, v, w)
    BY <2>1
  <2>3. r'[t] = [op |-> Entry(name), addr |-> a, val |-> v, current |-> w,
                 stage |-> "called", got |-> 0, ok |-> FALSE]
    BY <2>2 DEF CallOp, A!Called
  <2>4. pc'[t] = IF OneStep(Entry(name)) THEN "access" ELSE "load"
    BY <2>2 DEF CallOp
  <2> QED BY <2>3, <2>4 DEF OneStep
<1>2. CASE Access(t) BY <1>2 DEF Access, Finish
<1>3. CASE AccessFails(t) BY <1>3 DEF AccessFails, Finish
<1>4. CASE LoopLoad(t) BY <1>4 DEF LoopLoad
<1>5. CASE LoopCas(t) BY <1>5 DEF LoopCas, Finish
<1>6. CASE LoopRetry(t) BY <1>6 DEF LoopRetry, RetryAt
<1>7. CASE Return(t) BY <1>7 DEF Return
<1> QED BY <1>1, <1>2, <1>3, <1>4, <1>5, <1>6, <1>7 DEF Step

\* The invariant is inductive.
LEMMA NextCInv == CInv /\ [Next]_vars => CInv'
<1> SUFFICES ASSUME CInv, [Next]_vars PROVE CInv'
  OBVIOUS
<1>1. CASE UNCHANGED vars
  BY <1>1 DEF vars, CInv, CallFits, IsCall
<1>2. ASSUME NEW t \in Threads, Call(t) \/ Step(t)
      PROVE  CInv'
  <2>1. /\ r' = [r EXCEPT ![t] = r'[t]]
        /\ pc' = [pc EXCEPT ![t] = pc'[t]]
    BY <1>2, StepAlone
  <2>2. CallFits(t)'
    BY <1>2, StepFits
  <2>3. \A u \in Threads \ {t} : CallFits(u)'
    BY <2>1 DEF CInv, CallFits, IsCall
  <2>4. r' = [u \in Threads |-> r'[u]] /\ pc' = [u \in Threads |-> pc'[u]]
    BY <2>1 DEF CInv
  <2> QED BY <2>2, <2>3, <2>4 DEF CInv
<1> QED BY <1>1, <1>2 DEF Next

-----------------------------------------------------------------------------
\* The initial states are initial states of the abstract words.
LEMMA InitMaps == Init => W!WordsInit
  BY DEF Init, W!WordsInit, seen, Shown, W!NoOp, A!NoOp

\* Every step of a thread is a step of the abstract words, or invisible there.
LEMMA StepMaps ==
  ASSUME CInv, NEW t \in Threads, Call(t) \/ Step(t)
  PROVE  [W!WordsNext]_(W!wordVars)
<1>0. CallFits(t) /\ t \in DOMAIN r /\ DOMAIN seen = Threads
  BY DEF CInv, seen
<1>1. /\ r' = [r EXCEPT ![t] = r'[t]]
      /\ seen' = [seen EXCEPT ![t] = IF r'[t].stage = "done" THEN r'[t]
                                     ELSE [r'[t] EXCEPT !.got = 0]]
  <2>1. r' = [r EXCEPT ![t] = r'[t]]
    BY StepAlone
  <2>2. t \in DOMAIN r /\ DOMAIN r = Threads
    BY DEF CInv
  <2>3. seen = [u \in Threads |-> Shown(r[u])] /\ seen' = [u \in Threads |-> Shown(r'[u])]
    BY DEF seen
  <2>4. seen' = [seen EXCEPT ![t] = Shown(r'[t])]
    BY <2>1, <2>2, <2>3
  <2> QED BY <2>1, <2>4 DEF Shown
<1> USE <1>0
<1>2. CASE Call(t)
  <2>1. PICK name \in A!Ops \cup {"inc", "dec"}, a \in Addrs :
          \E v \in ValuesOf(name), w \in A!CurrentsOf(name) : CallOp(t, name, a, v, w)
    BY <1>2 DEF Call
  <2>2. PICK v \in ValuesOf(name), w \in A!CurrentsOf(name) : CallOp(t, name, a, v, w)
    BY <2>1
  <2> DEFINE c == W!Called(Entry(name), a, v, w)
  <2>3. /\ Entry(name) \in W!Ops /\ v \in W!ValuesOf(Entry(name))
        /\ w \in W!CurrentsOf(Entry(name))
    BY DEF Entry, ValuesOf, A!ValuesOf, A!CurrentsOf, W!ValuesOf, W!CurrentsOf,
           A!Ops, W!Ops, A!Derived, W!Derived
  <2>4. /\ c = A!Called(Entry(name), a, v, w)
        /\ c.stage = "called" /\ [c EXCEPT !.got = 0] = c
    <3>1. c = A!Called(Entry(name), a, v, w) /\ c.stage = "called"
      BY DEF A!Called, W!Called
    <3>2. IsCall(c) /\ c.got = 0
      BY DEF W!Called, IsCall
    <3>3. [c EXCEPT !.got = 0] = c
      BY <3>2, FieldUnchanged
    <3> QED BY <3>1, <3>3
  <2>5. seen' = [seen EXCEPT ![t] = c]
    BY <1>1, <2>2, <2>4 DEF CallOp
  <2>6. seen[t] = W!NoOp
    <3>1. W!NoOp.stage = "none" /\ [W!NoOp EXCEPT !.got = 0] = W!NoOp /\ A!NoOp = W!NoOp
      BY DEF A!NoOp, W!NoOp
    <3> QED BY <2>2, <3>1 DEF CallOp, CallFits, seen, Shown
  <2>7. W!Invoke(t, c)
    BY <2>2, <2>5, <2>6 DEF CallOp, W!Invoke
  <2> QED BY <2>3, <2>7 DEF W!WordsNext
<1>3. CASE Access(t)
  <2>1. seen[t] = [r[t] EXCEPT !.got = 0] /\ r[t].stage = "called" /\ IsCall(r[t])
    BY <1>3 DEF Access, seen, Shown, CallFits
  <2>2. /\ seen[t].addr = r[t].addr /\ seen[t].stage = "called"
        /\ \A cur : W!Stores(seen[t], cur) = A!Stores(r[t], cur)
        /\ \A cur : W!Result(seen[t], cur) = A!Result(r[t], cur)
    BY <2>1 DEF IsCall, W!Stores, A!Stores, W!Result, A!Result, W!Modified, A!Modified,
                W!Derived, A!Derived, W!BitOr, A!BitOr, W!BitAnd, A!BitAnd, W!Bit, A!Bit,
                W!WORD, A!WORD
  <2>3. seen'[t] = W!Answered(seen[t], mem[r[t].addr], A!Stores(r[t], mem[r[t].addr]))
    BY <1>1, <1>3, <2>1 DEF Access, Finish, IsCall, A!Answered, W!Answered
  <2> QED BY <1>1, <1>3, <2>2, <2>3 DEF Access, W!WordsNext, W!Take
<1>4. CASE AccessFails(t)
  <2>1. seen[t] = [r[t] EXCEPT !.got = 0] /\ r[t].stage = "called" /\ IsCall(r[t])
    BY <1>4 DEF AccessFails, seen, Shown, CallFits
  <2>2. seen'[t] = W!Answered(seen[t], mem[r[t].addr], FALSE)
    BY <1>1, <1>4, <2>1 DEF AccessFails, Finish, IsCall, A!Answered, W!Answered
  <2> QED BY <1>1, <1>4, <2>1, <2>2 DEF AccessFails, IsCall, W!WordsNext, W!Refuse
<1>5. CASE LoopLoad(t)
  <2>1. /\ mem' = mem /\ r[t].stage = "called" /\ IsCall(r[t])
        /\ r'[t] = [r[t] EXCEPT !.got = mem[r[t].addr]]
    BY <1>1, <1>5 DEF LoopLoad, CallFits
  <2>2. Shown(r'[t]) = Shown(r[t])
    BY <2>1 DEF Shown, IsCall
  <2>3. seen' = seen
    BY <1>1, <2>2 DEF seen, Shown
  <2> QED BY <2>1, <2>3 DEF W!wordVars
<1>6. CASE LoopCas(t)
  <2>1. /\ seen[t] = [r[t] EXCEPT !.got = 0] /\ r[t].stage = "called" /\ IsCall(r[t])
        /\ r[t].op \in A!Derived
    BY <1>6 DEF LoopCas, seen, Shown, CallFits
  <2>2. /\ seen[t].addr = r[t].addr /\ seen[t].stage = "called"
        /\ \A cur : W!Stores(seen[t], cur) = TRUE
        /\ \A cur : W!Result(seen[t], cur) = A!Modified(r[t].op, cur, r[t].val)
    BY <2>1 DEF IsCall, W!Stores, W!Result, W!Modified, A!Modified,
                W!Derived, A!Derived, W!BitOr, A!BitOr, W!BitAnd, A!BitAnd, W!Bit, A!Bit,
                W!WORD, A!WORD
  <2>3. seen'[t] = W!Answered(seen[t], mem[r[t].addr], TRUE)
    BY <1>1, <1>6, <2>1 DEF LoopCas, AsLoaded, Finish, IsCall, A!Answered, W!Answered
  <2>4. mem' = [mem EXCEPT ![r[t].addr] = W!Result(seen[t], mem[r[t].addr])]
    BY <1>6, <2>2 DEF LoopCas, AsLoaded
  <2>5. seen' = [seen EXCEPT ![t] = seen'[t]]
    BY <1>1
  <2>6. seen' = [seen EXCEPT ![t] = W!Answered(seen[t], mem[seen[t].addr],
                                               W!Stores(seen[t], mem[seen[t].addr]))]
    BY <2>2, <2>3, <2>5
  <2>7. mem' = [mem EXCEPT ![seen[t].addr] = W!Result(seen[t], mem[seen[t].addr])]
    BY <2>2, <2>4
  <2> QED BY <2>2, <2>6, <2>7 DEF W!WordsNext, W!Take
<1>7. CASE LoopRetry(t)
  <2>1. mem' = mem /\ r' = r
    BY <1>7 DEF LoopRetry
  <2>2. seen' = seen
    BY <2>1 DEF seen, Shown
  <2> QED BY <2>1, <2>2 DEF W!wordVars
<1>8. CASE Return(t)
  <2>1. seen[t].stage = "done" /\ seen' = [seen EXCEPT ![t] = W!NoOp] /\ mem' = mem
    BY <1>1, <1>8 DEF Return, seen, Shown, CallFits, A!NoOp, W!NoOp
  <2> QED BY <2>1 DEF W!WordsNext, W!Respond
<1> QED BY <1>2, <1>3, <1>4, <1>5, <1>6, <1>7, <1>8 DEF Step

\* The operations of every backend implement atomic words: each takes effect
\* at one instant and returns the value it replaced, the default loops of load
\* and weak compare-and-swap no less than the native instructions.
THEOREM AtomicsAreAtomic == Spec => RefinesWords
<1>1. CInv /\ [Next]_vars => [W!WordsNext]_(W!wordVars)
  <2> SUFFICES ASSUME CInv, [Next]_vars PROVE [W!WordsNext]_(W!wordVars)
    OBVIOUS
  <2>1. CASE UNCHANGED vars
    BY <2>1 DEF vars, seen, Shown, W!wordVars
  <2>2. CASE Next
    BY <2>2, StepMaps DEF Next
  <2> QED BY <2>1, <2>2
<1> QED BY <1>1, InitCInv, NextCInv, InitMaps, PTL DEF Spec, RefinesWords, W!WordsSpec

-----------------------------------------------------------------------------
(* Words stay words: the bits two words have in common.                    *)

\* Induction over the naturals, for a set in the place of a predicate.
LEMMA BitInduction ==
  ASSUME NEW S, 0 \in S, \A n \in Nat : n \in S => n + 1 \in S
  PROVE  Nat \subseteq S
<1> DEFINE T == Nat \ S
<1> SUFFICES ASSUME T # {} PROVE FALSE
  OBVIOUS
<1>1. \E x \in T : \A y \in T : ~ (<<y, x>> \in OpToRel(<, Nat))
  <2>1. IsWellFoundedOn(OpToRel(<, Nat), Nat) /\ T \subseteq Nat
    BY NatLessThanWellFounded
  <2> HIDE DEF T
  <2> QED BY <2>1, WFMin
<1>2. PICK x \in T : \A y \in T : ~ (y < x)
  BY <1>1 DEF OpToRel
<1>3. x - 1 \in Nat /\ x # 0
  OBVIOUS
<1> QED BY <1>2, <1>3

\* A power of two is positive.
LEMMA Powers ==
  ASSUME NEW k \in 0 .. WORD_BITS
  PROVE  2 ^ k \in Nat \ {0} /\ 2 ^ (k + 1) = 2 * 2 ^ k
<1> DEFINE S == {i \in Nat : i <= WORD_BITS => 2 ^ i \in Nat \ {0}}
<1>1. 0 \in S
  BY AtomicsAssumption
<1>2. ASSUME NEW i \in Nat, i \in S PROVE i + 1 \in S
  <2>1. SUFFICES ASSUME i + 1 <= WORD_BITS PROVE 2 ^ (i + 1) \in Nat \ {0}
    OBVIOUS
  <2>2. i \in 0 .. WORD_BITS /\ 2 ^ i \in Nat \ {0}
    BY <1>2, <2>1, AtomicsAssumption
  <2> QED BY <2>2, AtomicsAssumption
<1>3. Nat \subseteq S
  <2> HIDE DEF S
  <2> QED BY <1>1, <1>2, BitInduction
<1> QED BY <1>3, AtomicsAssumption

\* Division with remainder.
LEMMA Division ==
  ASSUME NEW x \in Nat, NEW m \in Nat \ {0}
  PROVE  x = m * (x \div m) + (x % m) /\ x % m \in 0 .. m - 1 /\ x \div m \in Nat
OBVIOUS

\* One more bit of a remainder.
LEMMA NextBit ==
  ASSUME NEW x \in Nat, NEW k \in 0 .. WORD_BITS - 1
  PROVE  A!Bit(x, k) \in {0, 1} /\ (x % 2 ^ (k + 1)) = (x % 2 ^ k) + 2 ^ k * A!Bit(x, k)
<1>1. PICK p \in Nat \ {0} : p = 2 ^ k
  BY Powers, AtomicsAssumption
<1>2. 2 ^ (k + 1) = 2 * p
  BY <1>1, Powers, AtomicsAssumption
<1>3. PICK q \in Int : q = x \div p
  BY <1>1
<1>4. PICK s \in 0 .. p - 1 : s = x % p
  BY <1>1
<1>5. x = p * q + s
  BY <1>3, <1>4, Division
<1>6. PICK h \in Int : h = q \div 2
  OBVIOUS
<1>7. PICK b \in {0, 1} : b = q % 2
  OBVIOUS
<1>8. q = 2 * h + b
  BY <1>6, <1>7
<1>9. p * q = (2 * p) * h + p * b
  BY <1>8
<1>10. p * b \in 0 .. p /\ p * b + s \in 0 .. 2 * p - 1
  <2>1. CASE b = 0 BY <2>1
  <2>2. CASE b = 1 BY <2>2
  <2> QED BY <2>1, <2>2
<1>11. x = (2 * p) * h + (p * b + s)
  BY <1>5, <1>9, <1>10
<1>12. PICK c \in 0 .. 2 * p - 1 : c = p * b + s
  BY <1>10
<1>13. ((2 * p) * h + c) % (2 * p) = c
  <2>1. PICK m \in Nat \ {0} : m = 2 * p
    OBVIOUS
  <2>2. c \in 0 .. m - 1
    BY <2>1
  <2>3. (m * h + c) % m = c
    BY <2>2
  <2> QED BY <2>1, <2>3
<1>14. x % (2 * p) = p * b + s
  BY <1>11, <1>12, <1>13
<1>15. A!Bit(x, k) = b
  BY <1>1, <1>3, <1>7 DEF A!Bit
<1> QED BY <1>1, <1>2, <1>4, <1>10, <1>14, <1>15

\* The common bits of two words are a word, and so are the bits of either:
\* the common bits are at most each, and all the others fit beside them.
LEMMA CommonBits ==
  ASSUME NEW x \in 0 .. A!WORD - 1, NEW y \in 0 .. A!WORD - 1
  PROVE  A!BitAnd(x, y) \in 0 .. A!WORD - 1 /\ A!BitOr(x, y) \in 0 .. A!WORD - 1
<1> DEFINE Low(g) == [n \in 0 .. WORD_BITS |->
              IF n = 0 THEN 0
              ELSE g[n - 1] + 2 ^ (n - 1) * A!Bit(x, n - 1) * A!Bit(y, n - 1)]
           Fit(n, a) == /\ a \in Nat /\ a <= (x % 2 ^ n) /\ a <= (y % 2 ^ n)
                        /\ (x % 2 ^ n) + (y % 2 ^ n) - a <= 2 ^ n - 1
<1>1. WORD_BITS \in Nat /\ A!WORD = 2 ^ WORD_BITS /\ A!WORD \in Nat \ {0} /\ x \in Nat /\ y \in Nat
  BY Powers, AtomicsAssumption DEF A!WORD
<1>2. (x % 2 ^ WORD_BITS) = x /\ (y % 2 ^ WORD_BITS) = y
  <2>1. PICK w \in Nat \ {0} : w = A!WORD
    BY <1>1
  <2>2. x % w = x /\ y % w = y
    BY <2>1, <1>1
  <2> QED BY <1>1, <2>1, <2>2
<1>3. ASSUME NEW n \in 1 .. WORD_BITS, NEW a, Fit(n - 1, a)
      PROVE  Fit(n, a + 2 ^ (n - 1) * A!Bit(x, n - 1) * A!Bit(y, n - 1))
  <2>0. Fit(n - 1, a)
    BY <1>3
  <2>1. n - 1 \in 0 .. WORD_BITS - 1 /\ n - 1 \in 0 .. WORD_BITS /\ (n - 1) + 1 = n
    BY <1>1
  <2>2. PICK p \in Nat \ {0} : p = 2 ^ (n - 1)
    BY <2>1, Powers
  <2>3. 2 ^ n = 2 * p
    BY <2>1, <2>2, Powers
  <2>4. PICK b \in {0, 1} : b = A!Bit(x, n - 1)
    BY <1>1, <2>1, NextBit
  <2>5. PICK c \in {0, 1} : c = A!Bit(y, n - 1)
    BY <1>1, <2>1, NextBit
  <2>6. PICK s \in 0 .. p - 1 : s = x % p
    BY <1>1, Division
  <2>7. PICK u \in 0 .. p - 1 : u = y % p
    BY <1>1, Division
  <2>8. /\ (x % 2 ^ n) = (x % 2 ^ (n - 1)) + 2 ^ (n - 1) * A!Bit(x, n - 1)
        /\ (y % 2 ^ n) = (y % 2 ^ (n - 1)) + 2 ^ (n - 1) * A!Bit(y, n - 1)
    BY <1>1, <2>1, NextBit
  <2>9. (x % 2 ^ n) = s + p * b /\ (y % 2 ^ n) = u + p * c
    BY <2>2, <2>4, <2>5, <2>6, <2>7, <2>8
  <2>10. a \in Nat /\ a <= s /\ a <= u /\ s + u - a <= p - 1
    <3>1. /\ a \in Nat /\ a <= (x % 2 ^ (n - 1)) /\ a <= (y % 2 ^ (n - 1))
          /\ (x % 2 ^ (n - 1)) + (y % 2 ^ (n - 1)) - a <= 2 ^ (n - 1) - 1
      BY <2>0
    <3> QED BY <2>2, <2>6, <2>7, <3>1
  <2>11. /\ a + p * b * c \in Nat /\ a + p * b * c <= s + p * b /\ a + p * b * c <= u + p * c
         /\ (s + p * b) + (u + p * c) - (a + p * b * c) <= 2 * p - 1
    <3>1. CASE b = 0 /\ c = 0 BY <2>10, <3>1
    <3>2. CASE b = 0 /\ c = 1 BY <2>10, <3>2
    <3>3. CASE b = 1 /\ c = 0 BY <2>10, <3>3
    <3>4. CASE b = 1 /\ c = 1 BY <2>10, <3>4
    <3> QED BY <3>1, <3>2, <3>3, <3>4
  <2>12. /\ a + p * b * c \in Nat /\ a + p * b * c <= (x % 2 ^ n) /\ a + p * b * c <= (y % 2 ^ n)
         /\ (x % 2 ^ n) + (y % 2 ^ n) - (a + p * b * c) <= 2 ^ n - 1
    BY <2>3, <2>9, <2>11
  <2>13. Fit(n, a + p * b * c)
    BY <2>12
  <2> QED BY <2>2, <2>4, <2>5, <2>13
<1>4. Fit(0, 0)
  <2>1. 2 ^ 0 = 1
    BY AtomicsAssumption
  <2>2. x % 1 = 0 /\ y % 1 = 0
    BY <1>1
  <2> QED BY <2>1, <2>2
<1>5. \E g : g = Low(g)
  <2> DEFINE Bits(n) == 2 ^ (n - 1) * A!Bit(x, n - 1) * A!Bit(y, n - 1)
             UpTo(m, g) == g = [n \in 0 .. m |-> IF n = 0 THEN 0 ELSE g[n - 1] + Bits(n)]
             S == {m \in Nat : \E g : UpTo(m, g)}
  <2> HIDE DEF Bits
  <2>1. 0 \in S
    <3>1. PICK g : g = [n \in 0 .. 0 |-> 0]
      OBVIOUS
    <3>2. UpTo(0, g)
      BY <3>1
    <3> QED BY <3>2
  <2>2. ASSUME NEW m \in Nat, m \in S PROVE m + 1 \in S
    <3>1. PICK g : UpTo(m, g)
      BY <2>2
    <3>2. PICK h : h = [n \in 0 .. m + 1 |-> IF n = m + 1 THEN g[m] + Bits(m + 1) ELSE g[n]]
      OBVIOUS
    <3>3. ASSUME NEW n \in 0 .. m + 1
          PROVE  h[n] = IF n = 0 THEN 0 ELSE h[n - 1] + Bits(n)
      <4>1. CASE n = 0 BY <3>1, <3>2, <4>1
      <4>2. CASE n = m + 1
        <5>1. m \in 0 .. m + 1 /\ m # m + 1 /\ n - 1 = m /\ n # 0
          BY <4>2
        <5>2. h[m] = g[m] /\ h[n] = g[m] + Bits(n)
          BY <3>2, <4>2, <5>1
        <5> QED BY <5>1, <5>2
      <4>3. CASE n \in 1 .. m
        <5>1. n - 1 \in 0 .. m + 1 /\ n - 1 # m + 1 /\ n # m + 1 /\ n # 0 /\ n \in 0 .. m
          BY <4>3
        <5>2. h[n] = g[n] /\ h[n - 1] = g[n - 1]
          BY <3>2, <5>1
        <5>3. g[n] = g[n - 1] + Bits(n)
          BY <3>1, <5>1
        <5> QED BY <5>1, <5>2, <5>3
      <4> QED BY <4>1, <4>2, <4>3
    <3>4. h = [n \in 0 .. m + 1 |-> h[n]]
      BY <3>2
    <3>5. UpTo(m + 1, h)
      BY <3>3, <3>4
    <3> QED BY <3>5
  <2>3. WORD_BITS \in S
    <3> HIDE DEF S
    <3> QED BY <1>1, <2>1, <2>2, BitInduction
  <2> QED BY <2>3 DEF Bits
<1>6. PICK low : low = Low(low) /\ A!BitAnd(x, y) = low[WORD_BITS]
  <2>1. PICK low : low = CHOOSE g : g = Low(g)
    OBVIOUS
  <2>2. low = Low(low)
    BY <1>5, <2>1
  <2> QED BY <2>1, <2>2 DEF A!BitAnd
<1>7. Fit(WORD_BITS, low[WORD_BITS])
  <2> DEFINE S == {n \in Nat : n <= WORD_BITS => Fit(n, low[n])}
  <2> HIDE DEF Fit
  <2>1. 0 \in S
    BY <1>1, <1>4, <1>6
  <2>2. ASSUME NEW n \in Nat, n \in S PROVE n + 1 \in S
    <3>1. SUFFICES ASSUME n + 1 <= WORD_BITS PROVE Fit(n + 1, low[n + 1])
      OBVIOUS
    <3>2. n + 1 \in 1 .. WORD_BITS /\ n + 1 \in 0 .. WORD_BITS /\ n + 1 # 0 /\ (n + 1) - 1 = n
      BY <1>1, <3>1
    <3>3. Fit((n + 1) - 1, low[n])
      <4>1. Fit(n, low[n])
        BY <1>1, <2>2, <3>1
      <4> QED BY <3>2, <4>1
    <3>4. low[n + 1] = low[n] + 2 ^ ((n + 1) - 1) * A!Bit(x, (n + 1) - 1) * A!Bit(y, (n + 1) - 1)
      BY <1>6, <3>2
    <3> QED BY <1>3, <3>2, <3>3, <3>4
  <2>3. WORD_BITS \in S
    <3> HIDE DEF S
    <3> QED BY <1>1, <2>1, <2>2, BitInduction
  <2> QED BY <1>1, <2>3
<1>8. PICK a \in Nat : a = A!BitAnd(x, y)
  BY <1>6, <1>7
<1>9. a <= x /\ a <= y /\ x + y - a <= A!WORD - 1
  <2>1. Fit(WORD_BITS, a)
    <3> HIDE DEF Fit
    <3> QED BY <1>6, <1>7, <1>8
  <2>2. /\ a <= (x % 2 ^ WORD_BITS) /\ a <= (y % 2 ^ WORD_BITS)
        /\ (x % 2 ^ WORD_BITS) + (y % 2 ^ WORD_BITS) - a <= 2 ^ WORD_BITS - 1
    BY <2>1
  <2> QED BY <1>1, <1>2, <2>2
<1>10. A!BitOr(x, y) = x + y - a
  BY <1>8 DEF A!BitOr
<1> QED BY <1>1, <1>8, <1>9, <1>10

\* An operation makes a word of words.
LEMMA Results ==
  ASSUME NEW op \in A!Derived, NEW x \in 0 .. A!WORD - 1, NEW y \in 0 .. A!WORD - 1
  PROVE  A!Modified(op, x, y) \in 0 .. A!WORD - 1
<1>1. PICK w \in Nat \ {0} : w = A!WORD
  BY Powers, AtomicsAssumption DEF A!WORD
<1>2. (x + y) % w \in 0 .. w - 1 /\ (x - y) % w \in 0 .. w - 1
  BY <1>1
<1>3. A!BitAnd(x, y) \in 0 .. w - 1 /\ A!BitOr(x, y) \in 0 .. w - 1
  BY <1>1, CommonBits
<1> QED BY <1>1, <1>2, <1>3 DEF A!Modified

-----------------------------------------------------------------------------
(* Types.                                                                  *)

\* The types and what keeps them: the value a call brings is a word.
AtomicsInv ==
  /\ CInv /\ TypeOK
  /\ \A t \in Threads : r[t].val \in 0 .. A!WORD - 1

LEMMA InitAtomicsInv == Init => AtomicsInv
<1> SUFFICES ASSUME Init PROVE AtomicsInv
  OBVIOUS
<1>1. A!WORD \in Nat \ {0}
  BY Powers, AtomicsAssumption DEF A!WORD
<1>2. mem \in [Addrs -> 0 .. A!WORD - 1] /\ calls \in 0 .. MaxCalls
  <2>1. Initial \subseteq 0 .. A!WORD - 1 /\ MaxCalls \in Nat
    BY AtomicsAssumption
  <2>2. mem \in [Addrs -> Initial] /\ calls = 0
    BY DEF Init
  <2>3. mem = [a \in Addrs |-> mem[a]] /\ \A a \in Addrs : mem[a] \in Initial
    BY <2>2
  <2>4. mem \in [Addrs -> 0 .. A!WORD - 1]
    BY <2>1, <2>3
  <2>5. calls \in 0 .. MaxCalls
    BY <2>1, <2>2
  <2> QED BY <2>4, <2>5
<1>3. \A t \in Threads : r[t] = A!NoOp /\ pc[t] = "idle"
  BY DEF Init
<1>4. A!NoOp.got = 0 /\ A!NoOp.val = 0
  BY DEF A!NoOp
<1> QED BY <1>1, <1>2, <1>3, <1>4, InitCInv DEF AtomicsInv, TypeOK, Init

\* A word is stored where one was, and the thread is left with words in hand.
LEMMA StepTypes ==
  ASSUME AtomicsInv, CInv', NEW t \in Threads, Call(t) \/ Step(t)
  PROVE  AtomicsInv'
<1> DEFINE W0 == 0 .. A!WORD - 1
           Good(c, p) == /\ c = A!NoOp \/ (c.op \in A!Ops /\ c.addr \in Addrs)
                         /\ p \in {"load", "cas"} => ~OneStep(c.op)
                         /\ c.got \in W0 /\ c.val \in W0
<1>0. /\ r' = [r EXCEPT ![t] = r'[t]] /\ pc' = [pc EXCEPT ![t] = pc'[t]]
      /\ t \in DOMAIN r /\ t \in DOMAIN pc
      /\ DOMAIN r = Threads /\ DOMAIN pc = Threads
  BY StepAlone DEF AtomicsInv, CInv
<1>1. A!WORD \in Nat \ {0} /\ 1 \in W0 /\ 0 \in W0
  <2>1. PICK k \in Nat : k + 1 = WORD_BITS /\ k \in 0 .. WORD_BITS
    BY AtomicsAssumption
  <2>2. 2 ^ k \in Nat \ {0} /\ 2 ^ WORD_BITS = 2 * 2 ^ k
    BY <2>1, Powers
  <2> QED BY <2>2 DEF A!WORD
<1>2. /\ Good(r[t], pc[t]) /\ CallFits(t) /\ mem \in [Addrs -> W0]
      /\ backend \in Backends /\ calls \in 0 .. MaxCalls
  BY DEF AtomicsInv, TypeOK, CInv
<1>3. A!NoOp.got = 0 /\ A!NoOp.val = 0
  BY DEF A!NoOp
<1>4. r[t] # A!NoOp => r[t].addr \in Addrs /\ mem[r[t].addr] \in W0
  BY <1>2
<1> HIDE DEF W0
<1>5. /\ mem' \in [Addrs -> W0] /\ backend' = backend /\ calls' \in 0 .. MaxCalls
      /\ pc'[t] \in {"idle", "access", "load", "cas", "return"}
      /\ Good(r'[t], pc'[t])
  <2>1. CASE Call(t)
    <3>1. PICK name \in A!Ops \cup {"inc", "dec"}, a \in Addrs :
            \E v \in ValuesOf(name), w \in A!CurrentsOf(name) : CallOp(t, name, a, v, w)
      BY <2>1 DEF Call
    <3>2. PICK v \in ValuesOf(name), w \in A!CurrentsOf(name) : CallOp(t, name, a, v, w)
      BY <3>1
    <3>3. /\ r'[t] = A!Called(Entry(name), a, v, w)
          /\ pc'[t] = IF OneStep(Entry(name)) THEN "access" ELSE "load"
          /\ mem' = mem /\ backend' = backend /\ calls < MaxCalls /\ calls' = calls + 1
      BY <1>0, <3>2 DEF CallOp
    <3>4. /\ r'[t].op = Entry(name) /\ r'[t].addr = a /\ r'[t].got = 0 /\ r'[t].val = v
      BY <3>3 DEF A!Called
    <3>5. v \in W0
      BY <1>1, AtomicsAssumption DEF ValuesOf, A!ValuesOf, W0
    <3>6. Entry(name) \in A!Ops
      BY DEF Entry, A!Ops, A!Derived
    <3>7. calls' \in 0 .. MaxCalls
      BY <1>2, <3>3, AtomicsAssumption
    <3> QED BY <1>1, <1>2, <3>3, <3>4, <3>5, <3>6, <3>7
  <2>2. CASE Access(t)
    <3>1. r[t] # A!NoOp /\ IsCall(r[t])
      BY <1>2, <2>2 DEF Access, CallFits, A!NoOp
    <3>2. A!Result(r[t], mem[r[t].addr]) \in W0
      BY <1>2, <1>4, <3>1, Results DEF A!Result, W0
    <3>3. r'[t] = A!Answered(r[t], mem[r[t].addr], A!Stores(r[t], mem[r[t].addr]))
      BY <1>0, <2>2 DEF Access, Finish
    <3>4. r'[t].op = r[t].op /\ r'[t].addr = r[t].addr /\ r'[t].val = r[t].val
          /\ r'[t].got = mem[r[t].addr]
      BY <3>1, <3>3 DEF IsCall, A!Answered
    <3>5. mem' \in [Addrs -> W0]
      BY <1>2, <1>4, <2>2, <3>1, <3>2 DEF Access
    <3>6. backend' = backend /\ calls' = calls /\ pc'[t] = "return"
      BY <1>0, <2>2 DEF Access, Finish
    <3> QED BY <1>2, <1>4, <3>1, <3>4, <3>5, <3>6
  <2>3. CASE AccessFails(t)
    <3>1. r[t] # A!NoOp /\ IsCall(r[t])
      BY <1>2, <2>3 DEF AccessFails, CallFits, A!NoOp
    <3>2. r'[t] = A!Answered(r[t], mem[r[t].addr], FALSE)
      BY <1>0, <2>3 DEF AccessFails, Finish
    <3>3. r'[t].op = r[t].op /\ r'[t].addr = r[t].addr /\ r'[t].val = r[t].val
          /\ r'[t].got = mem[r[t].addr]
      BY <3>1, <3>2 DEF IsCall, A!Answered
    <3>4. mem' = mem /\ backend' = backend /\ calls' = calls /\ pc'[t] = "return"
      BY <1>0, <2>3 DEF AccessFails, Finish
    <3> QED BY <1>2, <1>4, <3>1, <3>3, <3>4
  <2>4. CASE LoopLoad(t)
    <3>1. r[t] # A!NoOp /\ IsCall(r[t]) /\ pc[t] = "load"
      BY <1>2, <2>4 DEF LoopLoad, CallFits, A!NoOp
    <3>2. r'[t] = [r[t] EXCEPT !.got = mem[r[t].addr]]
      BY <1>0, <2>4 DEF LoopLoad
    <3>3. r'[t].op = r[t].op /\ r'[t].addr = r[t].addr /\ r'[t].val = r[t].val
          /\ r'[t].got = mem[r[t].addr]
      BY <3>1, <3>2 DEF IsCall
    <3>4. mem' = mem /\ backend' = backend /\ calls' = calls /\ pc'[t] = "cas"
      BY <1>0, <2>4 DEF LoopLoad
    <3> QED BY <1>2, <1>4, <3>1, <3>3, <3>4
  <2>5. CASE LoopCas(t)
    <3>1. r[t] # A!NoOp /\ IsCall(r[t]) /\ r[t].op \in A!Derived
      BY <1>2, <2>5 DEF LoopCas, CallFits, A!NoOp
    <3>2. A!Modified(r[t].op, r[t].got, r[t].val) \in W0
      BY <1>2, <3>1, Results DEF W0
    <3>3. r'[t] = A!Answered(r[t], r[t].got, TRUE)
      BY <1>0, <2>5 DEF LoopCas, Finish
    <3>4. r'[t].op = r[t].op /\ r'[t].addr = r[t].addr /\ r'[t].val = r[t].val
          /\ r'[t].got = r[t].got
      BY <3>1, <3>3 DEF IsCall, A!Answered
    <3>5. mem' \in [Addrs -> W0]
      BY <1>2, <2>5, <3>2 DEF LoopCas
    <3>6. backend' = backend /\ calls' = calls /\ pc'[t] = "return"
      BY <1>0, <2>5 DEF LoopCas, Finish
    <3> QED BY <1>2, <3>1, <3>4, <3>5, <3>6
  <2>6. CASE LoopRetry(t)
    <3>1. /\ mem' = mem /\ backend' = backend /\ calls' = calls /\ r' = r
          /\ pc[t] = "cas" /\ pc'[t] = "load"
      BY <1>0, <2>6 DEF LoopRetry, RetryAt
    <3> QED BY <1>2, <3>1
  <2>7. CASE Return(t)
    <3>1. /\ mem' = mem /\ backend' = backend /\ calls' = calls
          /\ r'[t] = A!NoOp /\ pc'[t] = "idle"
      BY <1>0, <2>7 DEF Return
    <3> QED BY <1>1, <1>2, <1>3, <3>1
  <2> QED BY <2>1, <2>2, <2>3, <2>4, <2>5, <2>6, <2>7 DEF Step
<1>6. \A u \in Threads : Good(r'[u], pc'[u]) \/ (u # t /\ r'[u] = r[u] /\ pc'[u] = pc[u])
  BY <1>0, <1>5
<1>7. \A u \in Threads : /\ r'[u] = A!NoOp \/ (r'[u].op \in A!Ops /\ r'[u].addr \in Addrs)
                         /\ pc'[u] \in {"load", "cas"} => r'[u].op \in A!Derived /\ r'[u].op \notin backend
                         /\ r'[u].got \in W0 /\ r'[u].val \in W0
  BY <1>6 DEF AtomicsInv, TypeOK, OneStep, W0
<1>8. pc' \in [Threads -> {"idle", "access", "load", "cas", "return"}]
  BY <1>0, <1>5 DEF AtomicsInv, TypeOK
<1> QED BY <1>2, <1>5, <1>7, <1>8 DEF AtomicsInv, TypeOK, OneStep, W0

\* Every word holds a word whatever the operations and their interleaving:
\* `atomic_add` and `atomic_sub` wrap, the bitwise operations stay in range, and
\* a loop swaps in no more than it loaded and was called with.
THEOREM AtomicsTypes == Spec => []TypeOK
<1>1. AtomicsInv /\ [Next]_vars => AtomicsInv'
  <2> SUFFICES ASSUME AtomicsInv, [Next]_vars PROVE AtomicsInv'
    OBVIOUS
  <2>1. CInv'
    BY NextCInv DEF AtomicsInv
  <2>2. CASE UNCHANGED vars
    BY <2>1, <2>2 DEF vars, AtomicsInv, TypeOK, OneStep
  <2>3. CASE Next
    BY <2>1, <2>3, StepTypes DEF Next
  <2> QED BY <2>2, <2>3
<1>2. AtomicsInv => TypeOK
  BY DEF AtomicsInv
<1> QED BY <1>1, <1>2, InitAtomicsInv, PTL DEF Spec
=============================================================================
