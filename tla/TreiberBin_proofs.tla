------------------------- MODULE TreiberBin_proofs -------------------------
(***************************************************************************)
(* A fixed bin keeps its promise for any number of threads and blocks and  *)
(* any alignment, as long as no pop succeeds on a head word whose tag has  *)
(* come round.  The argument: the tag of the head, read modulo MIN_ALIGN,  *)
(* counts the swaps a pop is overtaken by (TagWindow), so a pop whose      *)
(* compare-and-swap succeeds after fewer than MIN_ALIGN swaps was overtaken *)
(* by none, and then the link it read is still the link of the top block.  *)
(***************************************************************************)
EXTENDS TreiberBin, SequenceTheorems, TLAPS

USE TreiberAssumption

\* Tags count modulo MIN_ALIGN.
LEMMA NextTagCounts ==
  ASSUME NEW tag \in Tags
  PROVE  /\ NextTag(tag) \in Tags
         /\ NextTag(tag) = IF tag + 1 = MIN_ALIGN THEN 0 ELSE tag + 1
BY DEF NextTag, Tags

Elems(s) == {s[i] : i \in 1 .. Len(s)}
Distinct(s) == \A i, j \in 1 .. Len(s) : s[i] = s[j] => i = j

\* What pushing a block does to the sequence that stands for the list.
LEMMA PushSeq ==
  ASSUME NEW s \in Seq(Blocks), NEW b \in Blocks
  PROVE  /\ <<b>> \o s \in Seq(Blocks)
         /\ Len(<<b>> \o s) = Len(s) + 1
         /\ (<<b>> \o s)[1] = b
         /\ \A i \in 1 .. Len(s) : (<<b>> \o s)[i + 1] = s[i]
         /\ Elems(<<b>> \o s) = Elems(s) \cup {b}
         /\ Distinct(s) /\ b \notin Elems(s) => Distinct(<<b>> \o s)
<1> DEFINE r == <<b>> \o s
<1>1. /\ r \in Seq(Blocks) /\ Len(r) = Len(s) + 1 /\ r[1] = b
      /\ \A i \in 1 .. Len(s) : r[i + 1] = s[i]
      /\ Len(s) \in Nat
  OBVIOUS
<1> HIDE DEF r
<1>2. \A i \in 1 .. Len(r) : i # 1 => i - 1 \in 1 .. Len(s) /\ r[i] = s[i - 1]
  BY <1>1
<1>3. Elems(r) = Elems(s) \cup {b}
  <2>1. ASSUME NEW x \in Elems(r) PROVE x \in Elems(s) \cup {b}
    <3>1. PICK i \in 1 .. Len(r) : x = r[i]
      BY DEF Elems
    <3> QED
      BY <3>1, <1>1, <1>2 DEF Elems
  <2>2. ASSUME NEW x \in Elems(s) PROVE x \in Elems(r)
    <3>1. PICK i \in 1 .. Len(s) : x = s[i]
      BY DEF Elems
    <3>2. i + 1 \in 1 .. Len(r) /\ r[i + 1] = x
      BY <3>1, <1>1
    <3> QED
      BY <3>2 DEF Elems
  <2>3. b \in Elems(r)
    BY <1>1 DEF Elems
  <2> QED
    BY <2>1, <2>2, <2>3
<1>4. ASSUME Distinct(s), b \notin Elems(s) PROVE Distinct(r)
  <2>1. \A k \in 1 .. Len(s) : s[k] # b
    BY <1>4 DEF Elems
  <2>2. SUFFICES ASSUME NEW i \in 1 .. Len(r), NEW j \in 1 .. Len(r), r[i] = r[j]
                 PROVE  i = j
    BY DEF Distinct
  <2>3. CASE i = 1 \/ j = 1
    BY <2>1, <2>2, <2>3, <1>1, <1>2
  <2>4. CASE i # 1 /\ j # 1
    <3>1. i - 1 = j - 1
      BY <2>2, <2>4, <1>2, <1>4 DEF Distinct
    <3> QED
      BY <3>1, <1>1
  <2> QED
    BY <2>3, <2>4
<1> QED
  BY <1>1, <1>3, <1>4 DEF r

\* What popping does to it.
LEMMA PopSeq ==
  ASSUME NEW s \in Seq(Blocks), s # <<>>
  PROVE  /\ Tail(s) \in Seq(Blocks)
         /\ Len(Tail(s)) = Len(s) - 1
         /\ Len(s) \in Nat /\ Len(s) >= 1
         /\ \A i \in 1 .. Len(s) - 1 : Tail(s)[i] = s[i + 1]
         /\ Elems(s) = Elems(Tail(s)) \cup {s[1]}
         /\ Distinct(s) => Distinct(Tail(s)) /\ s[1] \notin Elems(Tail(s))
<1> DEFINE r == Tail(s)
<1>1. /\ r \in Seq(Blocks) /\ Len(r) = Len(s) - 1
      /\ \A i \in 1 .. Len(s) - 1 : r[i] = s[i + 1]
      /\ Len(s) \in Nat /\ Len(s) >= 1
  OBVIOUS
<1> HIDE DEF r
<1>2. Elems(s) = Elems(r) \cup {s[1]}
  <2>1. ASSUME NEW x \in Elems(s) PROVE x \in Elems(r) \cup {s[1]}
    <3>1. PICK i \in 1 .. Len(s) : x = s[i]
      BY DEF Elems
    <3>2. CASE i = 1
      BY <3>1, <3>2
    <3>3. CASE i # 1
      <4>1. i - 1 \in 1 .. Len(r) /\ r[i - 1] = s[i]
        BY <3>3, <1>1
      <4> QED
        BY <4>1, <3>1 DEF Elems
    <3> QED
      BY <3>2, <3>3
  <2>2. ASSUME NEW x \in Elems(r) PROVE x \in Elems(s)
    <3>1. PICK i \in 1 .. Len(r) : x = r[i]
      BY DEF Elems
    <3>2. i + 1 \in 1 .. Len(s) /\ s[i + 1] = x
      BY <3>1, <1>1
    <3> QED
      BY <3>2 DEF Elems
  <2>3. s[1] \in Elems(s)
    BY <1>1 DEF Elems
  <2> QED
    BY <2>1, <2>2, <2>3
<1>3. ASSUME Distinct(s) PROVE Distinct(r) /\ s[1] \notin Elems(r)
  <2>1. \A i \in 1 .. Len(r) : i + 1 \in 1 .. Len(s) /\ r[i] = s[i + 1]
    BY <1>1
  <2>2. ASSUME NEW i \in 1 .. Len(r), NEW j \in 1 .. Len(r), r[i] = r[j]
        PROVE  i = j
    <3>1. i + 1 = j + 1
      BY <2>1, <2>2, <1>3 DEF Distinct
    <3> QED
      BY <3>1
  <2>3. ASSUME NEW i \in 1 .. Len(r), r[i] = s[1]
        PROVE  FALSE
    <3>1. i + 1 = 1
      BY <2>1, <2>3, <1>1, <1>3 DEF Distinct
    <3> QED
      BY <3>1
  <2> QED
    BY <2>2, <2>3 DEF Distinct, Elems
<1> QED
  BY <1>1, <1>2, <1>3 DEF r

-----------------------------------------------------------------------------
\* Empty lists, and blocks that are held by somebody.
LEMMA InitIInv == Init => IInv
<1> SUFFICES ASSUME Init PROVE IInv
  OBVIOUS
<1>1. TypeOK
  <2>1. 0 \in Tags /\ 0 \in 0 .. MIN_ALIGN /\ 0 \in 0 .. MaxCalls
    BY DEF Tags
  <2>2. NoWord \in Words
    BY <2>1 DEF NoWord, Words, Addrs
  <2>3. next \in [Blocks -> Addrs] /\ nxt \in [Threads -> Addrs]
    BY DEF Init, Addrs
  <2>4. stk \in Seq(Blocks)
    BY DEF Init
  <2> QED
    BY <2>1, <2>2, <2>3, <2>4 DEF Init, TypeOK, Labels, Addrs
<1>2. LocalsInUse /\ TagWindow
  BY DEF Init, LocalsInUse, TagWindow, Watching
<1>3. OneOwner /\ NoneLost /\ ChainIsStack
  BY DEF Init, OneOwner, NoneLost, ChainIsStack, InBin, InCall, NoWord
<1>4. PushLinked /\ LinkFresh
  BY DEF Init, PushLinked, LinkFresh
<1> QED
  BY <1>1, <1>2, <1>3, <1>4 DEF IInv

\* Every step of a call preserves the types.
LEMMA StepType ==
  ASSUME TypeOK, LocalsInUse, [Next]_vars
  PROVE  TypeOK'
<1> USE DEF TypeOK, Goto, DropLocals, NoWord, Words, Addrs, Labels
<1>1. ASSUME NEW t \in Threads, PushCall(t)
      PROVE  TypeOK'
  BY <1>1 DEF PushCall
<1>2. ASSUME NEW t \in Threads, PushLoad(t)
      PROVE  TypeOK'
  BY <1>2 DEF PushLoad
<1>3. ASSUME NEW t \in Threads, PushStore(t)
      PROVE  TypeOK'
  BY <1>3 DEF PushStore
<1>4. ASSUME NEW t \in Threads, PushCas(t)
      PROVE  TypeOK'
  <2>1. blk[t] \in Blocks
    BY <1>4 DEF PushCas, LocalsInUse
  <2>2. stk' \in Seq(Blocks)
    BY <2>1, <1>4, PushSeq DEF PushCas
  <2>3. lag' \in [Threads -> 0 .. MIN_ALIGN]
    BY <1>4 DEF PushCas, SwapBy, OneMore
  <2>4. head' \in Words
    BY <1>4, <2>1, NextTagCounts DEF PushCas
  <2>5. 0 \in Tags
    BY DEF Tags
  <2> QED
    BY <1>4, <2>2, <2>3, <2>4, <2>5 DEF PushCas
<1>5. ASSUME NEW t \in Threads, PushRetry(t)
      PROVE  TypeOK'
  BY <1>5 DEF PushRetry, Tags
<1>6. ASSUME NEW t \in Threads, PopCall(t)
      PROVE  TypeOK'
  BY <1>6 DEF PopCall
<1>7. ASSUME NEW t \in Threads, PopEmpty(t)
      PROVE  TypeOK'
  BY <1>7 DEF PopEmpty
<1>8. ASSUME NEW t \in Threads, PopLoad(t)
      PROVE  TypeOK'
  BY <1>8 DEF PopLoad
<1>9. ASSUME NEW t \in Threads, PopNext(t)
      PROVE  TypeOK'
  <2>1. old[t].addr \in Blocks
    BY <1>9 DEF PopNext, LocalsInUse, Watching
  <2> QED
    BY <1>9, <2>1 DEF PopNext
<1>10. ASSUME NEW t \in Threads, PopCas(t)
       PROVE  TypeOK'
  <2>2. stk' \in Seq(Blocks)
    BY <1>10, PopSeq DEF PopCas
  <2>3. lag' \in [Threads -> 0 .. MIN_ALIGN]
    BY <1>10 DEF PopCas, SwapBy, OneMore
  <2>4. head' \in Words
    BY <1>10, NextTagCounts DEF PopCas
  <2>5. 0 \in Tags
    BY DEF Tags
  <2> QED
    BY <1>10, <2>2, <2>3, <2>4, <2>5 DEF PopCas
<1>11. ASSUME NEW t \in Threads, PopRetry(t)
       PROVE  TypeOK'
  BY <1>11 DEF PopRetry, Tags
<1>12. ASSUME NEW t \in Threads, PopReturn(t)
       PROVE  TypeOK'
  BY <1>12 DEF PopReturn, LocalsInUse
<1>13. CASE Relink
  BY <1>13 DEF Relink
<1>14. CASE UNCHANGED vars
  BY <1>14 DEF vars
<1> QED
  BY <1>1, <1>2, <1>3, <1>4, <1>5, <1>6, <1>7, <1>8, <1>9, <1>10, <1>11,
     <1>12, <1>13, <1>14 DEF Next, Step, Swap

-----------------------------------------------------------------------------
\* Every step of a call preserves what its thread remembers.
LEMMA StepLocals ==
  ASSUME TypeOK, LocalsInUse, [Next]_vars
  PROVE  LocalsInUse'
<1> USE DEF LocalsInUse, Watching, Goto, DropLocals, TypeOK
<1>1. ASSUME NEW t \in Threads, PushCall(t)
      PROVE  LocalsInUse'
  BY <1>1 DEF PushCall
<1>2. ASSUME NEW t \in Threads, PushLoad(t) \/ PushStore(t) \/ PushRetry(t)
      PROVE  LocalsInUse'
  BY <1>2 DEF PushLoad, PushStore, PushRetry
<1>3. ASSUME NEW t \in Threads, PushCas(t)
      PROVE  LocalsInUse'
  BY <1>3 DEF PushCas
<1>4. ASSUME NEW t \in Threads, PopCall(t) \/ PopEmpty(t) \/ PopRetry(t)
      PROVE  LocalsInUse'
  BY <1>4 DEF PopCall, PopEmpty, PopRetry
<1>5. ASSUME NEW t \in Threads, PopLoad(t) \/ PopNext(t)
      PROVE  LocalsInUse'
  BY <1>5 DEF PopLoad, PopNext
<1>6. ASSUME NEW t \in Threads, PopCas(t)
      PROVE  LocalsInUse'
  BY <1>6 DEF PopCas
<1>7. ASSUME NEW t \in Threads, PopReturn(t)
      PROVE  LocalsInUse'
  BY <1>7 DEF PopReturn
<1>8. CASE Relink \/ UNCHANGED vars
  BY <1>8 DEF Relink, vars
<1> QED
  BY <1>1, <1>2, <1>3, <1>4, <1>5, <1>6, <1>7, <1>8 DEF Next, Step, Swap

\* A successful swap puts every pop it overtakes one step further behind.
LEMMA SwapWindow ==
  ASSUME TypeOK, LocalsInUse, TagWindow, NEW t \in Threads,
         SwapBy(t), head'.tag = NextTag(head.tag), old' = [old EXCEPT ![t] = NoWord],
         NEW label \in Labels, pc' = [pc EXCEPT ![t] = label],
         label \notin {"pop_next", "pop_cas"}
  PROVE  TagWindow'
<1> SUFFICES ASSUME NEW u \in Threads, Watching(u)'
             PROVE  /\ lag'[u] # 0
                    /\ lag'[u] < MIN_ALIGN =>
                         head'.tag = (IF old'[u].tag + lag'[u] < MIN_ALIGN
                                      THEN old'[u].tag + lag'[u]
                                      ELSE old'[u].tag + lag'[u] - MIN_ALIGN)
  BY DEF TagWindow
<1>1. u # t /\ Watching(u) /\ old'[u] = old[u]
  BY DEF Watching, TypeOK
<1>2. lag'[u] = OneMore(lag[u]) /\ lag[u] \in 0 .. MIN_ALIGN
  BY <1>1 DEF SwapBy, TypeOK
<1>3. head.tag \in Tags /\ old[u].tag \in 0 .. MIN_ALIGN - 1
  BY DEF TypeOK, Words, Tags
<1>4. head'.tag = IF head.tag + 1 = MIN_ALIGN THEN 0 ELSE head.tag + 1
  BY <1>3, NextTagCounts
<1>5. lag[u] < MIN_ALIGN =>
        head.tag = (IF old[u].tag + lag[u] < MIN_ALIGN
                    THEN old[u].tag + lag[u]
                    ELSE old[u].tag + lag[u] - MIN_ALIGN)
  BY <1>1 DEF TagWindow
<1> QED
  BY <1>1, <1>2, <1>3, <1>4, <1>5 DEF OneMore

\* Every step of a call preserves the account of who overtook whom.
LEMMA StepWindow ==
  ASSUME TypeOK, LocalsInUse, TagWindow, [Next]_vars
  PROVE  TagWindow'
<1> USE DEF TagWindow, Watching, Goto, DropLocals, TypeOK
<1>1. ASSUME NEW t \in Threads, PushCall(t) \/ PushLoad(t) \/ PushStore(t) \/ PushRetry(t)
      PROVE  TagWindow'
  BY <1>1 DEF PushCall, PushLoad, PushStore, PushRetry
<1>2. ASSUME NEW t \in Threads, PushCas(t)
      PROVE  TagWindow'
  <2>1. head'.tag = NextTag(head.tag)
    BY <1>2 DEF PushCas
  <2> QED
    BY <1>2, <2>1, SwapWindow DEF PushCas, Labels
<1>3. ASSUME NEW t \in Threads, PopCall(t) \/ PopEmpty(t) \/ PopRetry(t) \/ PopReturn(t)
      PROVE  TagWindow'
  BY <1>3 DEF PopCall, PopEmpty, PopRetry, PopReturn
<1>4. ASSUME NEW t \in Threads, PopLoad(t)
      PROVE  TagWindow'
  BY <1>4 DEF PopLoad, Words, Tags
<1>5. ASSUME NEW t \in Threads, PopNext(t)
      PROVE  TagWindow'
  BY <1>5 DEF PopNext
<1>6. ASSUME NEW t \in Threads, PopCas(t)
      PROVE  TagWindow'
  <2>1. head'.tag = NextTag(head.tag)
    BY <1>6 DEF PopCas
  <2> QED
    BY <1>6, <2>1, SwapWindow DEF PopCas, Labels
<1>7. CASE Relink \/ UNCHANGED vars
  BY <1>7 DEF Relink, vars
<1> QED
  BY <1>1, <1>2, <1>3, <1>4, <1>5, <1>6, <1>7 DEF Next, Step, Swap

\* The heart of the argument: a pop that succeeds before the tag comes round
\* was overtaken by no swap at all.
LEMMA PopNotOvertaken ==
  ASSUME TypeOK, TagWindow, NEW t \in Threads, PopCas(t), ~wrapped'
  PROVE  lag[t] = 0
<1>1. lag[t] # MIN_ALIGN
  BY Zenon DEF PopCas
<1>2. lag[t] \in 0 .. MIN_ALIGN /\ old[t].tag \in 0 .. MIN_ALIGN - 1
  BY DEF TypeOK, Words, Tags
<1>3. head.tag = old[t].tag /\ Watching(t)
  BY DEF PopCas, Watching
<1> QED
  BY <1>1, <1>2, <1>3 DEF TagWindow

-----------------------------------------------------------------------------
(* What the bin promises, and the two facts about links it rests on.       *)

Promise == OneOwner /\ NoneLost /\ ChainIsStack /\ PushLinked /\ LinkFresh

\* A push links its block in front of the list.
LEMMA PushCasPromise ==
  ASSUME TypeOK, LocalsInUse, TagWindow, Promise, NEW t \in Threads, PushCas(t)
  PROVE  Promise'
<1> DEFINE b == blk[t]
<1>1. b \in Blocks /\ t \in InCall
  BY DEF PushCas, LocalsInUse, InCall, TypeOK, Addrs
<1>2. /\ stk \in Seq(Blocks) /\ stk' = <<b>> \o stk
      /\ Len(stk') = Len(stk) + 1 /\ stk'[1] = b
      /\ \A i \in 1 .. Len(stk) : stk'[i + 1] = stk[i]
      /\ Elems(stk') = Elems(stk) \cup {b}
      /\ Distinct(stk) /\ b \notin Elems(stk) => Distinct(stk')
      /\ Len(stk) \in Nat
  BY <1>1, PushSeq DEF PushCas, TypeOK
<1>3. InBin = Elems(stk) /\ InBin' = Elems(stk')
  BY DEF InBin, Elems
<1>4. InCall' = InCall \ {t} /\ held' = held /\ \A u \in InCall' : blk'[u] = blk[u]
  BY DEF PushCas, InCall, TypeOK
<1>5. OneOwner'
  <2>1. b \notin InBin /\ b \notin held /\ Distinct(stk)
    BY <1>1 DEF Promise, OneOwner, Distinct
  <2>2. Distinct(stk')
    BY <2>1, <1>2, <1>3
  <2>3. \A u \in InCall' : blk'[u] \notin InBin' \cup held'
    BY <1>1, <1>2, <1>3, <1>4 DEF Promise, OneOwner
  <2>4. \A u, v \in InCall' : blk'[u] = blk'[v] => u = v
    BY <1>4 DEF Promise, OneOwner
  <2>5. InBin' \cap held' = {}
    BY <2>1, <1>2, <1>3, <1>4 DEF Promise, OneOwner
  <2> QED
    BY <2>2, <2>3, <2>4, <2>5 DEF OneOwner, Distinct
<1>6. NoneLost'
  BY <1>1, <1>2, <1>3, <1>4 DEF Promise, NoneLost
<1>7. ChainIsStack'
  <2>1. head'.addr = b /\ next' = next /\ next[b] = head.addr
    BY DEF PushCas, Promise, PushLinked
  <2>2. stk' # <<>>
    BY <1>2
  <2>3. ASSUME NEW i \in 1 .. Len(stk')
        PROVE  next'[stk'[i]] = (IF i = Len(stk') THEN NULL ELSE stk'[i + 1])
    <3>1. CASE i = 1
      BY <3>1, <1>2, <2>1 DEF Promise, ChainIsStack
    <3>2. CASE i # 1
      <4>1. i - 1 \in 1 .. Len(stk) /\ stk'[i] = stk[i - 1]
        BY <3>2, <1>2
      <4>2. next[stk[i - 1]] = (IF i - 1 = Len(stk) THEN NULL ELSE stk[i])
        BY <4>1 DEF Promise, ChainIsStack
      <4> QED
        BY <4>1, <4>2, <1>2, <2>1
    <3> QED
      BY <3>1, <3>2
  <2> QED
    BY <2>1, <2>2, <2>3, <1>2 DEF ChainIsStack
<1>8. PushLinked'
  BY DEF PushCas, Promise, PushLinked, Goto, DropLocals, TypeOK
<1>9. LinkFresh'
  BY DEF PushCas, Promise, LinkFresh, SwapBy, OneMore, Goto, DropLocals, TypeOK, Watching
<1> QED
  BY <1>5, <1>6, <1>7, <1>8, <1>9 DEF Promise

\* A pop that was not overtaken unlinks the top of the list.
LEMMA PopCasPromise ==
  ASSUME TypeOK, LocalsInUse, TagWindow, Promise, NEW t \in Threads, PopCas(t), ~wrapped'
  PROVE  Promise'
<1> DEFINE b == old[t].addr
<1>1. lag[t] = 0
  BY PopNotOvertaken
<1>2. b # NULL /\ b \in Blocks /\ head.addr = b /\ nxt[t] = next[b] /\ t \notin InCall
  BY <1>1 DEF PopCas, Promise, LinkFresh, LocalsInUse, Watching, TypeOK, Words, Addrs, InCall
<1>3. stk # <<>> /\ b = stk[1]
  BY <1>2 DEF Promise, ChainIsStack
<1>4. /\ stk \in Seq(Blocks) /\ stk' = Tail(stk)
      /\ Len(stk') = Len(stk) - 1 /\ Len(stk) \in Nat /\ Len(stk) >= 1
      /\ \A i \in 1 .. Len(stk) - 1 : stk'[i] = stk[i + 1]
      /\ Elems(stk) = Elems(stk') \cup {b}
      /\ Distinct(stk) => Distinct(stk') /\ b \notin Elems(stk')
  BY <1>3, PopSeq DEF PopCas, TypeOK
<1>5. InBin = Elems(stk) /\ InBin' = Elems(stk')
  BY DEF InBin, Elems
<1>6. /\ InCall' = InCall \cup {t} /\ held' = held /\ blk'[t] = b
      /\ \A u \in InCall : blk'[u] = blk[u]
  BY <1>2 DEF PopCas, InCall, TypeOK
<1>7. OneOwner'
  <2>1. Distinct(stk') /\ b \notin InBin' /\ b \in InBin
    BY <1>4, <1>5 DEF Promise, OneOwner, Distinct
  <2>2. \A u \in InCall : blk[u] # b
    BY <2>1 DEF Promise, OneOwner
  <2>3. \A u \in InCall' : blk'[u] \notin InBin' \cup held'
    BY <2>1, <1>4, <1>5, <1>6 DEF Promise, OneOwner
  <2>4. \A u, v \in InCall' : blk'[u] = blk'[v] => u = v
    BY <2>2, <1>6 DEF Promise, OneOwner
  <2>5. InBin' \cap held' = {}
    BY <1>4, <1>5, <1>6 DEF Promise, OneOwner
  <2> QED
    BY <2>1, <2>3, <2>4, <2>5 DEF OneOwner, Distinct
<1>8. NoneLost'
  <2>1. {blk'[u] : u \in InCall'} = {blk[u] : u \in InCall} \cup {b}
    BY <1>6
  <2> QED
    BY <2>1, <1>4, <1>5, <1>6 DEF Promise, NoneLost
<1>9. ChainIsStack'
  <2>1. head'.addr = next[stk[1]] /\ next' = next
    BY <1>2, <1>3 DEF PopCas
  <2>2. next[stk[1]] = (IF 1 = Len(stk) THEN NULL ELSE stk[2])
    <3>1. 1 \in 1 .. Len(stk)
      BY <1>4
    <3> QED
      BY <3>1 DEF Promise, ChainIsStack
  <2>3. head'.addr = (IF stk' = <<>> THEN NULL ELSE stk'[1])
    <3>1. CASE Len(stk) = 1
      BY <3>1, <2>1, <2>2, <1>4
    <3>2. CASE Len(stk) # 1
      <4>1. 1 \in 1 .. Len(stk) - 1 /\ Len(stk') # 0
        <5>1. Len(stk) \in Nat /\ Len(stk) >= 1 /\ Len(stk') = Len(stk) - 1
          BY <1>4
        <5> QED
          BY <5>1, <3>2
      <4>2. stk' # <<>>
        BY <4>1
      <4>3. stk'[1] = stk[2]
        BY <4>1, <1>4
      <4> QED
        BY <4>2, <4>3, <3>2, <2>1, <2>2
    <3> QED
      BY <3>1, <3>2
  <2>4. ASSUME NEW i \in 1 .. Len(stk')
        PROVE  next'[stk'[i]] = (IF i = Len(stk') THEN NULL ELSE stk'[i + 1])
    <3>1. i + 1 \in 1 .. Len(stk) /\ stk'[i] = stk[i + 1]
      BY <1>4
    <3>2. next[stk[i + 1]] = (IF i + 1 = Len(stk) THEN NULL ELSE stk[i + 2])
      BY <3>1 DEF Promise, ChainIsStack
    <3>3. i # Len(stk') => stk'[i + 1] = stk[i + 2]
      BY <1>4
    <3> QED
      BY <3>1, <3>2, <3>3, <2>1, <1>4
  <2> QED
    BY <2>3, <2>4 DEF ChainIsStack
<1>10. PushLinked'
  BY DEF PopCas, Promise, PushLinked, Goto, DropLocals, TypeOK
<1>11. LinkFresh'
  BY DEF PopCas, Promise, LinkFresh, SwapBy, OneMore, Goto, DropLocals, TypeOK, Watching
<1> QED
  BY <1>7, <1>8, <1>9, <1>10, <1>11 DEF Promise

-----------------------------------------------------------------------------
\* Ownership does not change while no block changes hands.
LEMMA SameOwners ==
  ASSUME OneOwner, NoneLost, UNCHANGED <<stk, held, blk>>
  PROVE  OneOwner' /\ NoneLost'
<1>1. InBin' = InBin /\ InCall' = InCall
  BY DEF InBin, InCall
<1> QED
  BY <1>1 DEF OneOwner, NoneLost

\* Every step of a call preserves what its thread may rely on.
LEMMA StepPromise ==
  ASSUME TypeOK, LocalsInUse, TagWindow, Promise, [Next]_vars, ~wrapped'
  PROVE  Promise'
<1> USE DEF TypeOK, Goto, DropLocals
<1>1. ASSUME NEW t \in Threads, PushCall(t)
      PROVE  Promise'
  <2> USE <1>1 DEF PushCall, Promise
  <2>1. PICK b \in held : blk' = [blk EXCEPT ![t] = b] /\ held' = held \ {b}
    OBVIOUS
  <2>2. b \in Blocks /\ b # NULL /\ blk[t] = NULL
    BY <2>1 DEF LocalsInUse
  <2>3. InBin' = InBin /\ InCall' = InCall \cup {t}
    BY <2>1, <2>2 DEF InBin, InCall
  <2>4. OneOwner'
    BY <2>1, <2>2, <2>3 DEF OneOwner, InCall
  <2>5. NoneLost'
    <3>1. {blk'[u] : u \in InCall'} = {blk[u] : u \in InCall} \cup {b}
      BY <2>1, <2>2, <2>3 DEF InCall
    <3> QED
      BY <3>1, <2>1, <2>3 DEF NoneLost
  <2>6. ChainIsStack'
    BY DEF ChainIsStack
  <2>7. PushLinked' /\ LinkFresh'
    BY <2>1 DEF PushLinked, LinkFresh
  <2> QED
    BY <2>4, <2>5, <2>6, <2>7
<1>2. ASSUME NEW t \in Threads, PushLoad(t) \/ PushRetry(t)
      PROVE  Promise'
  <2> USE <1>2 DEF PushLoad, PushRetry, Promise
  <2>1. OneOwner' /\ NoneLost'
    BY SameOwners
  <2>2. ChainIsStack'
    BY DEF ChainIsStack
  <2>3. PushLinked' /\ LinkFresh'
    BY DEF PushLinked, LinkFresh
  <2> QED
    BY <2>1, <2>2, <2>3
<1>3. ASSUME NEW t \in Threads, PushStore(t)
      PROVE  Promise'
  <2> USE <1>3 DEF PushStore, Promise
  <2>1. t \in InCall /\ blk[t] \in Blocks /\ blk[t] \notin InBin
    BY DEF InCall, LocalsInUse, OneOwner, Addrs
  <2>2. OneOwner' /\ NoneLost'
    BY SameOwners
  <2>3. \A i \in 1 .. Len(stk) : stk[i] # blk[t] /\ next'[stk[i]] = next[stk[i]]
    BY <2>1 DEF InBin
  <2>4. ChainIsStack'
    BY <2>3 DEF ChainIsStack
  <2>5. PushLinked'
    <3>1. \A u \in Threads : pc[u] = "push_cas" => u \in InCall /\ blk[u] # blk[t]
      BY <2>1 DEF InCall, LocalsInUse, OneOwner
    <3>2. next'[blk[t]] = old[t].addr
      BY <2>1
    <3> QED
      BY <3>1, <3>2 DEF PushLinked
  <2>6. LinkFresh'
    <3>1. ASSUME NEW u \in Threads, pc[u] = "pop_cas", lag[u] = 0
          PROVE  old[u].addr \in InBin
      <4>1. old[u] = head /\ head.addr # NULL
        BY <3>1 DEF TagWindow, Watching, LocalsInUse
      <4>2. stk # <<>> /\ head.addr = stk[1] /\ 1 \in 1 .. Len(stk)
        BY <4>1 DEF ChainIsStack
      <4> QED
        BY <4>1, <4>2 DEF InBin
    <3> QED
      BY <3>1, <2>1 DEF LinkFresh
  <2> QED
    BY <2>2, <2>4, <2>5, <2>6
<1>4. ASSUME NEW t \in Threads, PushCas(t)
      PROVE  Promise'
  BY <1>4, PushCasPromise
<1>5. ASSUME NEW t \in Threads, PopCall(t) \/ PopEmpty(t) \/ PopLoad(t) \/ PopRetry(t)
      PROVE  Promise'
  <2> USE <1>5 DEF PopCall, PopEmpty, PopLoad, PopRetry, Promise
  <2>1. OneOwner' /\ NoneLost'
    BY SameOwners
  <2>2. ChainIsStack'
    BY DEF ChainIsStack
  <2>3. PushLinked' /\ LinkFresh'
    BY DEF PushLinked, LinkFresh
  <2> QED
    BY <2>1, <2>2, <2>3
<1>6. ASSUME NEW t \in Threads, PopNext(t)
      PROVE  Promise'
  <2> USE <1>6 DEF PopNext, Promise
  <2>1. OneOwner' /\ NoneLost'
    BY SameOwners
  <2>2. ChainIsStack'
    BY DEF ChainIsStack
  <2>3. PushLinked' /\ LinkFresh'
    BY DEF PushLinked, LinkFresh
  <2> QED
    BY <2>1, <2>2, <2>3
<1>7. ASSUME NEW t \in Threads, PopCas(t)
      PROVE  Promise'
  BY <1>7, PopCasPromise
<1>8. ASSUME NEW t \in Threads, PopReturn(t)
      PROVE  Promise'
  <2> USE <1>8 DEF PopReturn, Promise
  <2>1. t \in InCall /\ InCall' = InCall \ {t} /\ InBin' = InBin
    BY DEF InCall, LocalsInUse, InBin
  <2>2. OneOwner'
    BY <2>1 DEF OneOwner
  <2>3. NoneLost'
    BY <2>1 DEF NoneLost
  <2>4. ChainIsStack'
    BY DEF ChainIsStack
  <2>5. PushLinked' /\ LinkFresh'
    BY DEF PushLinked, LinkFresh
  <2> QED
    BY <2>2, <2>3, <2>4, <2>5
<1>9. CASE Relink
  <2> USE <1>9 DEF Relink, Promise
  <2>1. PICK b \in held, a \in Addrs : next' = [next EXCEPT ![b] = a]
    OBVIOUS
  <2>2. OneOwner' /\ NoneLost'
    BY SameOwners
  <2>3. \A c \in Blocks : c \notin held => next'[c] = next[c]
    BY <2>1
  <2>4. \A i \in 1 .. Len(stk) : stk[i] \in InBin /\ stk[i] \in Blocks /\ stk[i] \notin held
    BY DEF InBin, OneOwner
  <2>5. ChainIsStack'
    BY <2>3, <2>4 DEF ChainIsStack
  <2>6. PushLinked'
    <3>1. \A u \in Threads : pc[u] = "push_cas" => blk[u] \in Blocks /\ blk[u] \notin held
      BY DEF InCall, LocalsInUse, OneOwner, Addrs
    <3> QED
      BY <3>1, <2>3 DEF PushLinked
  <2>7. LinkFresh'
    <3>1. ASSUME NEW u \in Threads, pc[u] = "pop_cas", lag[u] = 0
          PROVE  old[u].addr \in Blocks /\ old[u].addr \notin held
      <4>1. old[u] = head /\ head.addr # NULL
        BY <3>1 DEF TagWindow, Watching, LocalsInUse
      <4>2. stk # <<>> /\ head.addr = stk[1] /\ 1 \in 1 .. Len(stk)
        BY <4>1 DEF ChainIsStack
      <4> QED
        BY <4>1, <4>2, <2>4
    <3> QED
      BY <3>1, <2>3 DEF LinkFresh
  <2> QED
    BY <2>2, <2>5, <2>6, <2>7
<1>10. CASE UNCHANGED vars
  <2>1. OneOwner' /\ NoneLost'
    BY <1>10, SameOwners DEF vars, Promise
  <2>2. ChainIsStack' /\ PushLinked' /\ LinkFresh'
    BY <1>10 DEF vars, Promise, ChainIsStack, PushLinked, LinkFresh
  <2> QED
    BY <2>1, <2>2 DEF Promise
<1> QED
  BY <1>1, <1>2, <1>3, <1>4, <1>5, <1>6, <1>7, <1>8, <1>9, <1>10 DEF Next, Step, Swap

\* The latch never clears, so an unwrapped step starts from an unwrapped state.
LEMMA WrappedLatch ==
  ASSUME TypeOK, [Next]_vars, wrapped
  PROVE  wrapped'
BY Zenon DEF Next, Step, Swap, vars, PushCall, PushLoad, PushStore, PushCas,
     PushRetry, PopCall, PopEmpty, PopLoad, PopNext, PopCas, PopRetry,
     PopReturn, Relink

\* The invariant is inductive.
LEMMA StepIInv == IInv /\ [Next]_vars => IInv'
<1> SUFFICES ASSUME IInv, [Next]_vars PROVE IInv'
  OBVIOUS
<1>1. TypeOK' /\ LocalsInUse' /\ TagWindow'
  BY StepType, StepLocals, StepWindow DEF IInv
<1>2. ASSUME ~wrapped' PROVE Promise'
  <2>1. ~wrapped
    BY <1>2, WrappedLatch DEF IInv
  <2> QED
    BY <1>2, <2>1, StepPromise DEF IInv, Promise
<1> QED
  BY <1>1, <1>2 DEF IInv, Promise

\* Type correctness of push_fixed and pop_fixed, for any number of threads,
\* blocks and calls.
THEOREM TypeCorrect == Spec => []TypeOK
<1>1. IInv => TypeOK
  BY DEF IInv
<1> QED
  BY <1>1, InitIInv, StepIInv, PTL DEF Spec

\* The inductive invariant holds in every reachable state: what every thread
\* inside push_fixed or pop_fixed may rely on until its compare-and-swap.
THEOREM InvariantHolds == Spec => []IInv
  BY InitIInv, StepIInv, PTL DEF Spec

\* For any number of threads, blocks and calls, and any MIN_ALIGN: while no
\* pop succeeds on a head word that came round, every block has one owner,
\* none is lost, and the chain of link words is the stack of pushed blocks.
THEOREM BinIsSafe == Spec => []BinSafe
<1>1. IInv => BinSafe
  BY DEF IInv, BinSafe
<1> QED
  BY <1>1, InitIInv, StepIInv, PTL DEF Spec

-----------------------------------------------------------------------------
(* Refinement: every step is a step of the atomic stack, or invisible.     *)

AbsIdle == [op |-> "idle", blk |-> NULL]
AbsPop == [op |-> "pop", blk |-> NULL]
AbsPush(b) == [op |-> "push", blk |-> b]
AbsGot(b) == [op |-> "got", blk |-> b]

\* What a thread's abstract call is, spelt out.
LEMMA AbsCallAt ==
  ASSUME NEW t \in Threads
  PROVE  /\ pc[t] = "idle" => absCall[t] = AbsIdle
         /\ pc[t] \in {"push_load", "push_store", "push_cas"} => absCall[t] = AbsPush(blk[t])
         /\ pc[t] \in {"pop_load", "pop_next", "pop_cas"} => absCall[t] = AbsPop
         /\ pc[t] = "pop_done" => absCall[t] = AbsGot(blk[t])
BY DEF absCall, AbsIdle, AbsPush, AbsPop, AbsGot

\* A step of one thread changes the abstract call of that thread only.
LEMMA AbsCallStep ==
  ASSUME TypeOK, NEW t \in Threads,
         \A u \in Threads : u # t => pc'[u] = pc[u] /\ blk'[u] = blk[u]
  PROVE  absCall' = [absCall EXCEPT ![t] = absCall'[t]]
<1> absCall = [u \in Threads |-> absCall[u]] /\ absCall' = [u \in Threads |-> absCall'[u]]
  BY DEF absCall
<1> \A u \in Threads : u # t => absCall'[u] = absCall[u]
  BY DEF absCall
<1> QED
  OBVIOUS

\* A step that leaves the list, and every thread's abstract call, as they are.
LEMMA AbsStutter ==
  ASSUME TypeOK, UNCHANGED stk, NEW t \in Threads,
         \A u \in Threads : u # t => pc'[u] = pc[u] /\ blk'[u] = blk[u],
         absCall'[t] = absCall[t]
  PROVE  UNCHANGED Abs!absVars
<1> absCall = [u \in Threads |-> absCall[u]]
  BY DEF absCall
<1> absCall' = absCall
  BY AbsCallStep
<1> QED
  BY DEF Abs!absVars

\* The primed reading of AbsCallAt.
LEMMA AbsCallAtNext ==
  ASSUME NEW t \in Threads
  PROVE  /\ pc'[t] = "idle" => absCall'[t] = AbsIdle
         /\ pc'[t] \in {"push_load", "push_store", "push_cas"} => absCall'[t] = AbsPush(blk'[t])
         /\ pc'[t] \in {"pop_load", "pop_next", "pop_cas"} => absCall'[t] = AbsPop
         /\ pc'[t] = "pop_done" => absCall'[t] = AbsGot(blk'[t])
BY DEF absCall, AbsIdle, AbsPush, AbsPop, AbsGot

\* Every step maps to a step of the atomic stack, or to none.
LEMMA StepRefines ==
  ASSUME IInv, [Next]_vars, ~wrapped'
  PROVE  [Abs!AbsNext]_(Abs!absVars)
<1>1. TypeOK /\ LocalsInUse /\ TagWindow /\ Promise
  BY WrappedLatch DEF IInv, Promise
<1> USE DEF Goto, DropLocals
<1>2. ASSUME NEW t \in Threads, PushCall(t)
      PROVE  Abs!AbsNext
  <2> USE <1>1, <1>2 DEF PushCall, TypeOK
  <2>1. PICK b \in held : blk' = [blk EXCEPT ![t] = b] /\ held' = held \ {b}
    OBVIOUS
  <2>2. absCall[t] = AbsIdle /\ absCall'[t] = AbsPush(b)
    BY <2>1, AbsCallAt, AbsCallAtNext
  <2>3. b \notin Abs!Taken
    <3>1. b \notin InBin /\ \A u \in InCall : blk[u] # b
      BY <2>1 DEF Promise, OneOwner
    <3>2. \A u \in Threads : absCall[u].op = "push" => u \in InCall /\ absCall[u].blk = blk[u]
      BY DEF absCall, LocalsInUse, InCall
    <3>3. {stk[i] : i \in DOMAIN stk} = InBin
      BY DEF InBin
    <3> QED
      BY <3>1, <3>2, <3>3 DEF Abs!Taken
  <2>4. Abs!CallPush(t, b)
    BY <2>1, <2>2, <2>3, AbsCallStep DEF Abs!CallPush, Abs!Idle, Abs!Pushing, AbsIdle, AbsPush
  <2> QED
    BY <2>1, <2>4 DEF Abs!AbsNext
<1>3. ASSUME NEW t \in Threads, PushLoad(t) \/ PushStore(t) \/ PushRetry(t)
      PROVE  UNCHANGED Abs!absVars
  <2>1. absCall'[t] = absCall[t]
    BY <1>1, <1>3, AbsCallAt, AbsCallAtNext DEF PushLoad, PushStore, PushRetry, TypeOK
  <2> QED
    BY <1>1, <1>3, <2>1, AbsStutter DEF PushLoad, PushStore, PushRetry, TypeOK
<1>4. ASSUME NEW t \in Threads, PushCas(t)
      PROVE  Abs!AbsNext
  <2>1. absCall[t] = AbsPush(blk[t]) /\ absCall'[t] = AbsIdle
    BY <1>1, <1>4, AbsCallAt, AbsCallAtNext DEF PushCas, TypeOK
  <2>2. absCall' = [absCall EXCEPT ![t] = AbsIdle]
    BY <1>1, <1>4, <2>1, AbsCallStep DEF PushCas, TypeOK
  <2>3. Abs!Push(t)
    BY <1>4, <2>1, <2>2 DEF PushCas, Abs!Push, Abs!Idle, AbsIdle, AbsPush
  <2> QED
    BY <2>3 DEF Abs!AbsNext
<1>5. ASSUME NEW t \in Threads, PopCall(t)
      PROVE  Abs!AbsNext
  <2>1. absCall[t] = AbsIdle /\ absCall'[t] = AbsPop
    BY <1>1, <1>5, AbsCallAt, AbsCallAtNext DEF PopCall, TypeOK
  <2>2. absCall' = [absCall EXCEPT ![t] = AbsPop]
    BY <1>1, <1>5, <2>1, AbsCallStep DEF PopCall, TypeOK
  <2>3. Abs!CallPop(t)
    BY <1>5, <2>1, <2>2 DEF PopCall, Abs!CallPop, Abs!Idle, Abs!Popping, AbsIdle, AbsPop
  <2> QED
    BY <2>3 DEF Abs!AbsNext
<1>6. ASSUME NEW t \in Threads, PopEmpty(t)
      PROVE  Abs!AbsNext
  <2>1. absCall[t] = AbsPop /\ absCall'[t] = AbsIdle
    BY <1>1, <1>6, AbsCallAt, AbsCallAtNext DEF PopEmpty, TypeOK
  <2>2. absCall' = [absCall EXCEPT ![t] = AbsIdle]
    BY <1>1, <1>6, <2>1, AbsCallStep DEF PopEmpty, TypeOK
  <2>3. stk = <<>>
    <3>1. stk # <<>> => stk[1] \in Blocks
      BY <1>1 DEF TypeOK
    <3> QED
      BY <1>1, <1>6, <3>1 DEF PopEmpty, Promise, ChainIsStack
  <2>4. Abs!PopEmpty(t)
    BY <1>6, <2>1, <2>2, <2>3 DEF PopEmpty, Abs!PopEmpty, Abs!Idle, Abs!Popping, AbsIdle, AbsPop
  <2> QED
    BY <2>4 DEF Abs!AbsNext
<1>7. ASSUME NEW t \in Threads, PopLoad(t) \/ PopNext(t) \/ PopRetry(t)
      PROVE  UNCHANGED Abs!absVars
  <2>1. absCall'[t] = absCall[t]
    BY <1>1, <1>7, AbsCallAt, AbsCallAtNext DEF PopLoad, PopNext, PopRetry, TypeOK
  <2> QED
    BY <1>1, <1>7, <2>1, AbsStutter DEF PopLoad, PopNext, PopRetry, TypeOK
<1>8. ASSUME NEW t \in Threads, PopCas(t)
      PROVE  Abs!AbsNext
  <2>1. old[t].addr # NULL /\ head.addr = old[t].addr
    BY <1>1, <1>8 DEF PopCas, LocalsInUse, Watching
  <2>2. stk # <<>> /\ old[t].addr = Head(stk) /\ stk' = Tail(stk)
    <3>1. stk # <<>> /\ old[t].addr = stk[1]
      BY <1>1, <2>1 DEF Promise, ChainIsStack
    <3> QED
      BY <1>1, <1>8, <3>1 DEF PopCas, TypeOK
  <2>3. absCall[t] = AbsPop /\ absCall'[t] = AbsGot(Head(stk))
    BY <1>1, <1>8, <2>2, AbsCallAt, AbsCallAtNext DEF PopCas, TypeOK
  <2>4. absCall' = [absCall EXCEPT ![t] = AbsGot(Head(stk))]
    BY <1>1, <1>8, <2>3, AbsCallStep DEF PopCas, TypeOK
  <2>5. Abs!Pop(t)
    BY <2>2, <2>3, <2>4 DEF Abs!Pop, Abs!Popping, AbsPop, AbsGot
  <2> QED
    BY <2>5 DEF Abs!AbsNext
<1>9. ASSUME NEW t \in Threads, PopReturn(t)
      PROVE  Abs!AbsNext
  <2>1. absCall[t] = AbsGot(blk[t]) /\ absCall'[t] = AbsIdle
    BY <1>1, <1>9, AbsCallAt, AbsCallAtNext DEF PopReturn, TypeOK
  <2>2. absCall' = [absCall EXCEPT ![t] = AbsIdle]
    BY <1>1, <1>9, <2>1, AbsCallStep DEF PopReturn, TypeOK
  <2>3. Abs!Return(t)
    BY <1>9, <2>1, <2>2 DEF PopReturn, Abs!Return, Abs!Idle, AbsIdle, AbsGot
  <2> QED
    BY <2>3 DEF Abs!AbsNext
<1>10. CASE Relink \/ UNCHANGED vars
  BY <1>10 DEF Relink, vars, Abs!absVars, absCall
<1> QED
  BY <1>2, <1>3, <1>4, <1>5, <1>6, <1>7, <1>8, <1>9, <1>10 DEF Next, Step, Swap

\* For any number of threads, blocks and calls: until a pop succeeds on a head
\* word that came round, push_fixed and pop_fixed implement an atomic stack.
THEOREM BinRefinesStack == Spec => RefinesStack
<1>1. Init => Abs!AbsInit
  BY DEF Init, Abs!AbsInit, Abs!Idle, absCall
<1>2. IInv /\ [Next]_vars => [wrapped' \/ Abs!AbsNext]_(Abs!absVars)
  <2> SUFFICES ASSUME IInv, [Next]_vars PROVE [wrapped' \/ Abs!AbsNext]_(Abs!absVars)
    OBVIOUS
  <2>1. CASE wrapped'
    BY <2>1
  <2>2. CASE ~wrapped'
    BY <2>2, StepRefines
  <2> QED
    BY <2>1, <2>2
<1> QED
  BY <1>1, <1>2, InitIInv, StepIInv, PTL DEF Spec, RefinesStack
=============================================================================
