---------------------------- MODULE Heap_proofs -----------------------------
(***************************************************************************)
(* The allocator, for every configuration, any number of threads and heaps *)
(* of any size.  First the refill lock, init and verify: one thread at     *)
(* most is in a critical section, the lock word says whether one is,       *)
(* nobody else moves the bump pointer or changes the head of the oversized *)
(* list; verify accepts nothing but this configuration's stamp, which      *)
(* every initialised heap carries.  Then HeapInv is inductive: the step of *)
(* each action gives the ghosts of the next state; the frame lemmas say    *)
(* what of the invariant survives a change of owner, of a link, of a       *)
(* header or of one call's locals.                                         *)
(***************************************************************************)
EXTENDS HeapInv, SizeFacts, FiniteSetTheorems

-----------------------------------------------------------------------------
(* The invariant.                                                          *)

Shape ==
  /\ DOMAIN pc = Threads /\ DOMAIN r = Threads
  /\ \A t \in Threads : "job" \in DOMAIN r[t] /\ "bin" \in DOMAIN r[t]
  /\ oversize_bin \in DOMAIN head

\* On whose behalf a thread can be where it is.
JobInPlace(t) ==
  /\ pc[t] = "lock" => r[t].job \in {"slow", "over", "shrink", "free"}
  /\ Popping(t) => r[t].job \in {"fast", "slow"}
  /\ Pushing(t) => r[t].job \in {"slow", "over", "fit", "shrink", "free"}
  /\ pc[t] = "refill" => r[t].job = "slow"
  /\ pc[t] = "gap" => r[t].job \in {"slow", "over"}
  /\ pc[t] = "fit" => r[t].job = "over"
  /\ pc[t] = "fit_head" => r[t].job = "over"
  /\ pc[t] = "split" => r[t].job \in {"fit", "shrink"}
  /\ pc[t] \in {"free_stamp", "over_push"} => r[t].job = "free"

\* push_fixed and pop_fixed never work on the oversized bin.
FixedBinOnly(t) ==
  Popping(t) \/ Pushing(t) \/ (pc[t] = "lock" /\ r[t].job = "slow")
    => r[t].bin # oversize_bin

LocalsFit == \A t \in Threads : JobInPlace(t) /\ FixedBinOnly(t)

\* While a thread prepares the heap, nobody works on it.
InitAlone ==
  \A t \in Threads : Initialising(t) => ~booted /\ \A u \in Threads \ {t} : OffHeap(u)

\* How far init has come shows in the metadata words; a verify that has gone
\* past the marker has seen it, and it stays.
Stamped ==
  /\ \A t \in Threads :
       /\ pc[t] \in {"init_print", "init_head", "init_bump", "init_lock", "verify_print"}
            => magic = MAGIC
       /\ pc[t] \in {"init_head", "init_bump", "init_lock"} => print = Mine
  /\ booted => magic = MAGIC /\ print = Mine

LInv == Shape /\ LocalsFit /\ LockExcludes /\ InitAlone /\ Stamped

-----------------------------------------------------------------------------
\* Steps of a thread leave the other threads where they are.
Alone(t) == \A u \in Threads \ {t} : pc'[u] = pc[u] /\ r'[u] = r[u]

\* A step of a call moves its own thread only.
LEMMA StepAlone ==
  ASSUME Shape, NEW t \in Threads,
         Call(t) \/ Step(t)
  PROVE  Alone(t) /\ DOMAIN pc' = Threads /\ DOMAIN r' = Threads /\ booted' = booted
<1> USE DEF Alone, Shape, Goto, setup, client, control, memory
<1>1. CASE AllocCall(t) BY <1>1 DEF AllocCall, MayCall
<1>2. CASE FreeCall(t) BY <1>2 DEF FreeCall, MayCall
<1>3. CASE ReallocCall(t) BY <1>3 DEF ReallocCall, MayCall
<1>4. CASE Lock(t) BY <1>4 DEF Lock
<1>5. CASE Unlock(t) BY <1>5 DEF Unlock
<1>6. CASE PushLoad(t) BY <1>6 DEF PushLoad
<1>7. CASE PushStore(t) BY <1>7 DEF PushStore
<1>8. CASE PushRetry(t) BY <1>8 DEF PushRetry
<1>9. CASE PopEmpty(t) BY <1>9 DEF PopEmpty
<1>10. CASE PopLoad(t) BY <1>10 DEF PopLoad
<1>11. CASE PopNext(t) BY <1>11 DEF PopNext
<1>12. CASE PopRetry(t) BY <1>12 DEF PopRetry
<1>13. CASE PushCas(t) BY <1>13 DEF PushCas
<1>14. CASE PopCas(t) BY <1>14 DEF PopCas
<1>15. CASE Stamp(t) BY <1>15 DEF Stamp
<1>16. CASE Got(t) BY <1>16 DEF Got
<1>17. CASE RefillFixed(t) BY <1>17 DEF RefillFixed, Refill
<1>18. CASE CarveGap(t) BY <1>18 DEF CarveGap, Release
<1>19. CASE Bump(t) BY <1>19 DEF Bump
<1>20. CASE FitHead(t) BY <1>20 DEF FitHead
<1>21. CASE FitSkip(t) BY <1>21 DEF FitSkip
<1>22. CASE FitTake(t) BY <1>22 DEF FitTake
<1>23. CASE RefillOversize(t) BY <1>23 DEF RefillOversize, Refill
<1>24. CASE OverStamp(t) BY <1>24 DEF OverStamp
<1>25. CASE SplitCarve(t) BY <1>25 DEF SplitCarve, Release
<1>26. CASE SplitDone(t) BY <1>26 DEF SplitDone
<1>27. CASE ReallocKeep(t) BY <1>27 DEF ReallocKeep
<1>28. CASE ReallocShrink(t) BY <1>28 DEF ReallocShrink
<1>29. CASE ReallocGrow(t) BY <1>29 DEF ReallocGrow
<1>30. CASE Copy(t) BY <1>30 DEF Copy
<1>31. CASE FreeLoad(t) BY <1>31 DEF FreeLoad
<1>32. CASE FreeStamp(t) BY <1>32 DEF FreeStamp
<1>33. CASE OverPush(t) BY <1>33 DEF OverPush
<1>34. CASE Return(t) BY <1>34 DEF Return
<1>35. CASE FreeAgain(t) BY <1>35 DEF FreeAgain, MayCall
<1> QED BY <1>1, <1>2, <1>3, <1>4, <1>5, <1>6, <1>7, <1>8, <1>9, <1>10, <1>11, <1>12,
           <1>13, <1>14, <1>15, <1>16, <1>17, <1>18, <1>19, <1>20, <1>21, <1>22,
           <1>23, <1>24, <1>25, <1>26, <1>27, <1>28, <1>29, <1>30, <1>31, <1>32,
           <1>33, <1>34, <1>35 DEF Call, Step, Swap


-----------------------------------------------------------------------------
\* How a step of t moves it in or out of the critical section.
LockMove(t) ==
  \/ (Critical(t)' <=> Critical(t)) /\ lock' = lock
  \/ ~Critical(t) /\ lock = 0 /\ Critical(t)' /\ lock' = 1
  \/ Critical(t) /\ ~Critical(t)' /\ lock' = 0

\* A step of a call leaves its thread at a point of the code.
LEMMA StepHere ==
  ASSUME Shape, NEW t \in Threads, JobInPlace(t), FixedBinOnly(t),
         Call(t) \/ Step(t)
  PROVE  /\ "job" \in DOMAIN r'[t] /\ "bin" \in DOMAIN r'[t]
         /\ JobInPlace(t)' /\ FixedBinOnly(t)' /\ LockMove(t)
<1> USE DEF Shape, Goto, setup, client, control, memory, JobInPlace, FixedBinOnly,
            Popping, Pushing, Critical, LockMove
<1>1. CASE AllocCall(t)
  <2>1. PICK n \in AllocSizes :
          /\ r' = [r EXCEPT ![t] = [@ EXCEPT !.op = "alloc", !.size = n,
                                           !.job = AllocJob(n), !.bin = RequestBin(n)]]
          /\ pc' = [pc EXCEPT ![t] = AllocEntry(n)]
    BY <1>1 DEF AllocCall
  <2>2. r'[t].job = AllocJob(n) /\ r'[t].bin = RequestBin(n) /\ pc'[t] = AllocEntry(n)
    BY <2>1
  <2>3. "job" \in DOMAIN r'[t] /\ "bin" \in DOMAIN r'[t]
    BY <2>1
  <2>4. pc[t] = "idle" /\ lock' = lock
    BY <1>1 DEF AllocCall, MayCall
  <2> QED BY <2>2, <2>3, <2>4 DEF AllocJob, AllocEntry
<1>2. CASE FreeCall(t) BY <1>2 DEF FreeCall, MayCall
<1>3. CASE ReallocCall(t) BY <1>3 DEF ReallocCall, MayCall
<1>4. CASE Lock(t) BY <1>4 DEF Lock, LockFree
<1>5. CASE Unlock(t) BY <1>5 DEF Unlock
<1>6. CASE PushLoad(t) BY <1>6 DEF PushLoad
<1>7. CASE PushStore(t) BY <1>7 DEF PushStore
<1>8. CASE PushRetry(t) BY <1>8 DEF PushRetry
<1>9. CASE PopEmpty(t) BY <1>9 DEF PopEmpty
<1>10. CASE PopLoad(t) BY <1>10 DEF PopLoad
<1>11. CASE PopNext(t) BY <1>11 DEF PopNext
<1>12. CASE PopRetry(t) BY <1>12 DEF PopRetry
<1>13. CASE PushCas(t) BY <1>13 DEF PushCas, AfterPush
<1>14. CASE PopCas(t) BY <1>14 DEF PopCas
<1>15. CASE Stamp(t) BY <1>15 DEF Stamp
<1>16. CASE Got(t) BY <1>16 DEF Got, AfterGot
<1>17. CASE RefillFixed(t) BY <1>17 DEF RefillFixed, Refill
<1>18. CASE CarveGap(t) BY <1>18 DEF CarveGap, Release
<1>19. CASE Bump(t) BY <1>19 DEF Bump
<1>20. CASE FitHead(t) BY <1>20 DEF FitHead
<1>21. CASE FitSkip(t) BY <1>21 DEF FitSkip
<1>22. CASE FitTake(t) BY <1>22 DEF FitTake
<1>23. CASE RefillOversize(t) BY <1>23 DEF RefillOversize, Refill
<1>24. CASE OverStamp(t) BY <1>24 DEF OverStamp
<1>25. CASE SplitCarve(t) BY <1>25 DEF SplitCarve, Release
<1>26. CASE SplitDone(t) BY <1>26 DEF SplitDone
<1>27. CASE ReallocKeep(t) BY <1>27 DEF ReallocKeep
<1>28. CASE ReallocShrink(t) BY <1>28 DEF ReallocShrink
<1>29. CASE ReallocGrow(t) BY <1>29 DEF ReallocGrow, AllocJob, AllocEntry
<1>30. CASE Copy(t) BY <1>30 DEF Copy
<1>31. CASE FreeLoad(t) BY <1>31 DEF FreeLoad
<1>32. CASE FreeStamp(t) BY <1>32 DEF FreeStamp, FreeEntry
<1>33. CASE OverPush(t) BY <1>33 DEF OverPush
<1>34. CASE Return(t) BY <1>34 DEF Return, NoLocals
<1>35. CASE FreeAgain(t) BY <1>35 DEF FreeAgain, MayCall
<1> QED BY <1>1, <1>2, <1>3, <1>4, <1>5, <1>6, <1>7, <1>8, <1>9, <1>10, <1>11, <1>12, <1>13, <1>14, <1>15, <1>16, <1>17, <1>18, <1>19, <1>20, <1>21, <1>22, <1>23, <1>24, <1>25, <1>26, <1>27, <1>28, <1>29, <1>30, <1>31, <1>32, <1>33, <1>34, <1>35 DEF Call, Step, Swap

-----------------------------------------------------------------------------
\* The oversized list is one of the lists.
LEMMA OversizeIsABin == oversize_bin \in Bins
  BY CadAssumption DEF Bins, oversize_bin

\* No step adds or drops a list.
LEMMA StepHeads ==
  ASSUME NEW t \in Threads,
         Call(t) \/ Step(t)
  PROVE  DOMAIN head' = DOMAIN head
<1> USE DEF setup, client, control, memory
<1>1. CASE PushCas(t) BY <1>1 DEF PushCas
<1>2. CASE PopCas(t) BY <1>2 DEF PopCas
<1>3. CASE CarveGap(t) BY <1>3 DEF CarveGap, Release
<1>4. CASE SplitCarve(t) BY <1>4 DEF SplitCarve, Release
<1>5. CASE FitTake(t) BY <1>5 DEF FitTake
<1>6. CASE OverPush(t) BY <1>6 DEF OverPush
<1>7. ASSUME ~(PushCas(t) \/ PopCas(t) \/ CarveGap(t) \/ SplitCarve(t) \/ FitTake(t) \/ OverPush(t))
      PROVE  head' = head
  BY <1>7 DEF Call, Step, Swap, AllocCall, FreeCall, FreeAgain, ReallocCall, MayCall, Lock, Unlock,
     PushLoad, PushStore, PushRetry, PopEmpty, PopLoad, PopNext, PopRetry, Stamp, Got,
     RefillFixed, Bump, FitHead, FitSkip, RefillOversize, OverStamp, SplitDone,
     ReallocKeep, ReallocShrink, ReallocGrow, Copy, FreeLoad, FreeStamp, Return
<1> QED BY <1>1, <1>2, <1>3, <1>4, <1>5, <1>6, <1>7

\* At first the heap is blank and nobody holds the lock.
LEMMA InitLInv == Init => LInv
<1> SUFFICES ASSUME Init PROVE LInv
  OBVIOUS
<1>1. Shape
  BY OversizeIsABin DEF Init, Shape, NoLocals
<1>2. LocalsFit
  BY DEF Init, LocalsFit, JobInPlace, FixedBinOnly, Popping, Pushing
<1>3. LockExcludes
  BY DEF Init, LockExcludes
<1>4. InitAlone /\ Stamped
  BY DEF Init, InitAlone, Stamped, Initialising
<1> QED BY <1>1, <1>2, <1>3, <1>4 DEF LInv

\* A call or a step of one ends where the heap is worked on, and begins there
\* or, for a call, while nobody prepares the heap.
LEMMA StepOnHeap ==
  ASSUME Shape, NEW t \in Threads, JobInPlace(t), Call(t) \/ Step(t)
  PROVE  /\ ~Initialising(t) /\ ~Initialising(t)' /\ pc'[t] # "verify_print"
         /\ OffHeap(t) => booted \/ \A u \in Threads : ~Initialising(u)
<1> USE DEF Shape, Goto, setup, client, control, memory, OffHeap, Initialising
<1>1. CASE AllocCall(t)
  <2>1. PICK n \in AllocSizes : pc' = [pc EXCEPT ![t] = AllocEntry(n)]
    BY <1>1 DEF AllocCall
  <2>2. pc[t] = "idle" /\ Allowed(t)
    BY <1>1 DEF AllocCall, MayCall
  <2> QED BY <2>1, <2>2 DEF AllocEntry, Allowed
<1>2. CASE FreeCall(t) BY <1>2 DEF FreeCall, MayCall, Allowed
<1>3. CASE ReallocCall(t) BY <1>3 DEF ReallocCall, MayCall, Allowed
<1>4. CASE Lock(t) BY <1>4 DEF Lock, JobInPlace
<1>5. CASE Unlock(t) BY <1>5 DEF Unlock
<1>6. CASE PushLoad(t) BY <1>6 DEF PushLoad
<1>7. CASE PushStore(t) BY <1>7 DEF PushStore
<1>8. CASE PushRetry(t) BY <1>8 DEF PushRetry
<1>9. CASE PopEmpty(t) BY <1>9 DEF PopEmpty
<1>10. CASE PopLoad(t) BY <1>10 DEF PopLoad
<1>11. CASE PopNext(t) BY <1>11 DEF PopNext
<1>12. CASE PopRetry(t) BY <1>12 DEF PopRetry
<1>13. CASE PushCas(t) BY <1>13 DEF PushCas, AfterPush
<1>14. CASE PopCas(t) BY <1>14 DEF PopCas
<1>15. CASE Stamp(t) BY <1>15 DEF Stamp
<1>16. CASE Got(t) BY <1>16 DEF Got, AfterGot
<1>17. CASE RefillFixed(t) BY <1>17 DEF RefillFixed, Refill
<1>18. CASE CarveGap(t) BY <1>18 DEF CarveGap, Release
<1>19. CASE Bump(t) BY <1>19 DEF Bump
<1>20. CASE FitHead(t) BY <1>20 DEF FitHead
<1>21. CASE FitSkip(t) BY <1>21 DEF FitSkip
<1>22. CASE FitTake(t) BY <1>22 DEF FitTake
<1>23. CASE RefillOversize(t) BY <1>23 DEF RefillOversize, Refill
<1>24. CASE OverStamp(t) BY <1>24 DEF OverStamp
<1>25. CASE SplitCarve(t) BY <1>25 DEF SplitCarve, Release
<1>26. CASE SplitDone(t) BY <1>26 DEF SplitDone
<1>27. CASE ReallocKeep(t) BY <1>27 DEF ReallocKeep
<1>28. CASE ReallocShrink(t) BY <1>28 DEF ReallocShrink
<1>29. CASE ReallocGrow(t) BY <1>29 DEF ReallocGrow, AllocEntry
<1>30. CASE Copy(t) BY <1>30 DEF Copy
<1>31. CASE FreeLoad(t) BY <1>31 DEF FreeLoad
<1>32. CASE FreeStamp(t) BY <1>32 DEF FreeStamp, FreeEntry
<1>33. CASE OverPush(t) BY <1>33 DEF OverPush
<1>34. CASE Return(t) BY <1>34 DEF Return
<1>35. CASE FreeAgain(t) BY <1>35 DEF FreeAgain, MayCall, Allowed
<1> QED BY <1>1, <1>2, <1>3, <1>4, <1>5, <1>6, <1>7, <1>8, <1>9, <1>10, <1>11, <1>12, <1>13, <1>14, <1>15, <1>16, <1>17, <1>18, <1>19, <1>20, <1>21, <1>22, <1>23, <1>24, <1>25, <1>26, <1>27, <1>28, <1>29, <1>30, <1>31, <1>32, <1>33, <1>34, <1>35 DEF Call, Step, Swap

\* What init and verify do, whole.
SetupStep(t) == InitCall(t) \/ VerifyMagic(t) \/ Prepare(t)

\* A step of init or verify moves one thread, and that thread holds no lock.
LEMMA SetupAlone ==
  ASSUME Shape, NEW t \in Threads, SetupStep(t)
  PROVE  /\ \A u \in Threads \ {t} : pc'[u] = pc[u] /\ r'[u] = r[u]
         /\ DOMAIN pc' = Threads /\ DOMAIN r' = Threads /\ DOMAIN head' = DOMAIN head
         /\ r'[t].job = r[t].job /\ r'[t].bin = r[t].bin
         /\ "job" \in DOMAIN r'[t] /\ "bin" \in DOMAIN r'[t]
         /\ OffHeap(t) \/ Initialising(t)
         /\ (OffHeap(t) \/ Initialising(t))'
         /\ lock' = lock \/ InitLock(t)
<1> USE DEF Shape, Goto, setup, client, control, memory, OffHeap, Initialising
<1>1. CASE InitCall(t) BY <1>1 DEF InitCall
<1>2. CASE InitMagic(t) BY <1>2 DEF InitMagic
<1>3. CASE InitPrint(t) BY <1>3 DEF InitPrint
<1>4. CASE InitHead(t) BY <1>4 DEF InitHead
<1>5. CASE InitBump(t) BY <1>5 DEF InitBump
<1>6. CASE InitLock(t) BY <1>6 DEF InitLock
<1>7. CASE VerifyMagic(t) BY <1>7 DEF VerifyMagic
<1>8. CASE VerifyPrint(t) BY <1>8 DEF VerifyPrint
<1> QED BY <1>1, <1>2, <1>3, <1>4, <1>5, <1>6, <1>7, <1>8 DEF SetupStep, Prepare

\* The metadata words follow init.
LEMMA SetupStamped ==
  ASSUME Shape, InitAlone, Stamped, NEW t \in Threads, SetupStep(t)
  PROVE  InitAlone' /\ Stamped'
<1> USE DEF Shape, Goto, setup, client, control, memory, OffHeap, Initialising,
            InitAlone, Stamped
<1>1. CASE InitCall(t) BY <1>1 DEF InitCall
<1>2. CASE InitMagic(t) BY <1>2 DEF InitMagic
<1>3. CASE InitPrint(t) BY <1>3 DEF InitPrint, PrintStored
<1>4. CASE InitHead(t) BY <1>4 DEF InitHead
<1>5. CASE InitBump(t) BY <1>5 DEF InitBump
<1>6. CASE InitLock(t) BY <1>6 DEF InitLock
<1>7. CASE VerifyMagic(t) BY <1>7 DEF VerifyMagic, Tell
<1>8. CASE VerifyPrint(t) BY <1>8 DEF VerifyPrint, Tell
<1> QED BY <1>1, <1>2, <1>3, <1>4, <1>5, <1>6, <1>7, <1>8 DEF SetupStep, Prepare

\* init and verify preserve the invariant.
LEMMA SetupLInv ==
  ASSUME LInv, NEW t \in Threads, SetupStep(t)
  PROVE  LInv'
<1>1. Shape'
  BY SetupAlone DEF LInv, Shape
<1>2. LocalsFit'
  <2>1. \A u \in Threads \ {t} : JobInPlace(u)' /\ FixedBinOnly(u)'
    BY SetupAlone DEF LInv, LocalsFit, JobInPlace, FixedBinOnly, Popping, Pushing
  <2>2. JobInPlace(t)' /\ FixedBinOnly(t)'
    BY SetupAlone DEF LInv, JobInPlace, FixedBinOnly, Popping, Pushing, OffHeap, Initialising
  <2> QED BY <2>1, <2>2 DEF LocalsFit
<1>3. InitAlone' /\ Stamped'
  BY SetupStamped DEF LInv
<1>4. \A u \in Threads : Critical(u)' <=> Critical(u)
  BY SetupAlone DEF LInv, Critical, Popping, Pushing, OffHeap, Initialising
<1>5. LockExcludes'
  <2>1. CASE InitLock(t)
    <3>1. \A u \in Threads : OffHeap(u) \/ Initialising(u)
      BY <2>1 DEF LInv, InitAlone, InitLock, Initialising
    <3>2. \A u \in Threads : ~Critical(u)
      BY <3>1 DEF Critical, Popping, Pushing, OffHeap, Initialising
    <3> QED BY <2>1, <3>2, <1>4 DEF LockExcludes, InitLock
  <2>2. CASE ~InitLock(t)
    <3>1. lock' = lock
      BY <2>2, SetupAlone DEF LInv
    <3>2. booted' = booted
      BY <2>2 DEF SetupStep, Prepare, InitCall, VerifyMagic, InitMagic, InitPrint, InitHead,
                  InitBump, VerifyPrint, setup, client
    <3> QED BY <3>1, <3>2, <1>4 DEF LInv, LockExcludes
  <2> QED BY <2>1, <2>2
<1> QED BY <1>1, <1>2, <1>3, <1>5 DEF LInv

\* Calls leave the metadata words and the verdicts of verify alone.
LEMMA StepSetup ==
  ASSUME NEW t \in Threads, Call(t) \/ Step(t)
  PROVE  UNCHANGED setup
  BY DEF Call, Step, Swap, AllocCall, FreeCall, FreeAgain, ReallocCall, MayCall, Lock, Unlock,
     PushLoad, PushStore, PushRetry, PushCas, PopEmpty, PopLoad, PopNext, PopRetry, PopCas,
     Stamp, Got, RefillFixed, CarveGap, Bump, FitHead, FitSkip, FitTake, RefillOversize,
     OverStamp, SplitCarve, SplitDone, ReallocKeep, ReallocShrink, ReallocGrow, Copy, FreeLoad,
     FreeStamp, OverPush, Return, client

\* Every step of a call preserves the invariant.
LEMMA StepLInv ==
  ASSUME LInv, NEW t \in Threads,
         Call(t) \/ Step(t)
  PROVE  LInv'
<1>1. Alone(t) /\ DOMAIN pc' = Threads /\ DOMAIN r' = Threads /\ booted' = booted
  BY StepAlone DEF LInv
<1>2. /\ "job" \in DOMAIN r'[t] /\ "bin" \in DOMAIN r'[t]
      /\ JobInPlace(t)' /\ FixedBinOnly(t)' /\ LockMove(t)
  BY StepHere DEF LInv, LocalsFit
<1>3. Shape'
  BY <1>1, <1>2, StepHeads DEF LInv, Shape, Alone
<1>4. LocalsFit'
  <2>1. \A u \in Threads \ {t} : JobInPlace(u)' /\ FixedBinOnly(u)'
    BY <1>1 DEF LInv, LocalsFit, Alone, JobInPlace, FixedBinOnly, Popping, Pushing
  <2> QED BY <1>2, <2>1 DEF LocalsFit
<1>5. LockExcludes'
  <2>1. \A u \in Threads \ {t} : Critical(u)' <=> Critical(u)
    BY <1>1 DEF Alone, Critical, Popping, Pushing
  <2> SUFFICES ASSUME booted'
               PROVE  /\ \A u, v \in Threads : Critical(u)' /\ Critical(v)' => u = v
                      /\ lock' = (IF \E u \in Threads : Critical(u)' THEN 1 ELSE 0)
    BY DEF LockExcludes
  <2>2. /\ \A u, v \in Threads : Critical(u) /\ Critical(v) => u = v
        /\ lock = (IF \E u \in Threads : Critical(u) THEN 1 ELSE 0)
    BY <1>1 DEF LInv, LockExcludes
  <2>3. CASE (Critical(t)' <=> Critical(t)) /\ lock' = lock
    BY <2>1, <2>2, <2>3
  <2>4. CASE ~Critical(t) /\ lock = 0 /\ Critical(t)' /\ lock' = 1
    <3>1. \A u \in Threads : ~Critical(u)
      BY <2>2, <2>4
    <3> QED BY <2>1, <2>4, <3>1
  <2>5. CASE Critical(t) /\ ~Critical(t)' /\ lock' = 0
    BY <2>1, <2>2, <2>5
  <2> QED BY <1>2, <2>3, <2>4, <2>5 DEF LockMove
<1>6. (\A u \in Threads : ~Initialising(u)) \/ ~OffHeap(t)
  BY StepOnHeap DEF LInv, LocalsFit, InitAlone
<1>7. InitAlone'
  BY <1>1, <1>6, StepOnHeap DEF LInv, LocalsFit, InitAlone, Alone, Initialising, OffHeap
<1>8. magic' = magic /\ print' = print
  BY StepSetup DEF setup
<1>9. Stamped'
  BY <1>1, <1>8, StepOnHeap DEF LInv, LocalsFit, Stamped, Alone, Initialising
<1> QED BY <1>3, <1>4, <1>5, <1>7, <1>9 DEF LInv

\* The invariant is inductive.
LEMMA NextLInv == LInv /\ [Next]_vars => LInv'
<1> SUFFICES ASSUME LInv, [Next]_vars PROVE LInv'
  OBVIOUS
<1>1. CASE \E t \in Threads : SetupStep(t)
  BY <1>1, SetupLInv
<1>2. CASE \E t \in Threads : Call(t) \/ Step(t)
  BY <1>2, StepLInv
<1>3. CASE UNCHANGED vars
  BY <1>3 DEF LInv, vars, Shape, LocalsFit, JobInPlace, FixedBinOnly, LockExcludes,
              Critical, Popping, Pushing, InitAlone, Stamped, Initialising, OffHeap
<1> QED BY <1>1, <1>2, <1>3 DEF Next, SetupStep

\* The invariant holds in every behaviour.
LEMMA LInvHolds == Spec => []LInv
  BY InitLInv, NextLInv, PTL DEF Spec

\* Once init has run, at most one thread is in a critical section of lock and
\* unlock, and the lock word is 1 exactly while one is.
THEOREM LockIsExclusive == Spec => []LockExcludes
<1>1. LInv => LockExcludes BY DEF LInv
<1> QED BY <1>1, LInvHolds, PTL

-----------------------------------------------------------------------------
(* Who writes the bump pointer and the head of the oversized list.         *)

\* A step that moves the bump pointer or changes the oversized list is critical.
LEMMA GuardedWrite ==
  ASSUME LInv, NEW t \in Threads,
         Call(t) \/ Step(t),
         bump' # bump \/ head'[oversize_bin] # head[oversize_bin]
  PROVE  Critical(t)
<1> USE DEF setup, client, control, memory
<1>1. CASE PushCas(t)
  <2>1. r[t].bin # oversize_bin
    BY <1>1 DEF LInv, LocalsFit, FixedBinOnly, Pushing, PushCas
  <2> QED BY <1>1, <2>1 DEF LInv, Shape, PushCas
<1>2. CASE PopCas(t)
  <2>1. r[t].bin # oversize_bin
    BY <1>2 DEF LInv, LocalsFit, FixedBinOnly, Popping, PopCas
  <2> QED BY <1>2, <2>1 DEF LInv, Shape, PopCas
<1>3. CASE CarveGap(t) BY <1>3 DEF CarveGap, Critical
<1>4. CASE SplitCarve(t) BY <1>4 DEF SplitCarve, Critical
<1>5. CASE FitTake(t) BY <1>5 DEF FitTake, Critical
<1>6. CASE OverPush(t) BY <1>6 DEF OverPush, Critical
<1>7. CASE Bump(t) BY <1>7 DEF Bump, Critical
<1>8. ASSUME ~(\/ PushCas(t) \/ PopCas(t) \/ CarveGap(t) \/ SplitCarve(t)
               \/ FitTake(t) \/ OverPush(t) \/ Bump(t))
      PROVE  head' = head /\ bump' = bump
  BY <1>8 DEF Call, Step, Swap, AllocCall, FreeCall, FreeAgain, ReallocCall, MayCall, Lock, Unlock,
     PushLoad, PushStore, PushRetry, PopEmpty, PopLoad, PopNext, PopRetry, Stamp, Got,
     RefillFixed, FitHead, FitSkip, RefillOversize, OverStamp, SplitDone,
     ReallocKeep, ReallocShrink, ReallocGrow, Copy, FreeLoad, FreeStamp, Return
<1> QED BY <1>1, <1>2, <1>3, <1>4, <1>5, <1>6, <1>7, <1>8

\* Only init, before it is done, touches these words outside a critical section.
LEMMA SetupWords ==
  ASSUME InitAlone, booted, NEW t \in Threads, SetupStep(t)
  PROVE  bump' = bump /\ head' = head
  BY DEF SetupStep, Prepare, InitCall, VerifyMagic, InitMagic, InitPrint, InitHead, InitBump,
     InitLock, VerifyPrint, InitAlone, Initialising, control

\* Once init has run, the bump pointer and the head of the oversized list are
\* changed only by the one thread that is in the critical section.
THEOREM LockGuardsTheWords == Spec => OnlyUnderLock
<1> DEFINE Guarded ==
      booted /\ (bump' # bump \/ head'[oversize_bin] # head[oversize_bin]) =>
        /\ lock = 1
        /\ \E t \in Threads : /\ Critical(t)
                               /\ \A u \in Threads \ {t} : pc'[u] = pc[u] /\ r'[u] = r[u]
<1>1. LInv /\ [Next]_vars => [Guarded]_vars
  <2> SUFFICES ASSUME LInv, [Next]_vars, booted,
                      bump' # bump \/ head'[oversize_bin] # head[oversize_bin]
               PROVE  /\ lock = 1
                      /\ \E t \in Threads : Critical(t) /\ Alone(t)
    BY DEF Alone
  <2>1. PICK t \in Threads : Call(t) \/ Step(t)
    <3>1. \A t \in Threads : ~SetupStep(t)
      BY SetupWords DEF LInv
    <3> QED BY <3>1 DEF Next, SetupStep, vars
  <2>2. Critical(t)
    BY <2>1, GuardedWrite
  <2>3. Alone(t)
    BY <2>1, StepAlone DEF LInv
  <2>4. lock = 1
    BY <2>2 DEF LInv, LockExcludes
  <2> QED BY <2>2, <2>3, <2>4
<1> QED BY <1>1, LInvHolds, PTL DEF Spec, OnlyUnderLock

-----------------------------------------------------------------------------
\* verify accepts only a heap that carries the marker and this configuration's
\* fingerprint, and once init has returned every verify accepts.
THEOREM VerifyTellsTheStamp == Spec => VerifyIsRight
<1> DEFINE Right == \A t \in Threads : told'[t] # told[t] =>
                      /\ told'[t] = Ok => magic = MAGIC /\ print = Mine
                      /\ booted => told'[t] = Ok
<1>1. LInv /\ [Next]_vars => [Right]_vars
  <2> SUFFICES ASSUME LInv, [Next]_vars, ~UNCHANGED vars, NEW u \in Threads, told'[u] # told[u]
               PROVE  /\ told'[u] = Ok => magic = MAGIC /\ print = Mine
                      /\ booted => told'[u] = Ok
    OBVIOUS
  <2>1. PICK t \in Threads : VerifyMagic(t) \/ VerifyPrint(t)
    <3>1. PICK t \in Threads : SetupStep(t) \/ Call(t) \/ Step(t)
      BY DEF Next, SetupStep
    <3>2. SetupStep(t)
      BY <3>1, StepSetup DEF setup
    <3> QED BY <3>2 DEF SetupStep, Prepare, InitCall, InitMagic, InitPrint, InitHead, InitBump,
                        InitLock, setup, client
  <2>2. CASE VerifyMagic(t)
    <3>1. magic # MAGIC /\ told' = [told EXCEPT ![t] = BadMagic]
      BY <2>2 DEF VerifyMagic, Tell
    <3>2. told'[u] = BadMagic
      BY <3>1
    <3>3. ~booted
      BY <3>1 DEF LInv, Stamped
    <3> QED BY <3>2, <3>3 DEF Ok, BadMagic
  <2>3. CASE VerifyPrint(t)
    BY <2>3 DEF VerifyPrint, Tell, LInv, Stamped, Ok, ConfigMismatch
  <2> QED BY <2>1, <2>2, <2>3
<1> QED BY <1>1, LInvHolds, PTL DEF Spec, VerifyIsRight

-----------------------------------------------------------------------------
(* The operators of SizeClasses, for the Config of the constants.           *)

\* The constants as a record, to which the facts of SizeFacts apply.
Cfg == [MIN_ALIGN |-> MIN_ALIGN, LNR_FLOOR |-> LNR_FLOOR, EXP_FLOOR |-> EXP_FLOOR,
        EXP_CEIL |-> EXP_CEIL, SPLIT_MIN |-> SPLIT_MIN, CARVE_MAX |-> CARVE_MAX]

(* Its fields.                                                              *)
LEMMA CfgFields ==
  /\ Cfg.MIN_ALIGN = MIN_ALIGN /\ Cfg.LNR_FLOOR = LNR_FLOOR /\ Cfg.EXP_FLOOR = EXP_FLOOR
  /\ Cfg.EXP_CEIL = EXP_CEIL /\ Cfg.SPLIT_MIN = SPLIT_MIN /\ Cfg.CARVE_MAX = CARVE_MAX
  BY DEF Cfg

\* The operators of SizeClasses are those of the record.
LEMMA Linked ==
  /\ SC(Cfg)!ValidConfig = ValidConfig
  /\ SC(Cfg)!oversize_bin = oversize_bin
  /\ SC(Cfg)!FixedBins = FixedBins
  /\ SC(Cfg)!NothingFits = NothingFits
  /\ \A k : SC(Cfg)!bin_class(k) = bin_class(k) /\ SC(Cfg)!align_of_bin(k) = align_of_bin(k)
  /\ \A x : /\ SC(Cfg)!bin_index(x) = bin_index(x) /\ SC(Cfg)!floor_bin(x) = floor_bin(x)
            /\ SC(Cfg)!is_block_exact(x) = is_block_exact(x)
            /\ SC(Cfg)!NeedOf(x) = NeedOf(x)
            /\ SC(Cfg)!request_block_size(x) = request_block_size(x)
  /\ \A x, y : SC(Cfg)!largest_carvable(x, y) = largest_carvable(x, y)
<1> USE CfgFields
<1>1. /\ \A x : SC(Cfg)!ilog2(x) = ilog2(x)
      /\ \A x : SC(Cfg)!LowBit(x) = LowBit(x)
      /\ \A x, y : SC(Cfg)!align_up(x, y) = align_up(x, y)
      /\ \A x : SC(Cfg)!Wrap(x) = Wrap(x)
      /\ \A x : SC(Cfg)!IsPow2(x) = IsPow2(x)
      /\ \A x, y : SC(Cfg)!Larger(x, y) = Larger(x, y)
      /\ SC(Cfg)!WORD = WORD
  BY DEF SC!ilog2, ilog2, SC!LowBit, LowBit, SC!align_up, align_up, SC!Wrap, Wrap, SC!WORD, WORD,
         SC!IsPow2, IsPow2, SC!Larger, Larger
<1>2. SC(Cfg)!ValidConfig = ValidConfig
  BY <1>1 DEF SC!ValidConfig, ValidConfig
<1>3. SC(Cfg)!NUM_LINEAR = NUM_LINEAR /\ SC(Cfg)!NUM_BINS = NUM_BINS
  BY <1>1 DEF SC!NUM_LINEAR, NUM_LINEAR, SC!NUM_BINS, NUM_BINS, SC!NUM_EXP, NUM_EXP
<1>4. SC(Cfg)!oversize_bin = oversize_bin
  BY <1>3 DEF SC!oversize_bin, oversize_bin
<1>5. SC(Cfg)!FixedBins = FixedBins
  BY <1>4 DEF SC!FixedBins, FixedBins
<1>6. \A k : SC(Cfg)!OctaveBase(k) = OctaveBase(k)
  BY <1>1, <1>3 DEF SC!OctaveBase, OctaveBase
<1>7. \A k : SC(Cfg)!bin_class(k) = bin_class(k)
  BY <1>1, <1>3, <1>4, <1>6 DEF SC!bin_class, bin_class
<1>8. \A k : SC(Cfg)!align_of_bin(k) = align_of_bin(k)
  BY <1>1, <1>3, <1>4, <1>6 DEF SC!align_of_bin, align_of_bin
<1>9. \A x : SC(Cfg)!ExpIndex(x) = ExpIndex(x)
  BY <1>1, <1>3 DEF SC!ExpIndex, ExpIndex
<1>10. \A x : SC(Cfg)!bin_index(x) = bin_index(x)
  BY <1>4, <1>9 DEF SC!bin_index, bin_index
<1>11. \A x : SC(Cfg)!floor_bin(x) = floor_bin(x)
  BY <1>7, <1>10 DEF SC!floor_bin, floor_bin
<1>12. \A x : SC(Cfg)!is_block_exact(x) = is_block_exact(x)
  BY <1>7, <1>10 DEF SC!is_block_exact, is_block_exact
<1>13. \A x : SC(Cfg)!NeedOf(x) = NeedOf(x)
  BY <1>1 DEF SC!NeedOf, NeedOf
<1>14. \A x : SC(Cfg)!request_block_size(x) = request_block_size(x)
  BY <1>4, <1>7, <1>10, <1>13 DEF SC!request_block_size, request_block_size
<1>15. SC(Cfg)!NothingFits = NothingFits
  BY DEF SC!NothingFits, NothingFits
<1>16. \A x, y : SC(Cfg)!LargestFixed(x, y) = LargestFixed(x, y)
  BY <1>1, <1>7, <1>11, <1>15 DEF SC!LargestFixed, LargestFixed
<1>17. \A x, y : SC(Cfg)!largest_carvable(x, y) = largest_carvable(x, y)
  BY <1>1, <1>4, <1>15, <1>16 DEF SC!largest_carvable, largest_carvable
<1> QED
  BY <1>2, <1>4, <1>5, <1>7, <1>8, <1>10, <1>11, <1>12, <1>13, <1>14, <1>15, <1>17

-----------------------------------------------------------------------------
\* The constants, and what divides what.
LEMMA GeoConstants ==
  ASSUME ValidConfig
  PROVE  /\ WORD \in Nat
         /\ MIN_ALIGN \in Nat \ {0} /\ MIN_ALIGN >= 16 /\ MIN_ALIGN % 16 = 0
         /\ LNR_FLOOR \in Nat \ {0} /\ EXP_CEIL \in Nat \ {0}
         /\ 2 * MIN_ALIGN <= LNR_FLOOR /\ LNR_FLOOR <= EXP_CEIL /\ 2 * EXP_CEIL <= WORD
         /\ EXP_CEIL % MIN_ALIGN = 0
         /\ oversize_bin \in Nat \ {0}
         /\ FixedBins = 0 .. oversize_bin - 1 /\ Bins = 0 .. oversize_bin
<1>1. SC(Cfg)!ValidConfig
  BY Linked
<1>2. /\ WORD \in Nat
      /\ MIN_ALIGN \in Nat \ {0} /\ LNR_FLOOR \in Nat \ {0} /\ EXP_CEIL \in Nat \ {0}
      /\ 2 * MIN_ALIGN <= LNR_FLOOR /\ LNR_FLOOR <= EXP_CEIL /\ 2 * EXP_CEIL <= WORD
      /\ EXP_CEIL % MIN_ALIGN = 0
  <2>1. LNR_FLOOR <= EXP_FLOOR /\ EXP_FLOOR <= EXP_CEIL /\ EXP_FLOOR \in Nat
    BY <1>1, Constants, CfgFields
  <2> QED BY <1>1, <2>1, Constants, CfgFields
<1>3. oversize_bin \in Nat \ {0}
  BY <1>1, FixedBinsFacts, Linked
<1>4. MIN_ALIGN >= 16 /\ MIN_ALIGN % 16 = 0
  <2>1. PICK k \in 0 .. WORD_BITS - 1 : MIN_ALIGN = 2 ^ k
    BY DEF ValidConfig, IsPow2
  <2>2. MIN_ALIGN > 8
    BY DEF ValidConfig
  <2>3. WORD_BITS \in Nat
    BY WordsAssumption
  <2>4. 2 ^ 0 = 1 /\ 2 ^ 1 = 2 /\ 2 ^ 2 = 4 /\ 2 ^ 3 = 8
    OBVIOUS
  <2>5. /\ (k = 0 => MIN_ALIGN = 1) /\ (k = 1 => MIN_ALIGN = 2)
        /\ (k = 2 => MIN_ALIGN = 4) /\ (k = 3 => MIN_ALIGN = 8)
    BY <2>1, <2>4, Zenon
  <2>11. k > 3
    BY <2>2, <2>3, <2>5
  <2>12. 2 ^ 4 = 16
    OBVIOUS
  <2> DEFINE d == k - 4
  <2>13. d \in Nat /\ d + 4 = k /\ 4 \in Nat /\ 4 + d <= WORD_BITS /\ d \in 0 .. WORD_BITS
    BY <2>1, <2>3, <2>11
  <2>14. 2 ^ (4 + d) = 2 ^ 4 * 2 ^ d /\ 2 ^ d \in Nat \ {0}
    BY <2>13, PowSum, Pow
  <2>15. PICK p \in Nat \ {0} : p = 2 ^ d
    BY <2>14
  <2>16. MIN_ALIGN = 16 * p
    BY <2>1, <2>12, <2>13, <2>14, <2>15
  <2> QED BY <2>15, <2>16
<1> QED BY <1>2, <1>3, <1>4 DEF FixedBins, Bins

\* The class and the alignment of a fixed bin.
LEMMA GeoClass ==
  ASSUME ValidConfig, NEW k \in FixedBins
  PROVE  /\ bin_class(k) \in Nat /\ bin_class(k) >= LNR_FLOOR /\ bin_class(k) <= EXP_CEIL
         /\ bin_class(k) % MIN_ALIGN = 0
         /\ bin_index(bin_class(k)) = k /\ is_block_exact(bin_class(k))
<1>1. SC(Cfg)!ValidConfig /\ k \in SC(Cfg)!FixedBins
  BY Linked
<1>2. /\ SC(Cfg)!bin_class(k) \in Nat /\ SC(Cfg)!bin_class(k) >= LNR_FLOOR
      /\ SC(Cfg)!bin_class(k) <= EXP_CEIL /\ SC(Cfg)!bin_class(k) % MIN_ALIGN = 0
  BY <1>1, ClassFacts, CfgFields, Constants
<1>3. SC(Cfg)!bin_index(SC(Cfg)!bin_class(k)) = k
  BY <1>1, BinOfClass
<1>4. SC(Cfg)!is_block_exact(SC(Cfg)!bin_class(k))
  BY <1>1, <1>2, BlockExact
<1> QED BY <1>2, <1>3, <1>4, Linked

\* The bin of a size.
LEMMA GeoBin ==
  ASSUME ValidConfig, NEW x \in Nat
  PROVE  /\ bin_index(x) \in Bins
         /\ bin_index(x) = oversize_bin <=> x > EXP_CEIL
         /\ x <= EXP_CEIL => bin_index(x) \in FixedBins /\ x <= bin_class(bin_index(x))
         /\ \A y \in Nat : x <= y => bin_index(x) <= bin_index(y)
<1>1. SC(Cfg)!ValidConfig
  BY Linked
<1>2. \A y \in Nat :
        /\ y > EXP_CEIL => bin_index(y) = oversize_bin
        /\ y <= EXP_CEIL => /\ bin_index(y) \in FixedBins /\ y <= bin_class(bin_index(y))
                            /\ \A j \in FixedBins : j < bin_index(y) => bin_class(j) < y
  BY <1>1, BinIndex, Linked, CfgFields
<1>3. EXP_CEIL \in Nat /\ oversize_bin \in Nat \ {0} /\ FixedBins = 0 .. oversize_bin - 1
      /\ Bins = 0 .. oversize_bin
  BY GeoConstants
<1>4. \A j \in FixedBins : bin_class(j) \in Nat
  BY GeoClass
<1>5. ASSUME NEW y \in Nat, x <= y PROVE bin_index(x) <= bin_index(y)
  <2>1. CASE y > EXP_CEIL
    BY <1>2, <1>3, <2>1
  <2>2. CASE y <= EXP_CEIL
    <3>1. x <= EXP_CEIL
      BY <1>3, <1>5, <2>2
    <3>2. /\ bin_index(x) \in FixedBins /\ bin_index(y) \in FixedBins
          /\ y <= bin_class(bin_index(y))
          /\ bin_index(y) < bin_index(x) => bin_class(bin_index(y)) < x
      BY <1>2, <2>2, <3>1
    <3> QED BY <1>3, <1>4, <1>5, <3>2
  <2> QED BY <2>1, <2>2, <1>3
<1>6. bin_index(x) = oversize_bin <=> x > EXP_CEIL
  BY <1>2, <1>3
<1> QED BY <1>2, <1>3, <1>5, <1>6

\* Alignments of bins nest.
LEMMA GeoAlign ==
  ASSUME ValidConfig, NEW k \in Bins
  PROVE  /\ align_of_bin(k) \in Nat \ {0} /\ align_of_bin(k) <= EXP_CEIL
         /\ align_of_bin(k) % MIN_ALIGN = 0
         /\ k \in FixedBins => bin_class(k) % align_of_bin(k) = 0
         /\ k = oversize_bin => align_of_bin(k) = EXP_CEIL
         /\ \A j \in Bins : j <= k => align_of_bin(k) % align_of_bin(j) = 0
<1>1. SC(Cfg)!ValidConfig
  BY Linked
<1>2. /\ EXP_CEIL \in Nat \ {0} /\ oversize_bin \in Nat \ {0} /\ FixedBins = 0 .. oversize_bin - 1
      /\ Bins = 0 .. oversize_bin /\ EXP_CEIL % MIN_ALIGN = 0
  BY GeoConstants
<1>3. align_of_bin(oversize_bin) = EXP_CEIL
  <2>1. SC(Cfg)!oversize_bin \in Nat \ {0} /\ SC(Cfg)!NUM_LINEAR \in Nat
        /\ SC(Cfg)!NUM_LINEAR <= SC(Cfg)!oversize_bin
    <3>1. PICK a, l, f, e \in 0 .. WORD_BITS - 1 : Logs(Cfg, a, l, f, e)
      BY <1>1, ValidLogs
    <3>2. f <= e /\ WORD_BITS \in Nat
      BY <3>1, WordsAssumption DEF Logs
    <3>3. SC(Cfg)!NUM_LINEAR \in Nat
          /\ SC(Cfg)!oversize_bin = SC(Cfg)!NUM_LINEAR + 2 * (e - f) + 1
      BY <1>1, <3>1, BinCounts
    <3> QED BY <3>2, <3>3
  <2>2. SC(Cfg)!align_of_bin(SC(Cfg)!oversize_bin) = EXP_CEIL
    BY <2>1, CfgFields DEF SC!align_of_bin
  <2> QED BY <2>2, Linked
<1>4. \A j \in FixedBins :
        /\ align_of_bin(j) \in Nat \ {0} /\ align_of_bin(j) % MIN_ALIGN = 0
        /\ 2 * align_of_bin(j) <= bin_class(j)
        /\ bin_class(j) <= EXP_CEIL /\ bin_class(j) \in Nat
        /\ bin_class(j) % align_of_bin(j) = 0 /\ EXP_CEIL % align_of_bin(j) = 0
  BY <1>1, ClassFacts, Linked, CfgFields
<1>5. \A i, j \in FixedBins : i < j => align_of_bin(j) % align_of_bin(i) = 0
  BY <1>1, ClassOrder, Linked
<1>6. \A m \in Nat \ {0} : m % m = 0
  OBVIOUS
<1>7. CASE k = oversize_bin
  <2>1. k \notin FixedBins /\ \A j \in Bins : j = oversize_bin \/ j \in FixedBins
    BY <1>2, <1>7
  <2>2. \A j \in Bins : EXP_CEIL % align_of_bin(j) = 0
    BY <1>2, <1>3, <1>4, <1>6, <2>1
  <2> QED BY <1>2, <1>3, <1>7, <2>1, <2>2, SMTT(30)
<1>8. CASE k \in FixedBins
  <2>1. \A j \in Bins : j <= k => j \in FixedBins /\ (j < k \/ j = k)
    BY <1>2, <1>8
  <2>2. align_of_bin(k) \in Nat \ {0} /\ align_of_bin(k) <= EXP_CEIL
        /\ align_of_bin(k) % MIN_ALIGN = 0 /\ bin_class(k) % align_of_bin(k) = 0
        /\ k # oversize_bin
    BY <1>2, <1>4, <1>8
  <2>3. ASSUME NEW j \in Bins, j <= k PROVE align_of_bin(k) % align_of_bin(j) = 0
    <3>1. CASE j < k
      BY <1>5, <1>8, <2>1, <2>3, <3>1
    <3>2. CASE j = k
      BY <1>6, <2>2, <3>2
    <3> QED BY <2>1, <2>3, <3>1, <3>2
  <2> QED BY <2>2, <2>3
<1> QED BY <1>2, <1>7, <1>8

\* What a valid size is, and where.
LEMMA ValidFacts ==
  ASSUME ValidConfig, NEW b \in Int, NEW s, Valid(b, s)
  PROVE  /\ s \in Nat /\ s % MIN_ALIGN = 0 /\ s % 16 = 0 /\ s >= 2 * MIN_ALIGN /\ s >= LNR_FLOOR
         /\ bin_index(s) \in Bins
         /\ bin_index(s) = oversize_bin <=> s > EXP_CEIL
         /\ bin_index(s) # oversize_bin => bin_index(s) \in FixedBins /\ s = bin_class(bin_index(s))
         /\ b % MIN_ALIGN = 0 /\ b % align_of_bin(bin_index(s)) = 0
<1>1. /\ MIN_ALIGN \in Nat \ {0} /\ MIN_ALIGN % 16 = 0 /\ LNR_FLOOR \in Nat
      /\ 2 * MIN_ALIGN <= LNR_FLOOR /\ EXP_CEIL \in Nat
  BY GeoConstants
<1>2. s \in Nat /\ s % MIN_ALIGN = 0 /\ s >= LNR_FLOOR
      /\ b % align_of_bin(bin_index(s)) = 0 /\ is_block_exact(s)
  BY DEF Valid
<1>3. s % 16 = 0
  <2>1. s \in Int /\ 16 \in Nat \ {0}
    BY <1>2
  <2> QED BY <1>1, <1>2, <2>1, ModTrans
<1>4. /\ bin_index(s) \in Bins /\ (bin_index(s) = oversize_bin <=> s > EXP_CEIL)
      /\ s <= EXP_CEIL => bin_index(s) \in FixedBins
  BY <1>2, GeoBin
<1>5. s <= EXP_CEIL => s = bin_class(bin_index(s))
  BY <1>1, <1>2 DEF is_block_exact
<1>6. b % MIN_ALIGN = 0
  <2>1. align_of_bin(bin_index(s)) \in Nat \ {0} /\ align_of_bin(bin_index(s)) % MIN_ALIGN = 0
    BY <1>4, GeoAlign
  <2> QED BY <1>1, <1>2, <2>1, ModTrans
<1> QED BY <1>1, <1>2, <1>3, <1>4, <1>5, <1>6

\* A block stays aligned when it gets smaller.
LEMMA AlignSmaller ==
  ASSUME ValidConfig, NEW b \in Int, NEW s \in Nat, NEW u \in Nat, s <= u,
         b % align_of_bin(bin_index(u)) = 0
  PROVE  b % align_of_bin(bin_index(s)) = 0
<1>1. bin_index(s) \in Bins /\ bin_index(u) \in Bins /\ bin_index(s) <= bin_index(u)
  BY GeoBin
<1>2. /\ align_of_bin(bin_index(s)) \in Nat \ {0} /\ align_of_bin(bin_index(u)) \in Nat \ {0}
      /\ align_of_bin(bin_index(u)) % align_of_bin(bin_index(s)) = 0
  BY <1>1, GeoAlign
<1> QED BY <1>2, ModTrans

\* A class, and a size above all classes, where they are aligned.
LEMMA ClassValid ==
  ASSUME ValidConfig, NEW b \in Int, NEW k \in FixedBins, b % align_of_bin(k) = 0
  PROVE  Valid(b, bin_class(k)) /\ bin_index(bin_class(k)) = k
  BY GeoClass DEF Valid

(* A size above EXP_CEIL is valid at a multiple of EXP_CEIL.                *)
LEMMA OverValid ==
  ASSUME ValidConfig, NEW b \in Int, NEW s \in Nat, s > EXP_CEIL, s % MIN_ALIGN = 0,
         b % EXP_CEIL = 0
  PROVE  Valid(b, s) /\ bin_index(s) = oversize_bin
<1>1. bin_index(s) = oversize_bin /\ align_of_bin(oversize_bin) = EXP_CEIL
  BY GeoBin, GeoAlign, GeoConstants
<1>2. LNR_FLOOR <= EXP_CEIL /\ LNR_FLOOR \in Nat /\ EXP_CEIL \in Nat
  BY GeoConstants
<1> QED BY <1>1, <1>2 DEF Valid, is_block_exact

\* What a request asks for.
LEMMA RequestFacts ==
  ASSUME ValidConfig, NEW x \in Nat, x + 2 * MIN_ALIGN <= WORD
  PROVE  /\ RequestBin(x) \in Bins
         /\ request_block_size(x) \in Nat /\ request_block_size(x) % MIN_ALIGN = 0
         /\ request_block_size(x) >= x + MIN_ALIGN /\ request_block_size(x) >= LNR_FLOOR
         /\ is_block_exact(request_block_size(x))
         /\ bin_index(request_block_size(x)) = RequestBin(x)
         /\ IF RequestBin(x) = oversize_bin
            THEN /\ request_block_size(x) > EXP_CEIL
                 /\ request_block_size(x) < x + 2 * MIN_ALIGN
            ELSE /\ RequestBin(x) \in FixedBins /\ request_block_size(x) = bin_class(RequestBin(x))
                 /\ request_block_size(x) <= EXP_CEIL
         /\ \A b \in Int : b % align_of_bin(RequestBin(x)) = 0 => Valid(b, request_block_size(x))
<1> DEFINE T == request_block_size(x)
           k == RequestBin(x)
<1>1. SC(Cfg)!ValidConfig
  BY Linked
<1>2. /\ NeedOf(x) \in Nat /\ NeedOf(x) % MIN_ALIGN = 0
      /\ x + MIN_ALIGN <= NeedOf(x) /\ NeedOf(x) < x + 2 * MIN_ALIGN
  <2>1. x + 2 * Cfg.MIN_ALIGN <= WORD
    BY CfgFields
  <2> QED BY <1>1, <2>1, Need, Linked, CfgFields
<1>3. /\ MIN_ALIGN \in Nat \ {0} /\ LNR_FLOOR \in Nat /\ EXP_CEIL \in Nat /\ LNR_FLOOR <= EXP_CEIL
  BY GeoConstants
<1>4. /\ k \in Bins /\ (k = oversize_bin <=> NeedOf(x) > EXP_CEIL)
      /\ NeedOf(x) <= EXP_CEIL => k \in FixedBins /\ NeedOf(x) <= bin_class(k)
  BY <1>2, GeoBin DEF RequestBin
<1>5. T = IF k = oversize_bin THEN NeedOf(x) ELSE bin_class(k)
  BY DEF request_block_size, RequestBin
<1> HIDE DEF T, k
<1>6. CASE k = oversize_bin
  <2>1. T = NeedOf(x) /\ T > EXP_CEIL
    BY <1>2, <1>4, <1>5, <1>6
  <2>2. bin_index(T) = k
    BY <2>1 DEF k, RequestBin
  <2>3. is_block_exact(T)
    BY <2>1 DEF is_block_exact
  <2>4. /\ T \in Nat /\ T % MIN_ALIGN = 0 /\ T >= x + MIN_ALIGN /\ T >= LNR_FLOOR
        /\ T < x + 2 * MIN_ALIGN
    BY <1>2, <1>3, <2>1
  <2> QED BY <1>4, <1>6, <2>1, <2>2, <2>3, <2>4 DEF T, k, Valid
<1>7. CASE k # oversize_bin
  <2>1. k \in FixedBins /\ T = bin_class(k) /\ NeedOf(x) <= T
    BY <1>2, <1>3, <1>4, <1>5, <1>7
  <2>2. /\ T \in Nat /\ T % MIN_ALIGN = 0 /\ T >= LNR_FLOOR /\ T <= EXP_CEIL
        /\ bin_index(T) = k /\ is_block_exact(T)
    BY <2>1, GeoClass
  <2>3. T >= x + MIN_ALIGN
    BY <1>2, <1>3, <2>1, <2>2
  <2> QED BY <1>4, <1>7, <2>1, <2>2, <2>3 DEF T, k, Valid
<1> QED BY <1>6, <1>7

\* A piece cut off the top of a region is a valid block there.
LEMMA CarveFacts ==
  ASSUME ValidConfig, NEW end \in Nat, NEW len \in Nat, len <= end, end > 0, end < WORD,
         end % MIN_ALIGN = 0, (end - len) + EXP_CEIL <= WORD,
         largest_carvable(end, len).size # 0
  PROVE  LET piece == largest_carvable(end, len)
         IN /\ piece.size \in Nat /\ piece.size <= len /\ piece.bin \in Bins
            /\ Valid(end - piece.size, piece.size) /\ bin_index(piece.size) = piece.bin
<1> DEFINE piece == largest_carvable(end, len)
<1>1. SC(Cfg)!ValidConfig
  BY Linked
<1>2. /\ MIN_ALIGN \in Nat \ {0} /\ EXP_CEIL \in Nat \ {0} /\ WORD \in Nat
      /\ FixedBins = 0 .. oversize_bin - 1 /\ Bins = 0 .. oversize_bin /\ oversize_bin \in Nat
  BY GeoConstants
<1>3. \/ piece = NothingFits
      \/ \E b \in FixedBins : piece = [size |-> bin_class(b), bin |-> b] /\ Fits(Cfg, b, end, len)
      \/ \E s \in Nat : /\ piece = [size |-> s, bin |-> oversize_bin]
                        /\ OverFits(Cfg, s, end, len) /\ s % MIN_ALIGN = 0
  <2>1. /\ end \in 1 .. WORD - 1 /\ len \in 0 .. end /\ end % Cfg.MIN_ALIGN = 0
        /\ (end - len) + Cfg.EXP_CEIL <= WORD
    BY <1>2, CfgFields
  <2>2. SC(Cfg)!largest_carvable(end, len) = piece
    BY Linked
  <2> HIDE DEF piece
  <2> QED BY <1>1, <2>1, <2>2, LargestCarvable, Linked, CfgFields
<1>4. CASE piece = NothingFits
  BY <1>4 DEF NothingFits
<1>5. ASSUME NEW b \in FixedBins, piece = [size |-> bin_class(b), bin |-> b],
             Fits(Cfg, b, end, len)
      PROVE  /\ piece.size \in Nat /\ piece.size <= len /\ piece.bin \in Bins
             /\ Valid(end - piece.size, piece.size) /\ bin_index(piece.size) = piece.bin
  <2>1. bin_class(b) <= len /\ (end - bin_class(b)) % align_of_bin(b) = 0
    BY <1>5, Linked DEF Fits
  <2>2. bin_class(b) \in Nat /\ b \in Bins
    BY <1>2, GeoClass
  <2>3. end - bin_class(b) \in Int
    BY <2>2
  <2>4. Valid(end - bin_class(b), bin_class(b)) /\ bin_index(bin_class(b)) = b
    BY <2>1, <2>3, ClassValid
  <2> QED BY <1>5, <2>1, <2>2, <2>4
<1>6. ASSUME NEW s \in Nat, piece = [size |-> s, bin |-> oversize_bin],
             OverFits(Cfg, s, end, len), s % MIN_ALIGN = 0
      PROVE  /\ piece.size \in Nat /\ piece.size <= len /\ piece.bin \in Bins
             /\ Valid(end - piece.size, piece.size) /\ bin_index(piece.size) = piece.bin
  <2>1. s > EXP_CEIL /\ s <= len /\ (end - s) % EXP_CEIL = 0
    BY <1>6, CfgFields DEF OverFits
  <2>2. end - s \in Int
    OBVIOUS
  <2>3. Valid(end - s, s) /\ bin_index(s) = oversize_bin
    BY <1>6, <2>1, <2>2, OverValid
  <2>4. oversize_bin \in Bins
    BY <1>2
  <2> QED BY <1>6, <2>1, <2>3, <2>4
<1> QED BY <1>3, <1>4, <1>5, <1>6

\* What a split leaves is a valid block, large enough.
LEMMA RetainedValid ==
  ASSUME ValidConfig, NEW b \in Int, NEW size \in Nat, NEW need \in Nat, NEW iter \in Nat,
         size % MIN_ALIGN = 0, need <= size, need >= LNR_FLOOR, is_block_exact(need),
         b % align_of_bin(bin_index(size)) = 0, iter = 0 => Valid(b, size)
  PROVE  LET s == retained_size(size, need, iter)
         IN Valid(b, s) /\ need <= s /\ s <= size
<1> DEFINE s == retained_size(size, need, iter)
           k == floor_bin(size)
<1>1. /\ LNR_FLOOR \in Nat \ {0} /\ EXP_CEIL \in Nat \ {0}
      /\ FixedBins = 0 .. oversize_bin - 1 /\ Bins = 0 .. oversize_bin /\ oversize_bin \in Nat
  BY GeoConstants
<1>2. CASE s = size /\ (iter = 0 \/ is_block_exact(size))
  <2>1. size >= LNR_FLOOR
    BY <1>1
  <2> QED BY <1>2, <2>1 DEF Valid
<1>3. CASE s = bin_class(k) /\ ~is_block_exact(size)
  <2>1. size <= EXP_CEIL /\ size >= LNR_FLOOR
    BY <1>1, <1>3 DEF is_block_exact
  <2>2. /\ k \in FixedBins /\ bin_class(k) <= size
        /\ \A j \in FixedBins : bin_class(j) <= size => j <= k
    <3>1. SC(Cfg)!ValidConfig /\ Cfg.LNR_FLOOR <= size /\ size <= Cfg.EXP_CEIL
      BY <2>1, Linked, CfgFields
    <3> QED BY <3>1, FloorBin, Linked
  <2>3. /\ bin_class(k) \in Nat /\ bin_index(bin_class(k)) = k
    BY <2>2, GeoClass
  <2> DEFINE j == bin_index(need)
  <2>4. need <= EXP_CEIL /\ j \in FixedBins /\ bin_class(j) = need
    <3>1. need <= EXP_CEIL
      BY <1>1, <2>1
    <3>2. j \in FixedBins
      BY <3>1, GeoBin
    <3> QED BY <1>1, <3>1, <3>2 DEF is_block_exact
  <2>5. j <= k
    BY <2>2, <2>4
  <2>6. need <= bin_class(k)
    <3>1. need <= EXP_CEIL /\ bin_class(k) <= EXP_CEIL /\ bin_class(j) = need
      BY <2>2, <2>4, GeoClass
    <3>2. j = k \/ j < k
      BY <1>1, <2>2, <2>4, <2>5
    <3>3. j < k => bin_class(j) < bin_class(k)
      <4>1. SC(Cfg)!ValidConfig /\ j \in SC(Cfg)!FixedBins /\ k \in SC(Cfg)!FixedBins
        BY <2>2, <2>4, Linked
      <4>2. j < k => SC(Cfg)!bin_class(j) < SC(Cfg)!bin_class(k)
        BY <4>1, ClassOrder
      <4> QED BY <4>2, Linked
    <3> QED BY <2>3, <3>1, <3>2, <3>3
  <2>7. b % align_of_bin(bin_index(bin_class(k))) = 0
    BY <2>2, <2>3, AlignSmaller
  <2>8. Valid(b, bin_class(k))
    BY <2>2, <2>3, <2>7, ClassValid
  <2> QED BY <1>3, <2>2, <2>6, <2>8
<1>4. (s = size /\ (iter = 0 \/ is_block_exact(size))) \/ (s = bin_class(k) /\ ~is_block_exact(size))
  BY DEF retained_size
<1> QED BY <1>2, <1>3, <1>4

-----------------------------------------------------------------------------
(* Granules and words.                                                      *)

-----------------------------------------------------------------------------
(* The heap and its granules.                                              *)

\* Where the heap begins and ends.
LEMMA HeapBounds ==
  /\ WORD \in Nat /\ MIN_ALIGN \in Nat \ {0} /\ MIN_ALIGN >= 16 /\ MIN_ALIGN % 16 = 0
  /\ HeapStart \in Nat \ {0} /\ HeapStart % MIN_ALIGN = 0
  /\ heap_end \in Nat /\ heap_end % MIN_ALIGN = 0
  /\ HeapStart <= heap_end /\ heap_end < WORD
  /\ \A a : a \in Granules <=> /\ a \in Int /\ 0 <= a /\ a <= heap_end - MIN_ALIGN
                               /\ a % MIN_ALIGN = 0
<1>1. /\ WORD \in Nat /\ MIN_ALIGN \in Nat \ {0} /\ MIN_ALIGN >= 16 /\ MIN_ALIGN % 16 = 0
  BY CadAssumption, GeoConstants
<1>2. HEAP_BASE \in Nat /\ HEAP_SIZE \in Nat
      /\ HEAP_BASE % MIN_ALIGN = 0 /\ HEAP_SIZE % MIN_ALIGN = 0 /\ HEAP_SIZE >= control_bytes
      /\ heap_end < WORD
  BY CadAssumption
<1>3. control_bytes \in Nat \ {0} /\ control_bytes % MIN_ALIGN = 0
  <2> DEFINE x == META_BYTES + (NUM_BINS + 2) * 8
  <2>1. x \in Nat /\ x > 0 /\ x + MIN_ALIGN <= WORD
    BY CadAssumption DEF META_BYTES
  <2> HIDE DEF x
  <2>2. align_up(x, MIN_ALIGN) \in Nat /\ align_up(x, MIN_ALIGN) % MIN_ALIGN = 0
        /\ x <= align_up(x, MIN_ALIGN)
    BY <1>1, <2>1, AlignUp
  <2>3. control_bytes = align_up(x, MIN_ALIGN)
    BY DEF control_bytes, x
  <2> QED BY <2>1, <2>2, <2>3
<1>4. heap_end % MIN_ALIGN = 0 /\ HeapStart % MIN_ALIGN = 0
  <2>1. HEAP_BASE \in Int /\ HEAP_SIZE \in Int /\ control_bytes \in Int
    BY <1>2, <1>3
  <2>2. (HEAP_BASE + HEAP_SIZE) % MIN_ALIGN = 0
    BY <1>1, <1>2, <2>1, ModSum
  <2>3. (HEAP_BASE + control_bytes) % MIN_ALIGN = 0
    BY <1>1, <1>2, <1>3, <2>1, ModSum
  <2> QED BY <2>2, <2>3 DEF heap_end, HeapStart
<1>5. heap_end \in Nat /\ HeapStart \in Nat \ {0} /\ HeapStart <= heap_end
  BY <1>2, <1>3 DEF heap_end, HeapStart
<1>6. ASSUME NEW a
      PROVE  a \in Granules <=> /\ a \in Int /\ 0 <= a /\ a <= heap_end - MIN_ALIGN
                                /\ a % MIN_ALIGN = 0
  BY <1>1, <1>5 DEF Granules
<1> QED BY <1>1, <1>2, <1>4, <1>5, <1>6

\* An aligned address below the end is a granule.
LEMMA GranuleAt ==
  ASSUME NEW a \in Nat, a % MIN_ALIGN = 0, a < heap_end
  PROVE  a \in Granules
<1>1. a + MIN_ALIGN <= heap_end
  <2>1. a \in Int /\ heap_end \in Int /\ MIN_ALIGN \in Nat \ {0} /\ heap_end % MIN_ALIGN = 0
    BY HeapBounds
  <2> QED BY <2>1, ModGap
<1> QED BY <1>1, HeapBounds

\* What a held region is.
LEMMA HeldFacts ==
  ASSUME NEW own, NEW st, NEW id, NEW lo, NEW hi, Held(own, st, id, lo, hi)
  PROVE  /\ lo \in Granules /\ lo \in Nat \ {0} /\ hi \in Nat /\ lo < hi /\ hi <= heap_end
         /\ lo % MIN_ALIGN = 0 /\ hi % MIN_ALIGN = 0 /\ lo + MIN_ALIGN <= hi
         /\ HeapStart <= lo
         /\ own[lo] = id
<1>1. /\ lo \in Int /\ hi \in Int /\ lo % MIN_ALIGN = 0 /\ hi % MIN_ALIGN = 0
      /\ HeapStart <= lo /\ lo < hi /\ hi <= heap_end
  BY DEF Held
<1>2. lo + MIN_ALIGN <= hi
  BY <1>1, HeapBounds, ModGap
<1>3. lo \in Nat \ {0} /\ hi \in Nat /\ lo < heap_end
  BY <1>1, HeapBounds
<1>4. lo \in Granules
  BY <1>1, <1>3, GranuleAt
<1>5. own[lo] = id
  BY <1>1, <1>4 DEF Held
<1> QED BY <1>1, <1>2, <1>3, <1>4, <1>5

-----------------------------------------------------------------------------
(* Words.                                                                  *)

\* A header says its size and its flag.
LEMMA HeaderFacts ==
  ASSUME NEW size \in Nat, size % 16 = 0
  PROVE  /\ header_size(pack(size, FREE)) = size /\ header_is_free(pack(size, FREE))
         /\ header_size(pack(size, USED)) = size /\ ~header_is_free(pack(size, USED))
         /\ pack(size, FREE) \in Int /\ pack(size, USED) \in Int
<1>1. size \div 16 \in Int /\ size = 16 * (size \div 16)
  BY ModQuotient
<1>2. PICK q \in Int : size = 16 * q
  BY <1>1
<1>3. (16 * q + 1) % 16 = 1 /\ (16 * q + 0) % 16 = 0
  OBVIOUS
<1>4. (size + 1) % 16 = 1 /\ (size + 0) % 16 = 0
  BY <1>2, <1>3
<1> QED BY <1>4 DEF header_size, header_is_free, pack, FREE, USED

\* A head word says the address of its block, whatever its tag.
LEMMA HeadFacts ==
  ASSUME NEW b \in Nat, b % MIN_ALIGN = 0, NEW w \in Nat
  PROVE  /\ AddrOf(b + NextTag(w)) = b /\ b + NextTag(w) \in Nat
         /\ AddrOf(b) = b
         /\ AddrOf(w) \in Nat /\ AddrOf(w) % MIN_ALIGN = 0
<1>1. MIN_ALIGN \in Nat \ {0}
  BY HeapBounds
<1>2. PICK g \in 0 .. MIN_ALIGN - 1 : g = NextTag(w)
  <2>1. NextTag(w) \in 0 .. MIN_ALIGN - 1
    BY <1>1 DEF NextTag
  <2> QED BY <2>1
<1>3. b \div MIN_ALIGN \in Int /\ b = MIN_ALIGN * (b \div MIN_ALIGN)
  BY <1>1, ModQuotient
<1>4. PICK q \in Int : b = MIN_ALIGN * q
  BY <1>3
<1>5. (MIN_ALIGN * q + g) % MIN_ALIGN = g
  BY <1>1, DivModUnique
<1>6. AddrOf(b + g) = b
  BY <1>1, <1>4, <1>5 DEF AddrOf
<1>7. AddrOf(w) \in Nat /\ AddrOf(w) % MIN_ALIGN = 0
  <2>1. /\ w \div MIN_ALIGN \in Int /\ w % MIN_ALIGN \in 0 .. MIN_ALIGN - 1
        /\ w = MIN_ALIGN * (w \div MIN_ALIGN) + (w % MIN_ALIGN) /\ w \div MIN_ALIGN >= 0
    <3>1. w \in Int /\ w >= 0
      OBVIOUS
    <3> QED BY <1>1, <3>1, DivMod
  <2>2. PICK p \in Nat : p = w \div MIN_ALIGN
    BY <2>1
  <2>3. PICK m \in 0 .. MIN_ALIGN - 1 : m = w % MIN_ALIGN
    BY <2>1
  <2>4. AddrOf(w) = MIN_ALIGN * p
    BY <1>1, <2>1, <2>2, <2>3 DEF AddrOf
  <2>5. (MIN_ALIGN * p) % MIN_ALIGN = 0 /\ MIN_ALIGN * p \in Nat
    BY <1>1, ModProduct
  <2> QED BY <2>4, <2>5
<1>8. b % MIN_ALIGN = 0 => AddrOf(b) = b
  BY DEF AddrOf
<1> QED BY <1>2, <1>6, <1>7, <1>8

\* The bins of a class.
LEMMA FixedFacts ==
  ASSUME NEW k \in FixedBins
  PROVE  k \in Bins /\ k # oversize_bin
<1>1. oversize_bin \in Nat /\ FixedBins = 0 .. oversize_bin - 1 /\ Bins = 0 .. oversize_bin
  BY GeoConstants, CadAssumption
<1>2. k \in 0 .. oversize_bin - 1
  BY <1>1
<1>3. k \in 0 .. oversize_bin /\ k # oversize_bin
  BY <1>1, <1>2
<1> QED BY <1>1, <1>3

-----------------------------------------------------------------------------
(* What a change of owner, link or header leaves alone.                     *)

-----------------------------------------------------------------------------
(* Frames: what a step that touches only some owners' memory leaves alone. *)

\* A step touches no granule but those of the owners in T.
Frame(T, own, st, own2, st2) ==
  /\ st \subseteq st2
  /\ \A a \in Granules : own[a] \notin T =>
       /\ own2[a] = own[a] /\ (a \in st2 => a \in st)
       /\ word0'[a] = word0[a] /\ word1'[a] = word1[a]

\* The owners a thread can be.
MyIds(t) == {SrcId(t), DstId(t), BlockId(t), GapId(t), PieceId(t)}

\* Owners of different kinds differ, and so do those of different threads.
LEMMA IdsDiffer ==
  /\ \A t : /\ SrcId(t) # DstId(t) /\ SrcId(t) # BlockId(t) /\ SrcId(t) # GapId(t)
            /\ SrcId(t) # PieceId(t) /\ DstId(t) # BlockId(t) /\ DstId(t) # GapId(t)
            /\ DstId(t) # PieceId(t) /\ BlockId(t) # GapId(t) /\ BlockId(t) # PieceId(t)
            /\ GapId(t) # PieceId(t)
            /\ BumpId \notin MyIds(t) /\ LostId \notin MyIds(t)
  /\ \A t, u : t # u => MyIds(t) \cap MyIds(u) = {}
  /\ \A t, s : LiveId(s) \notin MyIds(t)
  /\ \A t, k, b : BinId(k, b) \notin MyIds(t)
  /\ \A s, k, b : LiveId(s) # BinId(k, b)
  /\ \A s, k, b : LiveId(s) # BumpId /\ BinId(k, b) # BumpId
  /\ \A s, k, b : LiveId(s) # LostId /\ BinId(k, b) # LostId
  /\ BumpId # LostId
  /\ \A s, s2 : LiveId(s) = LiveId(s2) <=> s = s2
  /\ \A k, b, k2, b2 : BinId(k, b) = BinId(k2, b2) <=> k = k2 /\ b = b2
BY DEF MyIds, SrcId, DstId, BlockId, GapId, PieceId, LiveId, BinId, BumpId, LostId

\* A region that is not touched stays held.
LEMMA FrameHeld ==
  ASSUME NEW T, NEW own, NEW st, NEW own2, NEW st2, Frame(T, own, st, own2, st2),
         NEW id, id \notin T, NEW lo, NEW hi
  PROVE  /\ Held(own, st, id, lo, hi) => Held(own2, st2, id, lo, hi)
         /\ Block(own, st, id, lo, hi) => Block(own2, st2, id, lo, hi)
<1>1. Held(own, st, id, lo, hi) => Held(own2, st2, id, lo, hi)
  BY DEF Frame, Held
<1> QED BY <1>1 DEF Frame, Block

\* So do its words.
LEMMA FrameWords ==
  ASSUME NEW T, NEW own, NEW st, NEW own2, NEW st2, Frame(T, own, st, own2, st2),
         NEW id, id \notin T, NEW lo, NEW hi, Held(own, st, id, lo, hi)
  PROVE  word0'[lo] = word0[lo] /\ word1'[lo] = word1[lo]
<1>1. lo \in Granules /\ own[lo] = id
  BY HeldFacts
<1> QED BY <1>1 DEF Frame

(* A free block of an owner that is not in T.                               *)
LEMMA FrameFree ==
  ASSUME NEW T, NEW own, NEW st, NEW own2, NEW st2, Frame(T, own, st, own2, st2),
         NEW id, id \notin T, NEW k, NEW b, FreeBlock(own, st, id, k, b)
  PROVE  FreeBlock(own2, st2, id, k, b)' /\ word0'[b] = word0[b] /\ word1'[b] = word1[b]
<1> DEFINE size == header_size(word0[b])
<1>1. Block(own, st, id, b, b + size) /\ Held(own, st, id, b, b + size)
  BY DEF FreeBlock, Block
<1>2. word0'[b] = word0[b] /\ word1'[b] = word1[b]
  BY <1>1, FrameWords
<1>3. Block(own2, st2, id, b, b + size)
  BY <1>1, FrameHeld
<1> QED BY <1>2, <1>3 DEF FreeBlock

(* A used block of an owner that is not in T.                               *)
LEMMA FrameUsed ==
  ASSUME NEW T, NEW own, NEW st, NEW own2, NEW st2, Frame(T, own, st, own2, st2),
         NEW id, id \notin T, NEW b, NEW size, UsedBlock(own, st, id, b, size)
  PROVE  UsedBlock(own2, st2, id, b, size)'
<1>1. Block(own, st, id, b, b + size) /\ Held(own, st, id, b, b + size)
  BY DEF UsedBlock, Block
<1>2. word0'[b] = word0[b]
  BY <1>1, FrameWords
<1>3. Block(own2, st2, id, b, b + size)
  BY <1>1, FrameHeld
<1> QED BY <1>2, <1>3 DEF UsedBlock

(* A slice whose owner is not in T.                                         *)
LEMMA FrameSlice ==
  ASSUME NEW T, NEW own, NEW st, NEW own2, NEW st2, Frame(T, own, st, own2, st2),
         NEW id, id \notin T, NEW s, SliceHeld(own, st, id, s)
  PROVE  SliceHeld(own2, st2, id, s)'
BY FrameUsed DEF SliceHeld

\* The blocks of the lists that are not touched.
LEMMA FrameLists ==
  ASSUME NEW T, NEW own, NEW st, NEW own2, NEW st2, Frame(T, own, st, own2, st2),
         NEW el, NEW n, Lists(own, st, el, n),
         NEW k \in Bins, NEW i \in 1 .. n[k], BinId(k, el[k][i]) \notin T
  PROVE  /\ FreeBlock(own2, st2, BinId(k, el[k][i]), k, el[k][i])'
         /\ word0'[el[k][i]] = word0[el[k][i]]
         /\ word1'[el[k][i]] = word1[el[k][i]] /\ word1[el[k][i]] = el[k][i - 1]
<1>1. FreeBlock(own, st, BinId(k, el[k][i]), k, el[k][i]) /\ word1[el[k][i]] = el[k][i - 1]
  BY DEF Lists
<1> QED BY <1>1, FrameFree

(* A live slice whose owner is not in T.                                    *)
LEMMA FrameLive ==
  ASSUME NEW T, NEW own, NEW st, NEW own2, NEW st2, Frame(T, own, st, own2, st2),
         LiveSlices(own, st), NEW s \in live, LiveId(s) \notin T
  PROVE  SliceHeld(own2, st2, LiveId(s), s)'
BY FrameSlice DEF LiveSlices

\* A thread that does not move, and whose memory is not touched, is as it was.
LEMMA FrameThread ==
  ASSUME NEW T, NEW own, NEW st, NEW own2, NEW st2, Frame(T, own, st, own2, st2),
         NEW el, NEW n, NEW el2, NEW n2, NEW t, Thread(own, st, el, n, t),
         pc'[t] = pc[t], r'[t] = r[t], MyIds(t) \cap T = {},
         Fitting(el, n, t) => Fitting(el2, n2, t)', Failing(el, n, t) => Failing(el2, n2, t)'
  PROVE  Thread(own2, st2, el2, n2, t)'
<1>1. /\ Hands(own, st, t) /\ Moving(own, st, t) /\ Place(t)
      /\ Fitting(el, n, t) /\ Failing(el, n, t)
  BY DEF Thread
<1>2. /\ SrcId(t) \notin T /\ DstId(t) \notin T /\ BlockId(t) \notin T /\ GapId(t) \notin T
      /\ PieceId(t) \notin T /\ PushId(t) \notin T
  BY DEF MyIds, PushId
<1>3. r[t].blk # 0 => word0'[r[t].blk] = word0[r[t].blk]
  BY <1>1, <1>2, FrameWords DEF Hands, Block
<1>4. Hands(own2, st2, t)'
  BY <1>1, <1>2, FrameSlice, FrameHeld DEF Hands, HoldsSrc, Carving, Pushing
<1>5. Moving(own2, st2, t)'
  <2>1. Pushing(t) => /\ FreeBlock(own2, st2, PushId(t), r[t].bin, Piece(t))'
                      /\ word1'[Piece(t)] = word1[Piece(t)]
    <3> SUFFICES ASSUME Pushing(t)
                 PROVE  /\ FreeBlock(own2, st2, PushId(t), r[t].bin, Piece(t))'
                        /\ word1'[Piece(t)] = word1[Piece(t)]
      OBVIOUS
    <3>1. FreeBlock(own, st, PushId(t), r[t].bin, Piece(t))
      BY <1>1 DEF Moving
    <3> DEFINE id == PushId(t)
               k == r[t].bin
               b == Piece(t)
    <3>2. id' = id /\ k' = k /\ b' = b
      BY DEF PushId, Piece
    <3> HIDE DEF id, k, b
    <3>3. PICK id0, k0, b0 : id0 = id /\ k0 = k /\ b0 = b
      OBVIOUS
    <3>4. FreeBlock(own, st, id0, k0, b0) /\ id0 \notin T
      BY <1>2, <3>1, <3>3 DEF id, k, b
    <3>5. FreeBlock(own2, st2, id0, k0, b0)' /\ word1'[b0] = word1[b0]
      BY <3>4, FrameFree
    <3>6. FreeBlock(own2, st2, id, k, b)' /\ word1'[b] = word1[b]
      BY <3>2, <3>3, <3>5
    <3> QED BY <3>6 DEF id, k, b
  <2>2. st \subseteq st2
    BY DEF Frame
  <2>3. Piece(t)' = Piece(t) /\ PushId(t)' = PushId(t)
    BY DEF Piece, PushId
  <2> QED BY <1>1, <2>1, <2>2, <2>3 DEF Moving, Pushing
<1>6. Place(t)'
  BY <1>1, <1>3 DEF Place, Initialising, Asking, Serving, Found, Served, Freeing, Leaving, SplitBlock,
     InPlace, Carving, Pushing, Target, InHand
<1> QED BY <1>1, <1>4, <1>5, <1>6 DEF Thread

-----------------------------------------------------------------------------
(* What is left to show of a step of thread t.                             *)

\* A walk over blocks that are not touched goes on.
LEMMA FrameFit ==
  ASSUME NEW T, NEW own, NEW st, NEW own2, NEW st2, Frame(T, own, st, own2, st2),
         NEW el, NEW n, Lists(own, st, el, n), NEW el2, NEW n2, NEW t,
         pc'[t] = pc[t], r'[t] = r[t],
         el2[oversize_bin] = el[oversize_bin], n2[oversize_bin] = n[oversize_bin],
         \A i \in 1 .. n[oversize_bin] : BinId(oversize_bin, el[oversize_bin][i]) \notin T,
         n[oversize_bin] \in Nat,
         Fitting(el, n, t)
  PROVE  Fitting(el2, n2, t)'
<1> SUFFICES ASSUME pc[t] = "fit" PROVE Fitting(el2, n2, t)'
  BY DEF Fitting
<1> DEFINE k == oversize_bin
<1>1. PICK j \in 0 .. n[k] : /\ r[t].cur = el[k][j]
                             /\ r[t].prev = IF j = n[k] THEN 0 ELSE el[k][j + 1]
                             /\ \A i \in j + 1 .. n[k] : header_size(word0[el[k][i]]) < Target(t)
  BY DEF Fitting
<1>2. \A i \in j + 1 .. n[k] : i \in 1 .. n[k]
  OBVIOUS
<1>3. \A i \in j + 1 .. n[k] : word0'[el[k][i]] = word0[el[k][i]]
  BY <1>2, FrameLists, OversizeIsABin
<1>4. Target(t)' = Target(t)
  BY DEF Target
<1>5. \A i \in j + 1 .. n[k] : header_size(word0'[el[k][i]]) < Target(t)'
  BY <1>1, <1>3, <1>4
<1> QED BY <1>1, <1>4, <1>5 DEF Fitting

(* What a failed call has found out.                                        *)
LEMMA FrameFail ==
  ASSUME NEW T, NEW own, NEW st, NEW own2, NEW st2, Frame(T, own, st, own2, st2),
         NEW el, NEW n, Lists(own, st, el, n), NEW el2, NEW n2, NEW t,
         pc'[t] = pc[t], r'[t] = r[t], bump' = bump,
         el2[oversize_bin] = el[oversize_bin], n2[oversize_bin] = n[oversize_bin],
         \A i \in 1 .. n[oversize_bin] : BinId(oversize_bin, el[oversize_bin][i]) \notin T,
         Failing(el, n, t)
  PROVE  Failing(el2, n2, t)'
<1> DEFINE k == oversize_bin
<1>1. \A i \in 1 .. n[k] : word0'[el[k][i]] = word0[el[k][i]]
  BY FrameLists, OversizeIsABin
<1>2. Target(t)' = Target(t)
  BY DEF Target
<1> QED BY <1>1, <1>2 DEF Failing

\* The other threads.
LEMMA FrameOthers ==
  ASSUME NEW T, NEW own, NEW st, NEW own2, NEW st2, Frame(T, own, st, own2, st2),
         NEW el, NEW n, HInv(own, st, el, n), NEW el2, NEW n2, booted, LInv,
         NEW t \in Threads, Alone(t), \A u \in Threads \ {t} : MyIds(u) \cap T = {},
         \/ Critical(t)
         \/ /\ bump' = bump
            /\ el2[oversize_bin] = el[oversize_bin] /\ n2[oversize_bin] = n[oversize_bin]
            /\ \A i \in 1 .. n[oversize_bin] : BinId(oversize_bin, el[oversize_bin][i]) \notin T
  PROVE  \A u \in Threads \ {t} : Thread(own2, st2, el2, n2, u)'
<1> SUFFICES ASSUME NEW u \in Threads \ {t} PROVE Thread(own2, st2, el2, n2, u)'
  OBVIOUS
<1>1. Thread(own, st, el, n, u) /\ Lists(own, st, el, n) /\ n[oversize_bin] \in Nat
  BY OversizeIsABin DEF HInv, Types
<1>2. pc'[u] = pc[u] /\ r'[u] = r[u] /\ MyIds(u) \cap T = {}
  BY DEF Alone
<1>3. /\ Fitting(el, n, u) => Fitting(el2, n2, u)'
      /\ Failing(el, n, u) => Failing(el2, n2, u)'
  <2>1. CASE Critical(t)
    <3>1. pc[u] \notin {"fit", "unlock"}
      BY <2>1 DEF LInv, LockExcludes, Critical
    <3> QED BY <1>2, <3>1 DEF Fitting, Failing
  <2>2. CASE ~Critical(t)
    BY <1>1, <1>2, <2>2, FrameFit, FrameFail
  <2> QED BY <2>1, <2>2
<1> QED BY <1>1, <1>2, <1>3, FrameThread

\* The types.
LEMMA FrameTypes ==
  ASSUME NEW own, NEW st, NEW el, NEW n, Types(own, st, el, n),
         NEW own2, NEW st2, NEW el2, NEW n2, NEW t \in Threads,
         Alone(t), DOMAIN pc' = Threads, DOMAIN r' = Threads,
         pc' = [pc EXCEPT ![t] = pc'[t]], pc'[t] \in Labels, Typed(r'[t]),
         word0' \in [Granules -> Int], word1' \in [Granules -> Int], head' \in [Bins -> Nat],
         live' \subseteq SliceSet, st2 \subseteq Granules \ {0},
         n2 \in [Bins -> Nat], el2 \in [Bins -> [Nat -> Int]]
  PROVE  Types(own2, st2, el2, n2)'
<1>1. pc' \in [Threads -> Labels]
  BY DEF Types
<1>2. \A u \in Threads : Typed(r'[u])
  BY DEF Types, Alone
<1> QED BY <1>1, <1>2 DEF Types

\* The lists, when no step changes them.
LEMMA KeepLists ==
  ASSUME NEW T, NEW own, NEW st, NEW own2, NEW st2, Frame(T, own, st, own2, st2),
         NEW el, NEW n, Lists(own, st, el, n), head' = head, \A k, b : BinId(k, b) \notin T
  PROVE  Lists(own2, st2, el, n)'
<1>1. \A k \in Bins : \A i \in 1 .. n[k] :
        /\ FreeBlock(own2, st2, BinId(k, el[k][i]), k, el[k][i])'
        /\ word1'[el[k][i]] = el[k][i - 1]
  BY FrameLists
<1> QED BY <1>1 DEF Lists

\* The callers' slices.
LEMMA KeepLive ==
  ASSUME NEW T, NEW own, NEW st, NEW own2, NEW st2, Frame(T, own, st, own2, st2),
         LiveSlices(own, st), \A s \in live' : s \in live /\ LiveId(s) \notin T
  PROVE  LiveSlices(own2, st2)'
BY FrameLive DEF LiveSlices

\* The region above the bump pointer.
LEMMA KeepRoom ==
  ASSUME NEW T, NEW own, NEW st, NEW own2, NEW st2, Frame(T, own, st, own2, st2),
         Room(own, st), NEW t \in Threads, Alone(t), bump' = bump, BumpId \notin T,
         Carving(t)' <=> Carving(t),
         Carving(t) => r'[t].lo = r[t].lo /\ r'[t].top = r[t].top
  PROVE  Room(own2, st2)'
<1>1. \A u \in Threads : /\ Carving(u)' <=> Carving(u)
                         /\ Carving(u) => r'[u].lo = r[u].lo /\ r'[u].top = r[u].top
  BY DEF Alone, Carving, Pushing
<1>2. bump \in Nat /\ bump % MIN_ALIGN = 0 /\ HeapStart <= bump /\ bump <= heap_end
  BY DEF Room
<1>3. \A u \in Threads : Carving(u)' => bump <= r'[u].lo
  BY <1>1 DEF Room
<1>4. ASSUME NEW a \in Granules, bump <= a, \A u \in Threads : Carving(u)' => r'[u].top <= a
      PROVE  own2[a] = BumpId /\ a \notin st2
  <2>1. \A u \in Threads : Carving(u) => r[u].top <= a
    BY <1>1, <1>4
  <2>2. own[a] = BumpId /\ a \notin st
    BY <1>4, <2>1 DEF Room
  <2> QED BY <2>2 DEF Frame
<1> QED BY <1>2, <1>3, <1>4 DEF Room

\* A step that changes nothing but the locals of its thread.
LEMMA Quiet ==
  ASSUME NEW own, NEW st, NEW el, NEW n, HInv(own, st, el, n), booted, LInv,
         NEW t \in Threads, Alone(t),
         DOMAIN pc' = Threads, DOMAIN r' = Threads, pc' = [pc EXCEPT ![t] = pc'[t]],
         head' = head, bump' = bump, word0' = word0, word1' = word1, live' = live,
         pc'[t] \in Labels, Typed(r'[t]),
         Carving(t)' <=> Carving(t),
         Carving(t) => r'[t].lo = r[t].lo /\ r'[t].top = r[t].top,
         Thread(own, st, el, n, t)'
  PROVE  HInv(own, st, el, n)'
<1> DEFINE T == {}
<1>1. Frame(T, own, st, own, st)
  BY DEF Frame
<1>2. /\ Types(own, st, el, n) /\ Lists(own, st, el, n) /\ LiveSlices(own, st) /\ Room(own, st)
  BY DEF HInv
<1>3. \A u \in Threads \ {t} : Thread(own, st, el, n, u)'
  BY <1>1, FrameOthers
<1>4. Lists(own, st, el, n)'
  BY <1>1, <1>2, KeepLists
<1>5. LiveSlices(own, st)'
  BY <1>1, <1>2, KeepLive
<1>6. Room(own, st)'
  BY <1>1, <1>2, KeepRoom
<1>7. Types(own, st, el, n)'
  BY <1>2, FrameTypes DEF Types
<1> QED BY <1>3, <1>4, <1>5, <1>6, <1>7 DEF HInv

-----------------------------------------------------------------------------
(* Steps that leave the owners as they are.                                 *)

-----------------------------------------------------------------------------
(* The steps that change only the locals of their thread.                  *)

\* What is known of a thread.
LEMMA Here ==
  ASSUME NEW own, NEW st, NEW el, NEW n, HInv(own, st, el, n), LInv, NEW t \in Threads
  PROVE  /\ pc[t] \in Labels /\ Typed(r[t])
         /\ Hands(own, st, t) /\ Moving(own, st, t) /\ Place(t)
         /\ Fitting(el, n, t) /\ Failing(el, n, t)
         /\ JobInPlace(t) /\ FixedBinOnly(t)
         /\ pc \in [Threads -> Labels] /\ DOMAIN r = Threads
         /\ head \in [Bins -> Nat]
         /\ word0 \in [Granules -> Int] /\ word1 \in [Granules -> Int]
BY DEF HInv, Types, Thread, LInv, LocalsFit

\* The names of the locals.
LEMMA Fields ==
  DOMAIN NoLocals = {"op", "job", "size", "src", "dst", "bin", "blk", "top", "lo", "end",
                     "old", "nxt", "prev", "cur", "usable", "iter"}
BY DEF NoLocals

\* Locals that a step leaves alone.
SameCall(t) == /\ r'[t].op = r[t].op /\ r'[t].job = r[t].job /\ r'[t].size = r[t].size
               /\ r'[t].src = r[t].src /\ r'[t].dst = r[t].dst /\ r'[t].usable = r[t].usable
SameHand(t) == /\ r'[t].blk = r[t].blk /\ r'[t].top = r[t].top
               /\ r'[t].lo = r[t].lo /\ r'[t].end = r[t].end
SameWalk(t) == /\ r'[t].bin = r[t].bin /\ r'[t].old = r[t].old /\ r'[t].nxt = r[t].nxt
               /\ r'[t].prev = r[t].prev /\ r'[t].cur = r[t].cur /\ r'[t].iter = r[t].iter

\* Where a step that changes only its locals leaves its thread.
Calm(t) ==
  /\ head' = head /\ bump' = bump /\ word0' = word0 /\ word1' = word1 /\ live' = live
  /\ pc' = [pc EXCEPT ![t] = pc'[t]] /\ pc'[t] \in Labels /\ Typed(r'[t])
  /\ Carving(t)' <=> Carving(t)
  /\ Carving(t) => r'[t].lo = r[t].lo /\ r'[t].top = r[t].top

(* A calm step leaves the ghosts as they are.                               *)
LEMMA CalmStep ==
  ASSUME NEW own, NEW st, NEW el, NEW n, HInv(own, st, el, n), booted, LInv,
         NEW t \in Threads, Call(t) \/ Step(t), Calm(t),
         Hands(own, st, t)', Moving(own, st, t)', Place(t)', Fitting(el, n, t)', Failing(el, n, t)'
  PROVE  HInv(own, st, el, n)'
<1>1. Alone(t) /\ DOMAIN pc' = Threads /\ DOMAIN r' = Threads
  BY StepAlone DEF LInv
<1>2. Thread(own, st, el, n, t)'
  BY DEF Thread
<1> QED BY <1>1, <1>2, Quiet DEF Calm

\* A step that keeps what its thread has in hand.
LEMMA SameHands ==
  ASSUME NEW own, NEW st, NEW t, Hands(own, st, t), word0' = word0,
         HoldsSrc(t)' => HoldsSrc(t), r'[t].src = r[t].src, r'[t].dst = r[t].dst,
         SameHand(t), Carving(t)' <=> Carving(t)
  PROVE  Hands(own, st, t)'
BY DEF SameHand, Hands, SliceHeld, UsedBlock

(* Spinning for the refill lock.                                            *)
LEMMA LockSteps ==
  ASSUME NEW own, NEW st, NEW el, NEW n, HInv(own, st, el, n), booted, LInv,
         NEW t \in Threads, Lock(t)
  PROVE  HInv(own, st, el, n)'
<1> USE DEF Goto, control, memory, client, setup
<1>1. /\ pc[t] \in Labels /\ Typed(r[t])
      /\ Hands(own, st, t) /\ Moving(own, st, t) /\ Place(t)
         /\ Fitting(el, n, t) /\ Failing(el, n, t)
      /\ JobInPlace(t) /\ FixedBinOnly(t)
      /\ pc \in [Threads -> Labels] /\ DOMAIN r = Threads
  BY Here
<1>2. /\ pc[t] = "lock" /\ r' = r
      /\ r[t].job \in {"slow", "over", "shrink", "free"}
      /\ pc'[t] = CASE r[t].job = "slow" -> "pop_load"
                    [] r[t].job = "over" -> "fit_head"
                    [] r[t].job = "shrink" -> "split"
                    [] r[t].job = "free" -> "over_push"
      /\ pc' = [pc EXCEPT ![t] = pc'[t]]
  BY <1>1 DEF Lock, JobInPlace
<1>3. Calm(t)
  BY <1>1, <1>2 DEF Calm, Lock, Labels, Carving, Pushing
<1>4. Hands(own, st, t)'
  BY <1>1, <1>2, <1>3, SameHands DEF Calm, HoldsSrc, SameHand
<1>5. Moving(own, st, t)'
  BY <1>1, <1>2, SMTT(30) DEF Moving, Pushing
<1>6. Place(t)'
  BY <1>1, <1>2, SMTT(30) DEF Lock, Place, Initialising, Asking, Serving, Found, Served, Freeing, Leaving,
     SplitBlock, InPlace, Carving, Pushing, Target, InHand, AskingAt
<1>7. Fitting(el, n, t)' /\ Failing(el, n, t)'
  BY <1>2 DEF Fitting, Failing
<1> QED BY <1>3, <1>4, <1>5, <1>6, <1>7, CalmStep DEF Step

-----------------------------------------------------------------------------
\* What a request asks for, when it does not wrap.
LEMMA RequestOk ==
  ASSUME SafeUse, NEW x \in Requests
  PROVE  /\ x \in Nat /\ x + 2 * MIN_ALIGN <= WORD /\ heap_end + x + 2 * MIN_ALIGN + EXP_CEIL <= WORD
         /\ RequestBin(x) \in Bins
         /\ request_block_size(x) \in Nat /\ request_block_size(x) % MIN_ALIGN = 0
         /\ request_block_size(x) >= x + MIN_ALIGN /\ request_block_size(x) >= LNR_FLOOR
         /\ is_block_exact(request_block_size(x))
         /\ bin_index(request_block_size(x)) = RequestBin(x)
         /\ IF RequestBin(x) = oversize_bin
            THEN /\ request_block_size(x) > EXP_CEIL
                 /\ request_block_size(x) < x + 2 * MIN_ALIGN
            ELSE /\ RequestBin(x) \in FixedBins /\ request_block_size(x) = bin_class(RequestBin(x))
                 /\ request_block_size(x) <= EXP_CEIL
         /\ \A b \in Int : b % align_of_bin(RequestBin(x)) = 0 => Valid(b, request_block_size(x))
<1>1. x \in Nat
  BY CadAssumption DEF Requests
<1>2. heap_end + x + 2 * MIN_ALIGN + EXP_CEIL <= WORD
  BY DEF SafeUse, Requests
<1>3. x + 2 * MIN_ALIGN <= WORD
  BY <1>1, <1>2, HeapBounds, GeoConstants, CadAssumption
<1> QED BY <1>1, <1>2, <1>3, RequestFacts, CadAssumption

\* A block of a list.
LEMMA ListBlock ==
  ASSUME NEW own, NEW st, NEW el, NEW n, Lists(own, st, el, n), NEW k \in Bins,
         NEW i \in 1 .. n[k]
  PROVE  /\ el[k][i] \in Granules /\ el[k][i] \in Nat \ {0} /\ el[k][i] % MIN_ALIGN = 0
         /\ el[k][i] \in st /\ own[el[k][i]] = BinId(k, el[k][i])
         /\ FreeBlock(own, st, BinId(k, el[k][i]), k, el[k][i])
         /\ word1[el[k][i]] = el[k][i - 1]
<1>1. FreeBlock(own, st, BinId(k, el[k][i]), k, el[k][i]) /\ word1[el[k][i]] = el[k][i - 1]
  BY DEF Lists
<1>2. PICK b : b = el[k][i]
  OBVIOUS
<1>3. PICK hi : Held(own, st, BinId(k, b), b, hi) /\ b \in st
  BY <1>1, <1>2 DEF FreeBlock, Block
<1>4. b \in Granules /\ b \in Nat \ {0} /\ b % MIN_ALIGN = 0 /\ own[b] = BinId(k, b)
  BY <1>3, HeldFacts
<1> QED BY <1>1, <1>2, <1>3, <1>4

\* The block on top of a list.
LEMMA ListTop ==
  ASSUME NEW own, NEW st, NEW el, NEW n, Lists(own, st, el, n), NEW k \in Bins,
         n[k] \in Nat, AddrOf(head[k]) # 0
  PROVE  n[k] \in 1 .. n[k] /\ n[k] > 0 /\ AddrOf(head[k]) = el[k][n[k]] /\ AddrOf(head[k]) \in st
<1>1. n[k] # 0 /\ AddrOf(head[k]) = el[k][n[k]]
  BY DEF Lists
<1>2. n[k] \in 1 .. n[k]
  BY <1>1
<1> QED BY <1>1, <1>2, ListBlock

\* PushLoad: the head is loaded.
LEMMA HPushLoad ==
  ASSUME NEW own, NEW st, NEW el, NEW n, HInv(own, st, el, n), booted, LInv,
         NEW t \in Threads, PushLoad(t)
  PROVE  HInv(own, st, el, n)'
<1> USE DEF Goto, control, memory, client, setup
<1>1. /\ pc[t] \in Labels /\ Typed(r[t])
      /\ Hands(own, st, t) /\ Moving(own, st, t) /\ Place(t)
      /\ Fitting(el, n, t) /\ Failing(el, n, t)
      /\ JobInPlace(t) /\ FixedBinOnly(t)
      /\ pc \in [Threads -> Labels] /\ DOMAIN r = Threads
      /\ head \in [Bins -> Nat]
      /\ word0 \in [Granules -> Int] /\ word1 \in [Granules -> Int]
  BY Here
<1>e. pc[t] = "push_load" /\ head[r[t].bin] \in Nat
  <2>1. pc[t] = "push_load"
    BY DEF PushLoad
  <2>2. r[t].bin \in FixedBins
    BY <1>1, <2>1 DEF Moving, Pushing
  <2>3. r[t].bin \in Bins
    BY <2>2, FixedFacts
  <2> QED BY <1>1, <2>1, <2>3
<1>2. /\ pc[t] = "push_load"
      /\ pc'[t] = "push_store" /\ pc' = [pc EXCEPT ![t] = pc'[t]]
      /\ Typed(r'[t])
      /\ SameCall(t) /\ SameHand(t) /\ r'[t].bin = r[t].bin /\ r'[t].old = head[r[t].bin]
      /\ r'[t].nxt = r[t].nxt /\ r'[t].prev = r[t].prev /\ r'[t].cur = r[t].cur
      /\ r'[t].iter = r[t].iter
  BY <1>1, Fields, <1>e DEF PushLoad, Typed, Jobs, SameCall, SameHand, SameWalk
<1>3. Calm(t)
  BY <1>1, <1>2, <1>e DEF Calm, PushLoad, Labels, Carving, Pushing,
     SameCall, SameHand
<1>4. Hands(own, st, t)'
  BY <1>1, <1>2, <1>3, SameHands DEF Calm, HoldsSrc, SameCall
<1>5. Moving(own, st, t)'
  <2>1. Piece(t)' = Piece(t) /\ PushId(t)' = PushId(t) /\ word0' = word0
    BY <1>2, <1>3 DEF Piece, PushId, Calm, SameCall, SameHand
  <2> QED BY <1>1, <1>e, <1>2, <2>1 DEF Moving, Pushing, FreeBlock, SameCall, SameHand
<1>6. Place(t)'
  BY <1>1, <1>2, <1>e DEF PushLoad, Place, Initialising, Asking, Serving, Found, Served, Freeing, Leaving,
     SplitBlock, InPlace, Carving, Pushing, Target, InHand, AskingAt,
     SameCall, SameHand, SameWalk
<1>7. Fitting(el, n, t)' /\ Failing(el, n, t)'
  BY <1>2 DEF Fitting, Failing
<1> QED BY <1>3, <1>4, <1>5, <1>6, <1>7, CalmStep DEF Step

\* PushRetry: the head has moved.
LEMMA HPushRetry ==
  ASSUME NEW own, NEW st, NEW el, NEW n, HInv(own, st, el, n), booted, LInv,
         NEW t \in Threads, PushRetry(t)
  PROVE  HInv(own, st, el, n)'
<1> USE DEF Goto, control, memory, client, setup
<1>1. /\ pc[t] \in Labels /\ Typed(r[t])
      /\ Hands(own, st, t) /\ Moving(own, st, t) /\ Place(t)
      /\ Fitting(el, n, t) /\ Failing(el, n, t)
      /\ JobInPlace(t) /\ FixedBinOnly(t)
      /\ pc \in [Threads -> Labels] /\ DOMAIN r = Threads
      /\ head \in [Bins -> Nat]
      /\ word0 \in [Granules -> Int] /\ word1 \in [Granules -> Int]
  BY Here
<1>2. /\ pc[t] = "push_cas"
      /\ pc'[t] = "push_load" /\ pc' = [pc EXCEPT ![t] = pc'[t]]
      /\ Typed(r'[t])
      /\ SameCall(t) /\ SameHand(t) /\ r'[t].bin = r[t].bin /\ r'[t].old = 0
      /\ r'[t].nxt = r[t].nxt /\ r'[t].prev = r[t].prev /\ r'[t].cur = r[t].cur
      /\ r'[t].iter = r[t].iter
  BY <1>1, Fields DEF PushRetry, Typed, Jobs, SameCall, SameHand, SameWalk
<1>3. Calm(t)
  BY <1>1, <1>2 DEF Calm, PushRetry, Labels, Carving, Pushing,
     SameCall, SameHand
<1>4. Hands(own, st, t)'
  BY <1>1, <1>2, <1>3, SameHands DEF Calm, HoldsSrc, SameCall
<1>5. Moving(own, st, t)'
  <2>1. Piece(t)' = Piece(t) /\ PushId(t)' = PushId(t) /\ word0' = word0
    BY <1>2, <1>3 DEF Piece, PushId, Calm, SameCall, SameHand
  <2> QED BY <1>1, <1>2, <2>1 DEF Moving, Pushing, FreeBlock, SameCall, SameHand
<1>6. Place(t)'
  BY <1>1, <1>2 DEF PushRetry, Place, Initialising, Asking, Serving, Found, Served, Freeing, Leaving,
     SplitBlock, InPlace, Carving, Pushing, Target, InHand, AskingAt,
     SameCall, SameHand, SameWalk
<1>7. Fitting(el, n, t)' /\ Failing(el, n, t)'
  BY <1>2 DEF Fitting, Failing
<1> QED BY <1>3, <1>4, <1>5, <1>6, <1>7, CalmStep DEF Step

\* PopRetry: the head has moved.
LEMMA HPopRetry ==
  ASSUME NEW own, NEW st, NEW el, NEW n, HInv(own, st, el, n), booted, LInv,
         NEW t \in Threads, PopRetry(t)
  PROVE  HInv(own, st, el, n)'
<1> USE DEF Goto, control, memory, client, setup
<1>1. /\ pc[t] \in Labels /\ Typed(r[t])
      /\ Hands(own, st, t) /\ Moving(own, st, t) /\ Place(t)
      /\ Fitting(el, n, t) /\ Failing(el, n, t)
      /\ JobInPlace(t) /\ FixedBinOnly(t)
      /\ pc \in [Threads -> Labels] /\ DOMAIN r = Threads
      /\ head \in [Bins -> Nat]
      /\ word0 \in [Granules -> Int] /\ word1 \in [Granules -> Int]
  BY Here
<1>2. /\ pc[t] = "pop_cas"
      /\ pc'[t] = "pop_load" /\ pc' = [pc EXCEPT ![t] = pc'[t]]
      /\ Typed(r'[t])
      /\ SameCall(t) /\ SameHand(t) /\ r'[t].bin = r[t].bin /\ r'[t].old = 0 /\ r'[t].nxt = 0
      /\ r'[t].prev = r[t].prev /\ r'[t].cur = r[t].cur /\ r'[t].iter = r[t].iter
  BY <1>1, Fields DEF PopRetry, Typed, Jobs, SameCall, SameHand, SameWalk
<1>3. Calm(t)
  BY <1>1, <1>2 DEF Calm, PopRetry, Labels, Carving, Pushing,
     SameCall, SameHand
<1>4. Hands(own, st, t)'
  BY <1>1, <1>2, <1>3, SameHands DEF Calm, HoldsSrc, SameCall
<1>5. Moving(own, st, t)'
  BY <1>1, <1>2 DEF Moving, Pushing, SameWalk
<1>6. Place(t)'
  BY <1>1, <1>2 DEF PopRetry, Place, Initialising, Asking, Serving, Found, Served, Freeing, Leaving,
     SplitBlock, InPlace, Carving, Pushing, Target, InHand, AskingAt,
     SameCall, SameHand, SameWalk
<1>7. Fitting(el, n, t)' /\ Failing(el, n, t)'
  BY <1>2 DEF Fitting, Failing
<1> QED BY <1>3, <1>4, <1>5, <1>6, <1>7, CalmStep DEF Step

\* PopNext: the link is read.
LEMMA HPopNext ==
  ASSUME NEW own, NEW st, NEW el, NEW n, HInv(own, st, el, n), booted, LInv,
         NEW t \in Threads, PopNext(t)
  PROVE  HInv(own, st, el, n)'
<1> USE DEF Goto, control, memory, client, setup
<1>1. /\ pc[t] \in Labels /\ Typed(r[t])
      /\ Hands(own, st, t) /\ Moving(own, st, t) /\ Place(t)
      /\ Fitting(el, n, t) /\ Failing(el, n, t)
      /\ JobInPlace(t) /\ FixedBinOnly(t)
      /\ pc \in [Threads -> Labels] /\ DOMAIN r = Threads
      /\ head \in [Bins -> Nat]
      /\ word0 \in [Granules -> Int] /\ word1 \in [Granules -> Int]
  BY Here
<1>e. At(word1, AddrOf(r[t].old)) \in Int
  BY <1>1 DEF At
<1>2. /\ pc[t] = "pop_next"
      /\ pc'[t] = "pop_cas" /\ pc' = [pc EXCEPT ![t] = pc'[t]]
      /\ Typed(r'[t])
      /\ SameCall(t) /\ SameHand(t) /\ r'[t].bin = r[t].bin /\ r'[t].old = r[t].old
      /\ r'[t].nxt = At(word1, AddrOf(r[t].old)) /\ r'[t].prev = r[t].prev
      /\ r'[t].cur = r[t].cur /\ r'[t].iter = r[t].iter
  BY <1>1, Fields, <1>e DEF PopNext, Typed, Jobs, SameCall, SameHand, SameWalk
<1>3. Calm(t)
  BY <1>1, <1>2, <1>e DEF Calm, PopNext, Labels, Carving, Pushing,
     SameCall, SameHand
<1>4. Hands(own, st, t)'
  BY <1>1, <1>2, <1>3, SameHands DEF Calm, HoldsSrc, SameCall
<1>5. Moving(own, st, t)'
  BY <1>1, <1>2 DEF Moving, Pushing
<1>6. Place(t)'
  BY <1>1, <1>2, <1>e DEF PopNext, Place, Initialising, Asking, Serving, Found, Served, Freeing, Leaving,
     SplitBlock, InPlace, Carving, Pushing, Target, InHand, AskingAt,
     SameCall, SameHand, SameWalk
<1>7. Fitting(el, n, t)' /\ Failing(el, n, t)'
  BY <1>2 DEF Fitting, Failing
<1> QED BY <1>3, <1>4, <1>5, <1>6, <1>7, CalmStep DEF Step

\* PopEmpty: alloc_fixed takes the lock, or carves.
LEMMA HPopEmpty ==
  ASSUME NEW own, NEW st, NEW el, NEW n, HInv(own, st, el, n), booted, LInv,
         NEW t \in Threads, PopEmpty(t)
  PROVE  HInv(own, st, el, n)'
<1> USE DEF Goto, control, memory, client, setup
<1>1. /\ pc[t] \in Labels /\ Typed(r[t])
      /\ Hands(own, st, t) /\ Moving(own, st, t) /\ Place(t)
      /\ Fitting(el, n, t) /\ Failing(el, n, t)
      /\ JobInPlace(t) /\ FixedBinOnly(t)
      /\ pc \in [Threads -> Labels] /\ DOMAIN r = Threads
      /\ head \in [Bins -> Nat]
      /\ word0 \in [Granules -> Int] /\ word1 \in [Granules -> Int]
  BY Here
<1>2. /\ pc[t] = "pop_load" /\ r[t].job \in {"fast", "slow"}
      /\ pc'[t] = (IF r[t].job = "fast" THEN "lock" ELSE "refill") /\ pc' = [pc EXCEPT ![t] = pc'[t]]
      /\ Typed(r'[t])
      /\ SameHand(t) /\ SameWalk(t) /\ r'[t].op = r[t].op
      /\ r'[t].job = (IF r[t].job = "fast" THEN "slow" ELSE r[t].job) /\ r'[t].size = r[t].size
      /\ r'[t].src = r[t].src /\ r'[t].dst = r[t].dst /\ r'[t].usable = r[t].usable
  BY <1>1, Fields DEF PopEmpty, JobInPlace, Popping, Typed, Jobs, SameCall, SameHand, SameWalk
<1>3. Calm(t)
  BY <1>1, <1>2 DEF Calm, PopEmpty, Labels, Carving, Pushing,
     SameCall, SameHand
<1>4. Hands(own, st, t)'
  BY <1>1, <1>2, <1>3, SameHands DEF Calm, HoldsSrc
<1>5. Moving(own, st, t)'
  BY <1>1, <1>2 DEF Moving, Pushing
<1>6. Place(t)'
  BY <1>1, <1>2 DEF PopEmpty, Place, Initialising, Asking, Serving, Found, Served, Freeing, Leaving,
     SplitBlock, InPlace, Carving, Pushing, Target, InHand, AskingAt,
     SameCall, SameHand, SameWalk
<1>7. Fitting(el, n, t)' /\ Failing(el, n, t)'
  BY <1>2 DEF Fitting, Failing
<1> QED BY <1>3, <1>4, <1>5, <1>6, <1>7, CalmStep DEF Step

\* PopLoad: the head is loaded.
LEMMA HPopLoad ==
  ASSUME SafeUse, NEW own, NEW st, NEW el, NEW n, HInv(own, st, el, n), booted, LInv,
         NEW t \in Threads, PopLoad(t)
  PROVE  HInv(own, st, el, n)'
<1> USE DEF Goto, control, memory, client, setup
<1>1. /\ pc[t] \in Labels /\ Typed(r[t])
      /\ Hands(own, st, t) /\ Moving(own, st, t) /\ Place(t)
      /\ Fitting(el, n, t) /\ Failing(el, n, t)
      /\ JobInPlace(t) /\ FixedBinOnly(t)
      /\ pc \in [Threads -> Labels] /\ DOMAIN r = Threads
      /\ head \in [Bins -> Nat]
      /\ word0 \in [Granules -> Int] /\ word1 \in [Granules -> Int]
  BY Here
<1>e. pc[t] = "pop_load" /\ Asking(t) /\ r[t].bin \in Bins /\ head[r[t].bin] \in Nat
  <2>1. pc[t] = "pop_load" /\ Asking(t)
    BY <1>1 DEF PopLoad, Place, AskingAt
  <2>2. r[t].bin \in Bins
    BY <2>1, RequestOk DEF Asking, Serving
  <2> QED BY <1>1, <2>1, <2>2
<1>2. /\ pc[t] = "pop_load" /\ AddrOf(head[r[t].bin]) # 0
      /\ pc'[t] = "pop_next" /\ pc' = [pc EXCEPT ![t] = pc'[t]]
      /\ Typed(r'[t])
      /\ SameCall(t) /\ SameHand(t) /\ r'[t].bin = r[t].bin /\ r'[t].old = head[r[t].bin]
      /\ r'[t].nxt = r[t].nxt /\ r'[t].prev = r[t].prev /\ r'[t].cur = r[t].cur
      /\ r'[t].iter = r[t].iter
  BY <1>1, Fields, <1>e DEF PopLoad, Typed, Jobs, SameCall, SameHand, SameWalk
<1>3. Calm(t)
  BY <1>1, <1>2, <1>e DEF Calm, PopLoad, Labels, Carving, Pushing,
     SameCall, SameHand
<1>4. Hands(own, st, t)'
  BY <1>1, <1>2, <1>3, SameHands DEF Calm, HoldsSrc, SameCall
<1>5. Moving(own, st, t)'
  <2>1. AddrOf(head[r[t].bin]) \in st
    BY <1>e, <1>2, ListTop DEF HInv, Types
  <2> QED BY <1>e, <1>2, <2>1 DEF Moving, Pushing
<1>6. Place(t)'
  BY <1>1, <1>2, <1>e DEF PopLoad, Place, Initialising, Asking, Serving, Found, Served, Freeing, Leaving,
     SplitBlock, InPlace, Carving, Pushing, Target, InHand, AskingAt,
     SameCall, SameHand, SameWalk
<1>7. Fitting(el, n, t)' /\ Failing(el, n, t)'
  BY <1>2 DEF Fitting, Failing
<1> QED BY <1>3, <1>4, <1>5, <1>6, <1>7, CalmStep DEF Step

\* FitHead: the walk starts at the head.
LEMMA HFitHead ==
  ASSUME NEW own, NEW st, NEW el, NEW n, HInv(own, st, el, n), booted, LInv,
         NEW t \in Threads, FitHead(t)
  PROVE  HInv(own, st, el, n)'
<1> USE DEF Goto, control, memory, client, setup
<1>1. /\ pc[t] \in Labels /\ Typed(r[t])
      /\ Hands(own, st, t) /\ Moving(own, st, t) /\ Place(t)
      /\ Fitting(el, n, t) /\ Failing(el, n, t)
      /\ JobInPlace(t) /\ FixedBinOnly(t)
      /\ pc \in [Threads -> Labels] /\ DOMAIN r = Threads
      /\ head \in [Bins -> Nat]
      /\ word0 \in [Granules -> Int] /\ word1 \in [Granules -> Int]
  BY Here
<1>e. pc[t] = "fit_head" /\ head[oversize_bin] \in Nat
  BY <1>1, OversizeIsABin DEF FitHead
<1>2. /\ pc[t] = "fit_head"
      /\ pc'[t] = "fit" /\ pc' = [pc EXCEPT ![t] = pc'[t]]
      /\ Typed(r'[t])
      /\ SameCall(t) /\ SameHand(t) /\ r'[t].bin = r[t].bin /\ r'[t].old = r[t].old
      /\ r'[t].nxt = r[t].nxt /\ r'[t].prev = r[t].prev /\ r'[t].cur = head[oversize_bin]
      /\ r'[t].iter = r[t].iter
  BY <1>1, Fields, <1>e DEF FitHead, Typed, Jobs, SameCall, SameHand, SameWalk
<1>3. Calm(t)
  BY <1>1, <1>2, <1>e DEF Calm, FitHead, Labels, Carving, Pushing,
     SameCall, SameHand
<1>4. Hands(own, st, t)'
  BY <1>1, <1>2, <1>3, SameHands DEF Calm, HoldsSrc, SameCall
<1>5. Moving(own, st, t)'
  BY <1>1, <1>2 DEF Moving, Pushing, SameWalk
<1>6. Place(t)'
  BY <1>1, <1>2, <1>e DEF FitHead, Place, Initialising, Asking, Serving, Found, Served, Freeing, Leaving,
     SplitBlock, InPlace, Carving, Pushing, Target, InHand, AskingAt,
     SameCall, SameHand, SameWalk
<1>7. Fitting(el, n, t)' /\ Failing(el, n, t)'
  <2> DEFINE k == oversize_bin
  <2>1. n[k] \in Nat /\ head[k] = el[k][n[k]]
    BY OversizeIsABin DEF HInv, Types, Lists
  <2>2. r'[t].cur = el[k][n[k]] /\ r'[t].prev = 0
    BY <1>1, <1>e, <1>2, <2>1 DEF Place
  <2>3. n[k] \in 0 .. n[k] /\ n[k] + 1 .. n[k] = {}
    BY <2>1
  <2> QED BY <1>2, <2>2, <2>3 DEF Fitting, Failing
<1> QED BY <1>3, <1>4, <1>5, <1>6, <1>7, CalmStep DEF Step

\* FitSkip: the block is too small.
LEMMA HFitSkip ==
  ASSUME NEW own, NEW st, NEW el, NEW n, HInv(own, st, el, n), booted, LInv,
         NEW t \in Threads, FitSkip(t)
  PROVE  HInv(own, st, el, n)'
<1> USE DEF Goto, control, memory, client, setup
<1>1. /\ pc[t] \in Labels /\ Typed(r[t])
      /\ Hands(own, st, t) /\ Moving(own, st, t) /\ Place(t)
      /\ Fitting(el, n, t) /\ Failing(el, n, t)
      /\ JobInPlace(t) /\ FixedBinOnly(t)
      /\ pc \in [Threads -> Labels] /\ DOMAIN r = Threads
      /\ head \in [Bins -> Nat]
      /\ word0 \in [Granules -> Int] /\ word1 \in [Granules -> Int]
  BY Here
<1>e. pc[t] = "fit" /\ At(word1, r[t].cur) \in Int
  BY <1>1 DEF At, FitSkip
<1>2. /\ pc[t] = "fit"
      /\ pc'[t] = "fit" /\ pc' = [pc EXCEPT ![t] = pc'[t]]
      /\ Typed(r'[t])
      /\ SameCall(t) /\ SameHand(t) /\ r'[t].bin = r[t].bin /\ r'[t].old = r[t].old
      /\ r'[t].nxt = r[t].nxt /\ r'[t].prev = r[t].cur /\ r'[t].cur = At(word1, r[t].cur)
      /\ r'[t].iter = r[t].iter
  BY <1>1, Fields, <1>e DEF FitSkip, Typed, Jobs, SameCall, SameHand, SameWalk
<1>3. Calm(t)
  BY <1>1, <1>2, <1>e DEF Calm, FitSkip, Labels, Carving, Pushing,
     SameCall, SameHand
<1>4. Hands(own, st, t)'
  BY <1>1, <1>2, <1>3, SameHands DEF Calm, HoldsSrc, SameCall
<1>5. Moving(own, st, t)'
  BY <1>1, <1>2 DEF Moving, Pushing, SameWalk
<1>6. Place(t)'
  BY <1>1, <1>2, <1>e, SMTT(30) DEF FitSkip, Place, Initialising, Asking, Serving, Found, Served, Freeing, Leaving,
     SplitBlock, InPlace, Carving, Pushing, Target, InHand, AskingAt,
     SameCall, SameHand, SameWalk
<1>7. Fitting(el, n, t)' /\ Failing(el, n, t)'
  <2> DEFINE k == oversize_bin
  <2>1. k \in Bins /\ n[k] \in Nat /\ Lists(own, st, el, n) /\ el[k][0] = 0
    BY OversizeIsABin DEF HInv, Types, Lists
  <2>2. PICK j \in 0 .. n[k] :
          /\ r[t].cur = el[k][j]
          /\ \A i \in j + 1 .. n[k] : header_size(word0[el[k][i]]) < Target(t)
    BY <1>1, <1>2 DEF Fitting
  <2>3. j \in 1 .. n[k] /\ j - 1 \in 0 .. n[k] /\ j - 1 # n[k] /\ (j - 1) + 1 = j
    BY <2>1, <2>2 DEF FitSkip
  <2>4. el[k][j] \in Granules /\ word1[el[k][j]] = el[k][j - 1]
    BY <2>1, <2>3, ListBlock
  <2>5. header_size(word0[el[k][j]]) < Target(t)
    BY <2>2, <2>4 DEF FitSkip, At
  <2>6. Target(t)' = Target(t) /\ word0' = word0
    BY <1>2 DEF Target, SameCall, FitSkip
  <2>7. \A i \in j .. n[k] : header_size(word0[el[k][i]]) < Target(t)
    <3>1. \A i \in j .. n[k] : i = j \/ i \in j + 1 .. n[k]
      BY <2>2
    <3> QED BY <2>2, <2>5, <3>1
  <2>8. r'[t].cur = el[k][j - 1] /\ r'[t].prev = el[k][j]
    BY <1>2, <2>2, <2>4 DEF At
  <2>9. Fitting(el, n, t)'
    <3> SUFFICES \E i \in 0 .. n[k] :
                   /\ r'[t].cur = el[k][i]
                   /\ r'[t].prev = IF i = n[k] THEN 0 ELSE el[k][i + 1]
                   /\ \A m \in i + 1 .. n[k] : header_size(word0'[el[k][m]]) < Target(t)'
      BY DEF Fitting
    <3> USE <2>3
    <3> WITNESS j - 1 \in 0 .. n[k]
    <3> QED BY <2>3, <2>6, <2>7, <2>8
  <2> QED BY <1>2, <2>9 DEF Failing
<1> QED BY <1>3, <1>4, <1>5, <1>6, <1>7, CalmStep DEF Step

-----------------------------------------------------------------------------
(* The entries of alloc and realloc, and a refill that fails.               *)

\* AllocCall: a request.
LEMMA HAllocCall ==
  ASSUME SafeUse, NEW own, NEW st, NEW el, NEW n, HInv(own, st, el, n), booted, LInv,
         NEW t \in Threads, AllocCall(t)
  PROVE  HInv(own, st, el, n)'
<1> USE DEF Goto, control, memory, client, setup
<1>1. /\ pc[t] \in Labels /\ Typed(r[t])
      /\ Hands(own, st, t) /\ Moving(own, st, t) /\ Place(t)
      /\ Fitting(el, n, t) /\ Failing(el, n, t)
      /\ JobInPlace(t) /\ FixedBinOnly(t)
      /\ pc \in [Threads -> Labels] /\ DOMAIN r = Threads
      /\ head \in [Bins -> Nat]
      /\ word0 \in [Granules -> Int] /\ word1 \in [Granules -> Int]
  BY Here
<1>e. PICK x \in AllocSizes :
        /\ pc[t] = "idle" /\ pc' = [pc EXCEPT ![t] = AllocEntry(x)]
        /\ r' = [r EXCEPT ![t] = [@ EXCEPT !.op = "alloc", !.size = x,
                                          !.job = AllocJob(x), !.bin = RequestBin(x)]]
  BY DEF AllocCall, MayCall
<1>f. /\ x \in Requests /\ x \in Nat /\ RequestBin(x) \in Bins /\ RequestBin(x) \in Int
      /\ AllocEntry(x) = (IF RequestBin(x) = oversize_bin THEN "lock" ELSE "pop_load")
      /\ AllocJob(x) = (IF RequestBin(x) = oversize_bin THEN "over" ELSE "fast")
  <2>1. x \in Requests
    BY DEF Requests
  <2>2. \A k \in Bins : k \in Int
    BY GeoConstants, CadAssumption
  <2> QED BY <2>1, <2>2, RequestOk DEF AllocEntry, AllocJob
<1>2. /\ pc[t] = "idle" /\ r[t] = NoLocals
      /\ pc'[t] = AllocEntry(x) /\ pc' = [pc EXCEPT ![t] = pc'[t]]
      /\ Typed(r'[t])
      /\ SameHand(t) /\ r'[t].op = "alloc" /\ r'[t].job = AllocJob(x) /\ r'[t].size = x
      /\ r'[t].src = r[t].src /\ r'[t].dst = r[t].dst /\ r'[t].usable = r[t].usable
      /\ r'[t].bin = RequestBin(x) /\ r'[t].old = r[t].old /\ r'[t].nxt = r[t].nxt
      /\ r'[t].prev = r[t].prev /\ r'[t].cur = r[t].cur /\ r'[t].iter = r[t].iter
  BY <1>1, Fields, <1>e, <1>f DEF AllocJob, Place, Typed, Jobs, SameCall, SameHand, SameWalk
<1>3. Calm(t)
  BY <1>1, <1>2, <1>e, <1>f DEF Calm, AllocCall, Labels, Carving, Pushing,
     SameCall, SameHand, MayCall
<1>4. Hands(own, st, t)'
  BY <1>1, <1>2, <1>3, SameHands DEF Calm, HoldsSrc, NoLocals, NullSlice
<1>5. Moving(own, st, t)'
  BY <1>1, <1>2, <1>f, SMTT(30) DEF Moving, Pushing, SameWalk
<1>6. Place(t)'
  BY <1>1, <1>2, <1>e, <1>f DEF AllocCall, Place, Initialising, Asking, Serving, Found, Served, Freeing, Leaving,
     SplitBlock, InPlace, Carving, Pushing, Target, InHand, AskingAt,
     SameCall, SameHand, SameWalk, MayCall, NoLocals, NullSlice
<1>7. Fitting(el, n, t)' /\ Failing(el, n, t)'
  BY <1>2, <1>f DEF Fitting, Failing
<1> QED BY <1>3, <1>4, <1>5, <1>6, <1>7, CalmStep DEF Call

\* ReallocGrow: a realloc goes on as an alloc.
LEMMA HReallocGrow ==
  ASSUME SafeUse, NEW own, NEW st, NEW el, NEW n, HInv(own, st, el, n), booted, LInv,
         NEW t \in Threads, ReallocGrow(t)
  PROVE  HInv(own, st, el, n)'
<1> USE DEF Goto, control, memory, client, setup
<1>1. /\ pc[t] \in Labels /\ Typed(r[t])
      /\ Hands(own, st, t) /\ Moving(own, st, t) /\ Place(t)
      /\ Fitting(el, n, t) /\ Failing(el, n, t)
      /\ JobInPlace(t) /\ FixedBinOnly(t)
      /\ pc \in [Threads -> Labels] /\ DOMAIN r = Threads
      /\ head \in [Bins -> Nat]
      /\ word0 \in [Granules -> Int] /\ word1 \in [Granules -> Int]
  BY Here
<1>e. /\ pc[t] = "realloc_load" /\ Serving(t)
      /\ CurSize(t) - MIN_ALIGN \in Int
  <2>1. pc[t] = "realloc_load" /\ Serving(t) /\ r[t].op = "realloc" /\ r[t].src.ptr # 0 /\ HoldsSrc(t)
    BY <1>1 DEF ReallocGrow, Place, HoldsSrc
  <2>2. PICK b, size : UsedBlock(own, st, SrcId(t), b, size) /\ b = BlockOf(r[t].src)
    BY <1>1, <2>1 DEF Hands, SliceHeld
  <2>3. word0[b] = pack(size, USED) /\ Valid(b, size) /\ b \in Granules /\ b \in Int
    <3>1. Held(own, st, SrcId(t), b, b + size)
      BY <2>2 DEF UsedBlock, Block
    <3> QED BY <2>2, <3>1, HeldFacts DEF UsedBlock
  <2>4. size \in Nat /\ size % 16 = 0
    BY <2>3, ValidFacts, CadAssumption
  <2>5. CurSize(t) = size
    BY <2>2, <2>3, <2>4, HeaderFacts DEF CurSize, At
  <2>6. MIN_ALIGN \in Int
    BY HeapBounds
  <2> QED BY <2>1, <2>4, <2>5, <2>6
<1>f. /\ RequestBin(r[t].size) \in Bins /\ RequestBin(r[t].size) \in Int
      /\ AllocEntry(r[t].size) = (IF RequestBin(r[t].size) = oversize_bin THEN "lock" ELSE "pop_load")
      /\ AllocJob(r[t].size) = (IF RequestBin(r[t].size) = oversize_bin THEN "over" ELSE "fast")
  <2>1. r[t].size \in Requests
    BY <1>e DEF Serving
  <2>2. \A k \in Bins : k \in Int
    BY GeoConstants, CadAssumption
  <2> QED BY <2>1, <2>2, RequestOk DEF AllocEntry, AllocJob
<1>2. /\ pc[t] = "realloc_load" /\ r[t].job = "none"
      /\ pc'[t] = AllocEntry(r[t].size) /\ pc' = [pc EXCEPT ![t] = pc'[t]]
      /\ Typed(r'[t])
      /\ SameHand(t) /\ r'[t].op = r[t].op /\ r'[t].job = AllocJob(r[t].size)
      /\ r'[t].size = r[t].size /\ r'[t].src = r[t].src /\ r'[t].dst = r[t].dst
      /\ r'[t].usable = CurSize(t) - MIN_ALIGN /\ r'[t].bin = RequestBin(r[t].size)
      /\ r'[t].old = r[t].old /\ r'[t].nxt = r[t].nxt /\ r'[t].prev = r[t].prev
      /\ r'[t].cur = r[t].cur /\ r'[t].iter = r[t].iter
  BY <1>1, Fields, <1>e, <1>f DEF ReallocGrow, AllocJob, Place, Serving, Typed, Jobs, SameCall, SameHand, SameWalk
<1>3. Calm(t)
  BY <1>1, <1>2, <1>f DEF Calm, ReallocGrow, Labels, Carving, Pushing,
     SameCall, SameHand
<1>4. Hands(own, st, t)'
  BY <1>1, <1>2, <1>f, <1>3, SameHands DEF Calm, HoldsSrc
<1>5. Moving(own, st, t)'
  BY <1>1, <1>2, <1>f, SMTT(30) DEF Moving, Pushing, SameWalk
<1>6. Place(t)'
  <2>1. \/ pc'[t] = "lock" /\ r'[t].job = "over" /\ r'[t].bin = oversize_bin
        \/ pc'[t] = "pop_load" /\ r'[t].job = "fast" /\ r'[t].bin # oversize_bin
    BY <1>2, <1>f
  <2>2. /\ r[t].op = "realloc" /\ r[t].size \in Requests /\ r[t].dst = NullSlice
        /\ r[t].blk = 0 /\ r[t].iter = 0 /\ r[t].prev = 0 /\ r[t].src.ptr # 0
    BY <1>1, <1>2, <1>e DEF Place, Serving
  <2>3. /\ r'[t].op = "realloc" /\ r'[t].size = r[t].size /\ r'[t].dst = NullSlice
        /\ r'[t].blk = 0 /\ r'[t].iter = 0 /\ r'[t].prev = 0 /\ r'[t].src.ptr # 0
    BY <1>2, <2>2 DEF SameHand
  <2>4. r'[t].dst.ptr = 0
    BY <2>3 DEF NullSlice
  <2>5. Asking(t)'
    BY <1>2, <2>1, <2>2, <2>3 DEF Asking, Serving
  <2>6. ~Carving(t)' /\ ~Pushing(t)' /\ ~Initialising(t)'
    BY <2>1 DEF Carving, Pushing, Initialising
  <2> QED BY <2>1, <2>3, <2>4, <2>5, <2>6 DEF Place
<1>7. Fitting(el, n, t)' /\ Failing(el, n, t)'
  BY <1>2, <1>f DEF Fitting, Failing
<1> QED BY <1>3, <1>4, <1>5, <1>6, <1>7, CalmStep DEF Step

-----------------------------------------------------------------------------
(* Refilling from the bump region.                                         *)

\* What is carved for a request, when the sums do not wrap.
LEMMA RefillFacts ==
  ASSUME SafeUse, NEW own, NEW st, Room(own, st), NEW x \in Requests
  PROVE  LET align == align_of_bin(RequestBin(x))
             aligned == align_up(bump, align)
             size == request_block_size(x)
         IN /\ aligned \in Nat /\ bump <= aligned /\ aligned % MIN_ALIGN = 0
            /\ aligned + size \in Nat /\ (aligned + size) % MIN_ALIGN = 0
            /\ Wrap(aligned + size) = aligned + size
            /\ Valid(aligned, size)
<1> DEFINE align == align_of_bin(RequestBin(x))
           aligned == align_up(bump, align)
           size == request_block_size(x)
<1>1. /\ WORD \in Nat \ {0} /\ MIN_ALIGN \in Nat \ {0} /\ heap_end \in Nat /\ EXP_CEIL \in Nat \ {0}
  BY HeapBounds, GeoConstants, CadAssumption
<1>2. bump \in Nat /\ bump <= heap_end /\ heap_end + 2 * EXP_CEIL <= WORD
  BY DEF Room, SafeUse
<1>3. /\ x \in Nat /\ heap_end + x + 2 * MIN_ALIGN + EXP_CEIL <= WORD
      /\ RequestBin(x) \in Bins /\ size \in Nat /\ size % MIN_ALIGN = 0
      /\ size <= EXP_CEIL \/ size < x + 2 * MIN_ALIGN
      /\ \A b \in Int : b % align = 0 => Valid(b, size)
  BY RequestOk
<1>4. align \in Nat \ {0} /\ align <= EXP_CEIL /\ align % MIN_ALIGN = 0
  BY <1>3, GeoAlign, CadAssumption
<1> HIDE DEF align, size
<1>5. bump + align <= WORD
  BY <1>1, <1>2, <1>4
<1>6. aligned \in Nat /\ aligned % align = 0 /\ bump <= aligned /\ aligned < bump + align
  BY <1>2, <1>4, <1>5, AlignUp
<1> HIDE DEF aligned
<1>7. aligned + size \in Nat /\ aligned + size < WORD
  BY <1>1, <1>2, <1>3, <1>4, <1>6
<1>8. Wrap(aligned + size) = aligned + size
  <2>1. aligned + size \in 0 .. WORD - 1
    BY <1>1, <1>7
  <2> QED BY <1>1, <2>1, SmallMod DEF Wrap
<1>9. aligned % MIN_ALIGN = 0
  <2>1. aligned \in Int
    BY <1>6
  <2> QED BY <1>1, <1>4, <1>6, <2>1, ModTrans
<1>10. (aligned + size) % MIN_ALIGN = 0
  <2>1. aligned \in Int /\ size \in Int
    BY <1>3, <1>6
  <2> QED BY <1>1, <1>3, <1>9, <2>1, ModSum
<1>11. Valid(aligned, size)
  BY <1>3, <1>6
<1> QED BY <1>6, <1>7, <1>8, <1>9, <1>10, <1>11 DEF aligned, align, size

\* Both ways to carve.
RefillStep(t) ==
  LET aligned == align_up(bump, align_of_bin(RequestBin(r[t].size)))
  IN /\ IF HasRoom(aligned, Target(t))
        THEN /\ r' = [r EXCEPT ![t].blk = aligned, ![t].top = Wrap(aligned + Target(t)),
                               ![t].lo = bump, ![t].end = aligned, ![t].prev = 0]
             /\ Goto(t, "gap")
        ELSE r' = [r EXCEPT ![t].prev = 0] /\ Goto(t, "unlock")
     /\ UNCHANGED <<control, memory, client>>

(* What a refill does, in those words.                                      *)
LEMMA RefillSame ==
  ASSUME SafeUse, NEW own, NEW st, NEW el, NEW n, HInv(own, st, el, n), LInv,
         NEW t \in Threads, RefillFixed(t) \/ RefillOversize(t)
  PROVE  /\ RefillStep(t) /\ Asking(t) /\ Critical(t)
         /\ pc[t] \in {"refill", "fit"} /\ r[t].job \in {"slow", "over"}
         /\ r[t].job = "over" => \A i \in 1 .. n[oversize_bin] :
                                   header_size(word0[el[oversize_bin][i]]) < Target(t)
<1>1. Place(t) /\ JobInPlace(t) /\ Fitting(el, n, t)
  BY Here
<1>2. Asking(t) /\ pc[t] \in {"refill", "fit"} /\ r[t].job \in {"slow", "over"} /\ Critical(t)
      /\ (r[t].job = "over" <=> pc[t] = "fit")
  BY <1>1 DEF Place, AskingAt, JobInPlace, RefillFixed, RefillOversize, Critical
<1>3. /\ r[t].size \in Requests /\ r[t].bin = RequestBin(r[t].size)
      /\ (r[t].job = "over") = (r[t].bin = oversize_bin)
  BY <1>2 DEF Asking, Serving
<1>4. CASE RefillFixed(t)
  <2>1. r[t].job = "slow" /\ Refill(t, align_of_bin(r[t].bin), bin_class(r[t].bin))
    BY <1>4 DEF RefillFixed
  <2>2. bin_class(r[t].bin) = Target(t)
    BY <1>3, <2>1, RequestOk DEF Target
  <2> QED BY <1>2, <1>3, <1>4, <2>1, <2>2 DEF RefillFixed, RefillStep, Refill
<1>5. CASE RefillOversize(t)
  <2>1. r[t].job = "over" /\ pc[t] = "fit" /\ r[t].cur = 0 /\ Refill(t, EXP_CEIL, Target(t))
    BY <1>2, <1>5 DEF RefillOversize
  <2>2. align_of_bin(r[t].bin) = EXP_CEIL
    BY <1>3, <2>1, GeoAlign, OversizeIsABin, CadAssumption
  <2> DEFINE k == oversize_bin
  <2>3. PICK j \in 0 .. n[k] :
          /\ r[t].cur = el[k][j]
          /\ \A i \in j + 1 .. n[k] : header_size(word0[el[k][i]]) < Target(t)
    BY <1>1, <2>1 DEF Fitting
  <2>4. n[k] \in Nat /\ Lists(own, st, el, n) /\ k \in Bins
    BY OversizeIsABin DEF HInv, Types
  <2>5. j = 0
    <3>1. j # 0 => j \in 1 .. n[k]
      BY <2>4
    <3>2. j # 0 => el[k][j] # 0
      BY <2>4, <3>1, ListBlock
    <3> QED BY <2>1, <2>3, <3>2
  <2>6. \A i \in 1 .. n[k] : header_size(word0[el[k][i]]) < Target(t)
    BY <2>3, <2>5
  <2> QED BY <1>2, <1>3, <1>5, <2>1, <2>2, <2>6 DEF RefillOversize, RefillStep, Refill
<1> QED BY <1>4, <1>5

\* A refill without room.
LEMMA HRefillFails ==
  ASSUME SafeUse, NEW own, NEW st, NEW el, NEW n, HInv(own, st, el, n), booted, LInv,
         NEW t \in Threads, (RefillFixed(t) \/ RefillOversize(t)), r'[t].blk = 0
  PROVE  HInv(own, st, el, n)'
<1> USE DEF Goto, control, memory, client, setup
<1>1. /\ pc[t] \in Labels /\ Typed(r[t])
      /\ Hands(own, st, t) /\ Moving(own, st, t) /\ Place(t)
      /\ Fitting(el, n, t) /\ Failing(el, n, t)
      /\ JobInPlace(t) /\ FixedBinOnly(t)
      /\ pc \in [Threads -> Labels] /\ DOMAIN r = Threads
      /\ head \in [Bins -> Nat]
      /\ word0 \in [Granules -> Int] /\ word1 \in [Granules -> Int]
  BY Here
<1>e. /\ RefillStep(t) /\ Asking(t) /\ Critical(t)
      /\ pc[t] \in {"refill", "fit"} /\ r[t].job \in {"slow", "over"}
      /\ r[t].job = "over" => \A i \in 1 .. n[oversize_bin] :
                               header_size(word0[el[oversize_bin][i]]) < Target(t)
      /\ ~HasRoom(align_up(bump, align_of_bin(RequestBin(r[t].size))), Target(t))
  <2> DEFINE aligned == align_up(bump, align_of_bin(RequestBin(r[t].size)))
  <2>1. /\ RefillStep(t) /\ Asking(t) /\ Critical(t)
        /\ pc[t] \in {"refill", "fit"} /\ r[t].job \in {"slow", "over"}
        /\ r[t].job = "over" => \A i \in 1 .. n[oversize_bin] :
                                 header_size(word0[el[oversize_bin][i]]) < Target(t)
    BY RefillSame
  <2>2. aligned \in Nat /\ bump <= aligned /\ bump \in Nat /\ HeapStart <= bump
    <3>1. r[t].size \in Requests /\ Room(own, st)
      BY <2>1 DEF Asking, Serving, HInv
    <3> QED BY <3>1, RefillFacts DEF Room
  <2>3. aligned # 0
    BY <2>2, HeapBounds
  <2>4. HasRoom(aligned, Target(t)) => r'[t].blk = aligned
    BY <1>1, <2>1, Fields DEF RefillStep, Typed
  <2> QED BY <2>1, <2>3, <2>4
<1>2. /\ pc[t] \in {"refill", "fit"}
      /\ pc'[t] = "unlock" /\ pc' = [pc EXCEPT ![t] = pc'[t]]
      /\ Typed(r'[t])
      /\ SameCall(t) /\ SameHand(t) /\ r'[t].bin = r[t].bin /\ r'[t].old = r[t].old
      /\ r'[t].nxt = r[t].nxt /\ r'[t].prev = 0 /\ r'[t].cur = r[t].cur /\ r'[t].iter = r[t].iter
  BY <1>1, Fields, <1>e DEF RefillStep, Asking, Typed, Jobs, SameCall, SameHand, SameWalk
<1>3. Calm(t)
  BY <1>1, <1>2, <1>e DEF Calm, RefillStep, Labels, Carving, Pushing,
     SameCall, SameHand
<1>4. Hands(own, st, t)'
  BY <1>1, <1>2, <1>3, SameHands DEF Calm, HoldsSrc, SameCall
<1>5. Moving(own, st, t)'
  BY <1>1, <1>2 DEF Moving, Pushing, SameWalk
<1>6. Place(t)'
  BY <1>1, <1>2, <1>e DEF Place, Initialising, Asking, Serving, Found, Served, Freeing, Leaving,
     SplitBlock, InPlace, Carving, Pushing, Target, InHand, AskingAt,
     SameCall, SameHand, SameWalk
<1>7. Fitting(el, n, t)' /\ Failing(el, n, t)'
  <2>1. r[t].size \in Requests /\ Room(own, st)
    BY <1>e DEF Asking, Serving, HInv
  <2> DEFINE align == align_of_bin(RequestBin(r[t].size))
  <2>2. /\ Wrap(align_up(bump, align) + Target(t)) = align_up(bump, align) + Target(t)
        /\ align_up(bump, align) + Target(t) \in Nat
    BY <2>1, RefillFacts DEF Target
  <2>3. align_up(bump, align) + Target(t) > heap_end
    BY <1>e, <2>2, HeapBounds DEF HasRoom
  <2>4. align = (IF r[t].job = "over" THEN EXP_CEIL ELSE align_of_bin(r[t].bin))
    BY <1>e, GeoAlign, OversizeIsABin, CadAssumption DEF Asking
  <2>5. /\ Target(t)' = Target(t) /\ word0' = word0 /\ bump' = bump
        /\ r'[t].job = r[t].job /\ r'[t].bin = r[t].bin
    BY <1>2, <1>e DEF Target, SameCall, RefillStep
  <2> QED BY <1>2, <1>e, <2>3, <2>4, <2>5 DEF Fitting, Failing
<1> QED BY <1>3, <1>4, <1>5, <1>6, <1>7, CalmStep DEF Step

-----------------------------------------------------------------------------
(* A refill that carves.                                                    *)

-----------------------------------------------------------------------------
(* The steps that move memory from one owner to another.                   *)

\* What is left to show of such a step of t, which touches the owners in T.
Moved(T, own, st, el, n, own2, st2, el2, n2, t) ==
  /\ Frame(T, own, st, own2, st2)
  /\ \A u \in Threads \ {t} : MyIds(u) \cap T = {}
  /\ \/ Critical(t)
     \/ /\ bump' = bump
        /\ el2[oversize_bin] = el[oversize_bin] /\ n2[oversize_bin] = n[oversize_bin]
        /\ \A i \in 1 .. n[oversize_bin] : BinId(oversize_bin, el[oversize_bin][i]) \notin T
  /\ pc' = [pc EXCEPT ![t] = pc'[t]] /\ pc'[t] \in Labels /\ Typed(r'[t])
  /\ word0' \in [Granules -> Int] /\ word1' \in [Granules -> Int] /\ head' \in [Bins -> Nat]
  /\ live' \subseteq SliceSet /\ st2 \subseteq Granules \ {0}
  /\ n2 \in [Bins -> Nat] /\ el2 \in [Bins -> [Nat -> Int]]

(* A step that moves the regions of T: what is left to show.                *)
LEMMA Busy ==
  ASSUME NEW own, NEW st, NEW el, NEW n, HInv(own, st, el, n), booted, LInv,
         NEW t \in Threads, Call(t) \/ Step(t),
         NEW T, NEW own2, NEW st2, NEW el2, NEW n2,
         Moved(T, own, st, el, n, own2, st2, el2, n2, t),
         Lists(own2, st2, el2, n2)', LiveSlices(own2, st2)', Room(own2, st2)',
         Hands(own2, st2, t)', Moving(own2, st2, t)', Place(t)',
         Fitting(el2, n2, t)', Failing(el2, n2, t)'
  PROVE  HInv(own2, st2, el2, n2)'
<1>1. Alone(t) /\ DOMAIN pc' = Threads /\ DOMAIN r' = Threads
  BY StepAlone DEF LInv
<1>2. \A u \in Threads \ {t} : Thread(own2, st2, el2, n2, u)'
  BY <1>1, FrameOthers DEF Moved
<1>3. Types(own2, st2, el2, n2)'
  <2>1. Types(own, st, el, n)
    BY DEF HInv
  <2> QED BY <1>1, <2>1, FrameTypes DEF Moved
<1>4. Thread(own2, st2, el2, n2, t)'
  BY DEF Thread
<1> QED BY <1>2, <1>3, <1>4 DEF HInv

\* Another owner for the granules of a region.
Give(own, id, lo, hi) == [a \in Granules |-> IF lo <= a /\ a < hi THEN id ELSE own[a]]

(* The owner has the region.                                                *)
LEMMA GiveHeld ==
  ASSUME NEW own, NEW st, NEW id, NEW lo \in Int, NEW hi \in Int,
         lo % MIN_ALIGN = 0, hi % MIN_ALIGN = 0, HeapStart <= lo, lo < hi, hi <= heap_end,
         \A a \in Granules : lo < a /\ a < hi => a \notin st
  PROVE  Held(Give(own, id, lo, hi), st, id, lo, hi)
<1>1. \A a \in Granules : a \in Int
  BY HeapBounds
<1>2. \A a \in Granules : lo <= a /\ a # lo => lo < a
  BY <1>1
<1> QED BY <1>2 DEF Held, Give

(* A refill that takes its block off the bump region.                       *)
LEMMA HRefillCarves ==
  ASSUME SafeUse, NEW own, NEW st, NEW el, NEW n, HInv(own, st, el, n), booted, LInv,
         NEW t \in Threads, RefillFixed(t) \/ RefillOversize(t), r'[t].blk # 0
  PROVE  \E own2, st2 : HInv(own2, st2, el, n)'
<1> USE DEF Goto, control, memory, client, setup
<1>1. /\ pc[t] \in Labels /\ Typed(r[t])
      /\ Hands(own, st, t) /\ Moving(own, st, t) /\ Place(t)
      /\ JobInPlace(t) /\ FixedBinOnly(t)
      /\ pc \in [Threads -> Labels] /\ DOMAIN r = Threads
      /\ head \in [Bins -> Nat]
      /\ word0 \in [Granules -> Int] /\ word1 \in [Granules -> Int]
  BY Here
<1>2. /\ RefillStep(t) /\ Asking(t) /\ Critical(t)
      /\ pc[t] \in {"refill", "fit"} /\ r[t].job \in {"slow", "over"}
  BY RefillSame
<1>3. /\ Types(own, st, el, n) /\ Lists(own, st, el, n) /\ LiveSlices(own, st) /\ Room(own, st)
  BY DEF HInv
<1>4. r[t].size \in Requests /\ Serving(t) /\ r[t].blk = 0 /\ r[t].iter = 0
      /\ (r[t].job = "over") = (RequestBin(r[t].size) = oversize_bin)
  BY <1>2 DEF Asking, Serving
<1>5. PICK lo, at, to :
        /\ lo = bump /\ at = align_up(bump, align_of_bin(RequestBin(r[t].size)))
        /\ to = at + Target(t)
  OBVIOUS
<1>6. /\ at \in Nat /\ lo <= at /\ at % MIN_ALIGN = 0
      /\ to \in Nat /\ to % MIN_ALIGN = 0 /\ Wrap(to) = to
      /\ Valid(at, Target(t)) /\ Target(t) \in Nat /\ at < to
  <2>1. Valid(at, Target(t))
    BY <1>3, <1>4, <1>5, RefillFacts DEF Target
  <2>2. /\ at \in Nat /\ lo <= at /\ at % MIN_ALIGN = 0
        /\ to \in Nat /\ to % MIN_ALIGN = 0 /\ Wrap(to) = to
    BY <1>3, <1>4, <1>5, RefillFacts DEF Target
  <2>3. Target(t) \in Nat /\ Target(t) >= 2 * MIN_ALIGN
    BY <2>1, <2>2, ValidFacts, CadAssumption
  <2> QED BY <1>5, <2>1, <2>2, <2>3, HeapBounds
<1>7. lo \in Nat /\ lo % MIN_ALIGN = 0 /\ HeapStart <= lo /\ lo <= heap_end
  BY <1>3, <1>5 DEF Room
<1>8. /\ HasRoom(at, Target(t)) /\ to <= heap_end
      /\ pc'[t] = "gap" /\ pc' = [pc EXCEPT ![t] = pc'[t]] /\ Typed(r'[t])
      /\ SameCall(t) /\ r'[t].blk = at /\ r'[t].top = to /\ r'[t].lo = lo /\ r'[t].end = at
      /\ r'[t].bin = r[t].bin /\ r'[t].old = r[t].old /\ r'[t].nxt = r[t].nxt
      /\ r'[t].prev = 0 /\ r'[t].cur = r[t].cur /\ r'[t].iter = r[t].iter
  <2>1. HasRoom(at, Target(t))
    BY <1>1, <1>2, <1>4, <1>5, Fields DEF RefillStep, Typed
  <2>2. to <= heap_end
    BY <1>5, <1>6, <2>1 DEF HasRoom
  <2>3. /\ r' = [r EXCEPT ![t].blk = at, ![t].top = to, ![t].lo = lo, ![t].end = at, ![t].prev = 0]
        /\ pc' = [pc EXCEPT ![t] = "gap"]
    BY <1>2, <1>5, <1>6, <2>1 DEF RefillStep
  <2> QED BY <1>1, <1>6, <1>7, <2>1, <2>2, <2>3, Fields DEF Typed, Jobs, SameCall
<1>9. \A u \in Threads : ~Carving(u)
  <2>1. \A u \in Threads : Carving(u) => Critical(u)
    BY Here DEF Carving, Critical, Pushing
  <2>2. ~Carving(t)
    BY <1>2 DEF Carving, Pushing
  <2> QED BY <1>2, <2>1, <2>2 DEF LInv, LockExcludes
<1>10. \A a \in Granules : lo <= a => own[a] = BumpId /\ a \notin st
  BY <1>3, <1>5, <1>9 DEF Room
<1> DEFINE T == {BumpId}
           own1 == Give(own, GapId(t), lo, at)
           own2 == Give(own1, BlockId(t), at, to)
           st2 == st \cup {at}
<1>11. at \in Granules \ {0} /\ \A a \in Granules : a \in Nat
  BY <1>6, <1>7, <1>8, HeapBounds, GranuleAt
<1>12. /\ head' = head /\ bump' = bump /\ word0' = word0 /\ word1' = word1 /\ live' = live
  BY <1>2 DEF RefillStep
<1>a. \A a \in Granules :
        /\ own2[a] = IF at <= a /\ a < to THEN BlockId(t) ELSE own1[a]
        /\ own1[a] = IF lo <= a /\ a < at THEN GapId(t) ELSE own[a]
  BY DEF Give
<1> HIDE DEF own1, own2
<1>13. Frame(T, own, st, own2, st2)
  <2>1. ASSUME NEW a \in Granules, own[a] \notin T
        PROVE  own2[a] = own[a] /\ (a \in st2 => a \in st)
    <3>1. a < lo /\ a < at /\ a \in Nat
      BY <1>6, <1>7, <1>10, <1>11, <2>1
    <3>2. ~(at <= a /\ a < to) /\ ~(lo <= a /\ a < at) /\ a # at
      BY <1>6, <1>7, <3>1
    <3>3. own2[a] = own1[a] /\ own1[a] = own[a]
      BY <1>a, <3>2
    <3> QED BY <3>2, <3>3
  <2> QED BY <1>12, <2>1 DEF Frame
<1>14. \A u : MyIds(u) \cap T = {}
  BY IdsDiffer
<1>15. Held(own2, st2, BlockId(t), at, to)
  <2>1. \A a \in Granules : at < a /\ a < to => a \notin st2
    BY <1>6, <1>7, <1>10, <1>11
  <2>2. HeapStart <= at /\ at \in Int /\ to \in Int
    BY <1>6, <1>7, HeapBounds
  <2> QED BY <1>6, <1>8, <2>1, <2>2, GiveHeld DEF own2
<1>16. lo < at => Held(own2, st2, GapId(t), lo, at)
  <2> SUFFICES ASSUME lo < at PROVE Held(own2, st2, GapId(t), lo, at)
    OBVIOUS
  <2>1. \A a \in Granules : lo < a /\ a < at => a \notin st2
    BY <1>6, <1>7, <1>10, <1>11
  <2>2. Held(own1, st2, GapId(t), lo, at)
    <3>1. lo \in Int /\ at \in Int /\ at <= heap_end
      BY <1>6, <1>7, <1>8, HeapBounds
    <3> QED BY <1>6, <1>7, <2>1, <3>1, GiveHeld DEF own1
  <2>3. \A a \in Granules : lo <= a /\ a < at => own2[a] = own1[a]
    BY <1>6, <1>11, <1>a
  <2> HIDE DEF st2
  <2> QED BY <2>2, <2>3 DEF Held
<1>17. Hands(own2, st2, t)'
  <2>1. HoldsSrc(t)' => SliceHeld(own2, st2, SrcId(t), r[t].src)'
    <3>1. HoldsSrc(t)' => HoldsSrc(t)
      BY <1>8 DEF HoldsSrc, SameCall
    <3>2. HoldsSrc(t) => SliceHeld(own, st, SrcId(t), r[t].src)
      BY <1>1 DEF Hands
    <3>3. SrcId(t) \notin T
      BY IdsDiffer DEF MyIds
    <3>4. PICK s : s = r[t].src
      OBVIOUS
    <3>5. SliceHeld(own, st, SrcId(t), s) => SliceHeld(own2, st2, SrcId(t), s)'
      BY <1>13, <3>3, FrameSlice
    <3> QED BY <1>8, <3>1, <3>2, <3>4, <3>5 DEF SameCall, SliceHeld, UsedBlock
  <2>2. r'[t].dst = NullSlice /\ r'[t].dst.ptr = 0
    BY <1>4, <1>8 DEF SameCall, Serving, NullSlice
  <2>3. Block(own2, st2, BlockId(t), at, to)
    BY <1>15 DEF Block
  <2>4. Carving(t)'
    BY <1>8 DEF Carving
  <2>5. r'[t].src = r[t].src
    BY <1>8 DEF SameCall
  <2> QED BY <1>8, <1>16, <2>1, <2>2, <2>3, <2>4, <2>5 DEF Hands
<1>18. Moving(own2, st2, t)'
  BY <1>8 DEF Moving, Pushing
<1>19. Place(t)'
  BY <1>1, <1>2, <1>4, <1>5, <1>6, <1>7, <1>8 DEF Place, Initialising, Asking, Serving, Found, Served,
     Freeing, Leaving, SplitBlock, InPlace, Carving, Pushing, Target, InHand, AskingAt, SameCall
<1>20. Fitting(el, n, t)' /\ Failing(el, n, t)'
  BY <1>8 DEF Fitting, Failing
<1>21. Lists(own2, st2, el, n)'
  <2>1. \A k, b : BinId(k, b) \notin T
    BY IdsDiffer
  <2> QED BY <1>3, <1>12, <1>13, <2>1, KeepLists
<1>22. LiveSlices(own2, st2)'
  <2>1. \A s : LiveId(s) \notin T
    BY IdsDiffer
  <2> QED BY <1>3, <1>12, <1>13, <2>1, KeepLive
<1>23. Room(own2, st2)'
  <2>1. Carving(t)'
    BY <1>8 DEF Carving
  <2>2. \A u \in Threads \ {t} : ~Carving(u)'
    <3>1. Alone(t)
      BY StepAlone DEF LInv, Step
    <3> QED BY <1>9, <3>1 DEF Alone, Carving, Pushing
  <2>3. ASSUME NEW a \in Granules, to <= a PROVE own2[a] = BumpId /\ a \notin st2
    <3>1. a # at /\ lo <= a /\ ~(a < at) /\ ~(a < to)
      BY <1>6, <1>7, <1>11, <2>3
    <3> QED BY <1>10, <1>a, <3>1
  <2> HIDE DEF st2
  <2>4. \A a \in Granules : bump' <= a /\ r'[t].top <= a => own2[a] = BumpId /\ a \notin st2
    BY <1>8, <1>12, <2>3
  <2>5. \A u \in Threads : Carving(u)' => bump' <= r'[u].lo
    BY <1>5, <1>7, <1>8, <1>12, <2>2
  <2> QED BY <1>5, <1>7, <1>12, <2>1, <2>4, <2>5 DEF Room
<1>24. Moved(T, own, st, el, n, own2, st2, el, n, t)
  <2>1. pc'[t] \in Labels
    BY <1>8 DEF Labels
  <2>2. /\ word0' \in [Granules -> Int] /\ word1' \in [Granules -> Int] /\ head' \in [Bins -> Nat]
        /\ live' \subseteq SliceSet /\ n \in [Bins -> Nat] /\ el \in [Bins -> [Nat -> Int]]
        /\ st2 \subseteq Granules \ {0}
    BY <1>3, <1>11, <1>12 DEF Types
  <2> HIDE DEF st2, T
  <2> QED BY <1>2, <1>8, <1>13, <1>14, <2>1, <2>2 DEF Moved
<1>25. HInv(own2, st2, el, n)'
  <2> HIDE DEF st2, T
  <2> QED BY <1>17, <1>18, <1>19, <1>20, <1>21, <1>22, <1>23, <1>24, Busy DEF Step
<1> QED BY <1>25

-----------------------------------------------------------------------------
(* Steps that rename an owner.                                              *)

-----------------------------------------------------------------------------
(* The steps that change no list and no bump pointer.                      *)

\* Such a step of t touches memory of its own, or of the slice it was given.
Local(T, own, st, own2, st2, t) ==
  /\ Frame(T, own, st, own2, st2)
  /\ BumpId \notin T /\ \A k, b : BinId(k, b) \notin T
  /\ \A u \in Threads \ {t} : MyIds(u) \cap T = {}
  /\ head' = head /\ bump' = bump
  /\ pc' = [pc EXCEPT ![t] = pc'[t]] /\ pc'[t] \in Labels /\ Typed(r'[t])
  /\ word0' \in [Granules -> Int] /\ word1' \in [Granules -> Int]
  /\ live' \subseteq SliceSet /\ st2 \subseteq Granules \ {0}
  /\ Carving(t)' <=> Carving(t)
  /\ Carving(t) => r'[t].lo = r[t].lo /\ r'[t].top = r[t].top

(* Such a step: what is left to show.                                       *)
LEMMA LocalStep ==
  ASSUME NEW own, NEW st, NEW el, NEW n, HInv(own, st, el, n), booted, LInv,
         NEW t \in Threads, Call(t) \/ Step(t),
         NEW T, NEW own2, NEW st2, Local(T, own, st, own2, st2, t),
         LiveSlices(own2, st2)', Hands(own2, st2, t)', Moving(own2, st2, t)', Place(t)',
         Fitting(el, n, t)', Failing(el, n, t)'
  PROVE  HInv(own2, st2, el, n)'
<1>1. /\ Types(own, st, el, n) /\ Lists(own, st, el, n) /\ Room(own, st)
  BY DEF HInv
<1>2. Alone(t)
  BY StepAlone DEF LInv
<1>3. Lists(own2, st2, el, n)'
  BY <1>1, KeepLists DEF Local
<1>4. Room(own2, st2)'
  BY <1>1, <1>2, KeepRoom DEF Local
<1>5. Moved(T, own, st, el, n, own2, st2, el, n, t)
  BY <1>1 DEF Moved, Local, Types
<1> QED BY <1>3, <1>4, <1>5, Busy

\* Another name for an owner.
Rename(own, old, new) == [a \in Granules |-> IF own[a] = old THEN new ELSE own[a]]

(* The new owner holds what the old one held.                               *)
LEMMA RenameFacts ==
  ASSUME NEW own, NEW st, NEW old, NEW new
  PROVE  /\ \A a \in Granules : own[a] # old => Rename(own, old, new)[a] = own[a]
         /\ \A lo, hi : Held(own, st, old, lo, hi) => Held(Rename(own, old, new), st, new, lo, hi)
         /\ \A lo, hi : Block(own, st, old, lo, hi) => Block(Rename(own, old, new), st, new, lo, hi)
<1>1. \A lo, hi : Held(own, st, old, lo, hi) => Held(Rename(own, old, new), st, new, lo, hi)
  BY DEF Held, Rename
<1> QED BY <1>1 DEF Rename, Block

\* What a slice says of its block.
LEMMA SliceFacts ==
  ASSUME NEW own, NEW st, NEW id, NEW s \in SliceSet, SliceHeld(own, st, id, s)
  PROVE  LET b == BlockOf(s)
             size == s.len + MIN_ALIGN
         IN /\ b \in Granules /\ b \in Nat \ {0} /\ b % MIN_ALIGN = 0 /\ b \in st
            /\ size \in Nat /\ size % MIN_ALIGN = 0 /\ size % 16 = 0 /\ s.len \in Nat
            /\ b + size <= heap_end
            /\ s.ptr = b + MIN_ALIGN /\ s.ptr \in Nat \ {0} /\ s = SliceOf(b, size)
            /\ Valid(b, size) /\ Block(own, st, id, b, b + size)
            /\ word0[b] = pack(size, USED) /\ At(word0, b) = word0[b]
            /\ header_size(At(word0, b)) = size /\ ~header_is_free(At(word0, b))
<1>1. PICK b, size : b = BlockOf(s) /\ size = s.len + MIN_ALIGN
  OBVIOUS
<1>2. Block(own, st, id, b, b + size) /\ Valid(b, size) /\ word0[b] = pack(size, USED)
  BY <1>1 DEF SliceHeld, UsedBlock
<1>3. Held(own, st, id, b, b + size) /\ b \in st
  BY <1>2 DEF Block
<1>4. b \in Granules /\ b \in Nat \ {0} /\ b % MIN_ALIGN = 0 /\ b + size <= heap_end
  BY <1>3, HeldFacts
<1>5. size \in Nat /\ size % MIN_ALIGN = 0 /\ size % 16 = 0 /\ size >= 2 * MIN_ALIGN
  BY <1>2, <1>4, ValidFacts, CadAssumption
<1>6. header_size(word0[b]) = size /\ ~header_is_free(word0[b]) /\ At(word0, b) = word0[b]
  BY <1>2, <1>4, <1>5, HeaderFacts DEF At
<1>7. s.ptr \in Int /\ s.len \in Int /\ DOMAIN s = {"ptr", "len"} /\ MIN_ALIGN \in Nat \ {0}
      /\ s = [ptr |-> s.ptr, len |-> s.len]
  BY HeapBounds DEF SliceSet
<1>8. s.ptr = b + MIN_ALIGN /\ s.ptr \in Nat \ {0} /\ s.len = size - MIN_ALIGN /\ s.len \in Nat
  BY <1>1, <1>4, <1>5, <1>7 DEF BlockOf
<1>9. s = SliceOf(b, size)
  BY <1>7, <1>8 DEF SliceOf
<1> QED BY <1>1, <1>2, <1>3, <1>4, <1>5, <1>6, <1>8, <1>9

\* The slice of a stamped block.
LEMMA SliceMade ==
  ASSUME NEW own, NEW st, NEW id, NEW b, NEW size \in Nat,
         Block(own, st, id, b, b + size), Valid(b, size), word0[b] = pack(size, USED)
  PROVE  /\ SliceHeld(own, st, id, SliceOf(b, size)) /\ SliceOf(b, size) \in SliceSet
         /\ SliceOf(b, size).ptr # 0 /\ SliceOf(b, size).ptr = b + MIN_ALIGN
         /\ SliceOf(b, size).len = size - MIN_ALIGN
         /\ header_size(At(word0, b)) = size
<1>1. Held(own, st, id, b, b + size)
  BY DEF Block
<1>2. b \in Granules /\ b \in Nat \ {0} /\ MIN_ALIGN \in Nat \ {0}
  BY <1>1, HeldFacts, HeapBounds
<1>3. SliceOf(b, size) = [ptr |-> b + MIN_ALIGN, len |-> size - MIN_ALIGN]
  BY DEF SliceOf
<1>4. BlockOf(SliceOf(b, size)) = b /\ SliceOf(b, size).len + MIN_ALIGN = size
  BY <1>2, <1>3 DEF BlockOf
<1>5. SliceHeld(own, st, id, SliceOf(b, size))
  BY <1>4 DEF SliceHeld, UsedBlock
<1>6. header_size(At(word0, b)) = size
  <2>1. size % 16 = 0
    BY <1>2, ValidFacts, CadAssumption
  <2> QED BY <1>2, <2>1, HeaderFacts DEF At
<1> QED BY <1>2, <1>3, <1>5, <1>6 DEF SliceSet

-----------------------------------------------------------------------------
\* What a call keeps in hand, if its step touches other memory.
LEMMA KeepHands ==
  ASSUME NEW T, NEW own, NEW st, NEW own2, NEW st2, Frame(T, own, st, own2, st2),
         NEW t, Hands(own, st, t)
  PROVE  /\ SrcId(t) \notin T /\ (HoldsSrc(t)' => HoldsSrc(t)) /\ r'[t].src = r[t].src
              => (HoldsSrc(t) => SliceHeld(own2, st2, SrcId(t), r[t].src))'
         /\ DstId(t) \notin T /\ r'[t].dst = r[t].dst
              => (IF r[t].dst.ptr = 0 THEN r[t].dst = NullSlice
                                      ELSE SliceHeld(own2, st2, DstId(t), r[t].dst))'
         /\ BlockId(t) \notin T /\ r'[t].blk = r[t].blk /\ r'[t].top = r[t].top
              => (r[t].blk # 0 => Block(own2, st2, BlockId(t), r[t].blk, r[t].top))'
<1>1. PICK src, dst, blk, top :
        src = r[t].src /\ dst = r[t].dst /\ blk = r[t].blk /\ top = r[t].top
  OBVIOUS
<1>2. /\ HoldsSrc(t) => SliceHeld(own, st, SrcId(t), src)
      /\ IF dst.ptr = 0 THEN dst = NullSlice ELSE SliceHeld(own, st, DstId(t), dst)
      /\ blk # 0 => Block(own, st, BlockId(t), blk, top)
  BY <1>1 DEF Hands
<1>3. SrcId(t) \notin T /\ HoldsSrc(t) => SliceHeld(own2, st2, SrcId(t), src)'
  BY <1>2, FrameSlice
<1>4. DstId(t) \notin T /\ dst.ptr # 0 => SliceHeld(own2, st2, DstId(t), dst)'
  BY <1>2, FrameSlice
<1>5. BlockId(t) \notin T /\ blk # 0 => Block(own2, st2, BlockId(t), blk, top)
  BY <1>2, FrameHeld
<1> QED BY <1>1, <1>2, <1>3, <1>4, <1>5 DEF SliceHeld, UsedBlock

-----------------------------------------------------------------------------
\* Got: the block becomes a slice.
LEMMA HGot ==
  ASSUME SafeUse, NEW own, NEW st, NEW el, NEW n, HInv(own, st, el, n), booted, LInv,
         NEW t \in Threads, Got(t)
  PROVE  \E own2 : HInv(own2, st, el, n)'
<1> USE DEF Goto, control, memory, client, setup
<1>1. /\ pc[t] \in Labels /\ Typed(r[t])
      /\ Hands(own, st, t) /\ Moving(own, st, t) /\ Place(t)
      /\ pc \in [Threads -> Labels] /\ DOMAIN r = Threads
      /\ head \in [Bins -> Nat]
      /\ word0 \in [Granules -> Int] /\ word1 \in [Granules -> Int]
  BY Here
<1>2. pc[t] = "got" /\ Serving(t) /\ r[t].job \in {"fast", "slow", "hit", "over", "fit"}
      /\ (r[t].blk # 0 => Served(t)) /\ ~Carving(t)
  BY <1>1 DEF Got, Place, Carving, Pushing
<1>3. PICK b, size : b = r[t].blk /\ size = InHand(t)
  OBVIOUS
<1> DEFINE s == IF b = 0 THEN NullSlice ELSE SliceOf(b, size)
           T == {BlockId(t)}
           own2 == Rename(own, BlockId(t), DstId(t))
<1>4. b # 0 => /\ Block(own, st, BlockId(t), b, b + size)
               /\ size \in Nat /\ Valid(b, size) /\ word0[b] = pack(size, USED)
  <2>1. b # 0 => Served(t) /\ Block(own, st, BlockId(t), b, r[t].top)
    BY <1>1, <1>2, <1>3 DEF Hands
  <2>2. b # 0 => r[t].top = b + size
    BY <1>1, <1>3 DEF InHand, Typed
  <2> QED BY <1>3, <2>1, <2>2 DEF Served, Valid
<1>5. b # 0 => /\ SliceHeld(own2, st, DstId(t), s) /\ s \in SliceSet /\ s.ptr # 0
               /\ s.len = size - MIN_ALIGN /\ header_size(At(word0, b)) = size
  <2> SUFFICES ASSUME b # 0 PROVE /\ SliceHeld(own2, st, DstId(t), s) /\ s \in SliceSet /\ s.ptr # 0
               /\ s.len = size - MIN_ALIGN /\ header_size(At(word0, b)) = size
    OBVIOUS
  <2>1. Block(own2, st, DstId(t), b, b + size)
    BY <1>4, RenameFacts
  <2> QED BY <1>4, <2>1, SliceMade
<1>6. NullSlice \in SliceSet /\ NullSlice.ptr = 0
  BY DEF NullSlice, SliceSet
<1>7. b # 0 => r[t].size <= s.len
  <2>1. b # 0 => r[t].size \in Requests /\ size >= Target(t)
    BY <1>2, <1>3 DEF Served
  <2>2. b # 0 => Target(t) >= r[t].size + MIN_ALIGN /\ Target(t) \in Nat /\ r[t].size \in Nat
    BY <2>1, RequestOk DEF Target
  <2> QED BY <1>4, <1>5, <2>1, <2>2, HeapBounds
<1>8. /\ pc'[t] = (IF r[t].op = "realloc" /\ b # 0 THEN "copy" ELSE "return")
      /\ pc' = [pc EXCEPT ![t] = pc'[t]]
      /\ Typed(r'[t])
      /\ r'[t].op = r[t].op /\ r'[t].job = r[t].job /\ r'[t].size = r[t].size
      /\ r'[t].src = r[t].src /\ r'[t].usable = r[t].usable /\ SameWalk(t)
      /\ r'[t].dst = s /\ r'[t].blk = 0 /\ r'[t].top = 0
      /\ r'[t].lo = r[t].lo /\ r'[t].end = r[t].end
  <2>1. r' = [r EXCEPT ![t].dst = s, ![t].blk = 0, ![t].top = 0] /\ s \in SliceSet
    BY <1>3, <1>5, <1>6 DEF Got
  <2> HIDE DEF s
  <2> QED BY <1>1, <1>3, <2>1, Fields DEF Got, AfterGot, Typed, Jobs, SameWalk
<1> HIDE DEF s
<1>9. /\ head' = head /\ bump' = bump /\ word0' = word0 /\ word1' = word1 /\ live' = live
      /\ ~Carving(t)' /\ pc'[t] \in Labels
  BY <1>8 DEF Got, Carving, Pushing, Labels
<1>10. Frame(T, own, st, own2, st)
  BY <1>9, RenameFacts DEF Frame
<1>11. Local(T, own, st, own2, st, t)
  <2>1. live \subseteq SliceSet /\ st \subseteq Granules \ {0}
    BY DEF HInv, Types
  <2>2. BumpId \notin T /\ (\A k, x : BinId(k, x) \notin T) /\ \A u \in Threads \ {t} : MyIds(u) \cap T = {}
    BY IdsDiffer DEF MyIds
  <2> HIDE DEF own2, T
  <2> QED BY <1>1, <1>2, <1>8, <1>9, <1>10, <2>1, <2>2 DEF Local
<1>12. LiveSlices(own2, st)'
  <2>1. \A x : LiveId(x) \notin T
    BY IdsDiffer DEF MyIds
  <2>2. LiveSlices(own, st)
    BY DEF HInv
  <2> HIDE DEF own2, T
  <2> QED BY <1>9, <1>10, <2>1, <2>2, KeepLive
<1>13. Hands(own2, st, t)'
  <2>1. SrcId(t) \notin T
    BY IdsDiffer
  <2>2. SliceHeld(own2, st, DstId(t), s)' <=> SliceHeld(own2, st, DstId(t), s)
    BY <1>9 DEF SliceHeld, UsedBlock
  <2> HIDE DEF own2, T
  <2>3. HoldsSrc(t)' => HoldsSrc(t)
    BY <1>8 DEF HoldsSrc
  <2>4. (HoldsSrc(t) => SliceHeld(own2, st, SrcId(t), r[t].src))'
    BY <1>1, <1>8, <1>10, <2>1, <2>3, KeepHands
  <2>5. IF b = 0 THEN s = NullSlice ELSE s.ptr # 0 /\ SliceHeld(own2, st, DstId(t), s)'
    BY <1>5, <2>2 DEF s
  <2>6. r[t].lo = 0 /\ r[t].end = 0
    BY <1>1, <1>2 DEF Hands
  <2> QED BY <1>6, <1>8, <1>9, <2>4, <2>5, <2>6 DEF Hands
<1>14. Moving(own2, st, t)'
  BY <1>8 DEF Moving, Pushing
<1>15. Place(t)'
  <2>1. IF b = 0 THEN s = NullSlice /\ s.ptr = 0 ELSE s.ptr # 0 /\ r[t].size <= s.len
    BY <1>5, <1>6, <1>7 DEF s
  <2> QED BY <1>1, <1>2, <1>3, <1>8, <2>1 DEF Place, Initialising, Asking, Serving, Found,
       Served, Freeing, Leaving, SplitBlock, InPlace, Carving, Pushing, Target, InHand, AskingAt,
       SameWalk
<1>16. Fitting(el, n, t)' /\ Failing(el, n, t)'
  BY <1>8 DEF Fitting, Failing
<1> HIDE DEF own2, T
<1>17. HInv(own2, st, el, n)'
  BY <1>11, <1>12, <1>13, <1>14, <1>15, <1>16, LocalStep DEF Step
<1> QED BY <1>17

-----------------------------------------------------------------------------
(* Memory handed over inside a call.                                       *)

\* ReallocKeep: the slice is the answer.
LEMMA HReallocKeep ==
  ASSUME SafeUse, NEW own, NEW st, NEW el, NEW n, HInv(own, st, el, n), booted, LInv,
         NEW t \in Threads, ReallocKeep(t)
  PROVE  \E own2 : HInv(own2, st, el, n)'
<1> USE DEF Goto, control, memory, client, setup
<1>1. /\ pc[t] \in Labels /\ Typed(r[t])
      /\ Hands(own, st, t) /\ Moving(own, st, t) /\ Place(t)
      /\ Fitting(el, n, t) /\ Failing(el, n, t)
      /\ JobInPlace(t) /\ FixedBinOnly(t)
      /\ pc \in [Threads -> Labels] /\ DOMAIN r = Threads
      /\ head \in [Bins -> Nat]
      /\ word0 \in [Granules -> Int] /\ word1 \in [Granules -> Int]
  BY Here
<1>2. /\ pc[t] = "realloc_load" /\ Serving(t) /\ r[t].op = "realloc" /\ r[t].blk = 0
      /\ r[t].job = "none" /\ r[t].iter = 0 /\ r[t].src.ptr # 0 /\ ~Carving(t)
      /\ r[t].size \in Requests
  BY <1>1 DEF ReallocKeep, Place, Carving, Pushing, Serving
<1>3. PICK s : s = r[t].src
  OBVIOUS
<1>4. PICK b, size : b = BlockOf(s) /\ size = s.len + MIN_ALIGN
  OBVIOUS
<1>5. HoldsSrc(t) /\ SliceHeld(own, st, SrcId(t), s) /\ s \in SliceSet
  BY <1>1, <1>2, <1>3 DEF HoldsSrc, Hands, Typed
<1>6. /\ b \in Granules /\ b \in Nat \ {0} /\ size \in Nat /\ s = SliceOf(b, size)
      /\ s.ptr = b + MIN_ALIGN /\ s.ptr # 0 /\ s.len \in Nat
      /\ Valid(b, size) /\ Block(own, st, SrcId(t), b, b + size)
      /\ header_size(At(word0, b)) = size /\ ~header_is_free(At(word0, b))
      /\ At(word0, b) = word0[b]
  BY <1>4, <1>5, SliceFacts
<1>7. CurSize(t) = size /\ BlockOf(r[t].src) = b
  BY <1>3, <1>4, <1>6 DEF CurSize
<1>8. Target(t) >= r[t].size + MIN_ALIGN /\ Target(t) \in Nat /\ r[t].size \in Nat
  BY <1>2, RequestOk DEF Target
<1> DEFINE T == {SrcId(t)}
           own2 == Rename(own, SrcId(t), DstId(t))
<1>s. /\ pc'[t] = "return" /\ pc' = [pc EXCEPT ![t] = pc'[t]]
      /\ Typed(r'[t])
      /\ SameHand(t) /\ SameWalk(t) /\ r'[t].op = r[t].op /\ r'[t].job = "keep"
      /\ r'[t].size = r[t].size /\ r'[t].src = s /\ r'[t].dst = s /\ r'[t].usable = r[t].usable
      /\ size >= Target(t)
  <2>1. r' = [r EXCEPT ![t].job = "keep", ![t].dst = s] /\ size >= Target(t)
    BY <1>6, <1>7 DEF ReallocKeep
  <2> QED BY <1>1, <1>3, <1>5, <2>1, Fields DEF ReallocKeep, Typed, Jobs, SameHand, SameWalk
<1>c. /\ head' = head /\ bump' = bump /\ word0' = word0 /\ word1' = word1 /\ live' = live
      /\ ~Carving(t) /\ ~Carving(t)' /\ pc'[t] \in Labels
  BY <1>1, <1>2, <1>s DEF ReallocKeep, Carving, Pushing, Labels, MayCall
<1>f. Frame(T, own, st, own2, st)
  BY <1>c, RenameFacts DEF Frame
<1>l. Local(T, own, st, own2, st, t)
  <2>1. live \subseteq SliceSet /\ st \subseteq Granules \ {0}
    BY DEF HInv, Types
  <2>2. BumpId \notin T /\ (\A k, x : BinId(k, x) \notin T) /\ \A u \in Threads \ {t} : MyIds(u) \cap T = {}
    BY IdsDiffer DEF MyIds
  <2>3. live' \subseteq SliceSet
    BY <1>1, <1>2, <1>s, <1>c, <2>1
  <2> HIDE DEF own2, T
  <2> QED BY <1>1, <1>s, <1>c, <1>f, <2>1, <2>2, <2>3 DEF Local
<1>v. LiveSlices(own2, st)'
  <2>1. \A x : LiveId(x) \notin T
    BY IdsDiffer DEF MyIds
  <2>2. LiveSlices(own, st)
    BY DEF HInv
  <2> HIDE DEF own2, T
  <2> QED BY <1>c, <1>f, <2>1, <2>2, KeepLive
<1>h. Hands(own2, st, t)'
  <2>1. ~HoldsSrc(t)'
    BY <1>s DEF HoldsSrc
  <2>2. SliceHeld(own2, st, DstId(t), s)'
    <3>1. Block(own2, st, DstId(t), b, b + size)
      BY <1>6, RenameFacts
    <3>2. SliceHeld(own, st, SrcId(t), s)
      BY <1>5
    <3> HIDE DEF own2
    <3> QED BY <1>4, <1>c, <3>1, <3>2 DEF SliceHeld, UsedBlock
  <2> HIDE DEF own2
  <2>3. r[t].lo = 0 /\ r[t].end = 0
    BY <1>1, <1>2 DEF Hands
  <2> QED BY <1>2, <1>6, <1>s, <1>c, <2>1, <2>2, <2>3 DEF Hands, SameHand
<1>m. Moving(own2, st, t)'
  BY <1>s DEF Moving, Pushing
<1>p. Place(t)'
  <2>1. r[t].size <= s.len
    BY <1>4, <1>6, <1>8, <1>s, HeapBounds
  <2> QED BY <1>1, <1>2, <1>6, <1>s, <2>1 DEF Place, Initialising, Asking, Serving, Found,
       Served, Freeing, Leaving, SplitBlock, InPlace, Carving, Pushing, Target, InHand, AskingAt,
       SameCall, SameHand, SameWalk
<1>i. Fitting(el, n, t)' /\ Failing(el, n, t)'
  BY <1>s DEF Fitting, Failing
<1> HIDE DEF own2, T
<1>q. HInv(own2, st, el, n)'
  BY <1>l, <1>v, <1>h, <1>m, <1>p, <1>i, LocalStep DEF Step
<1> QED BY <1>q

\* ReallocShrink: the block comes into the hand of the call.
LEMMA HReallocShrink ==
  ASSUME SafeUse, NEW own, NEW st, NEW el, NEW n, HInv(own, st, el, n), booted, LInv,
         NEW t \in Threads, ReallocShrink(t)
  PROVE  \E own2 : HInv(own2, st, el, n)'
<1> USE DEF Goto, control, memory, client, setup
<1>1. /\ pc[t] \in Labels /\ Typed(r[t])
      /\ Hands(own, st, t) /\ Moving(own, st, t) /\ Place(t)
      /\ Fitting(el, n, t) /\ Failing(el, n, t)
      /\ JobInPlace(t) /\ FixedBinOnly(t)
      /\ pc \in [Threads -> Labels] /\ DOMAIN r = Threads
      /\ head \in [Bins -> Nat]
      /\ word0 \in [Granules -> Int] /\ word1 \in [Granules -> Int]
  BY Here
<1>2. /\ pc[t] = "realloc_load" /\ Serving(t) /\ r[t].op = "realloc" /\ r[t].blk = 0
      /\ r[t].job = "none" /\ r[t].iter = 0 /\ r[t].src.ptr # 0 /\ ~Carving(t)
      /\ r[t].size \in Requests
  BY <1>1 DEF ReallocShrink, Place, Carving, Pushing, Serving
<1>3. PICK s : s = r[t].src
  OBVIOUS
<1>4. PICK b, size : b = BlockOf(s) /\ size = s.len + MIN_ALIGN
  OBVIOUS
<1>5. HoldsSrc(t) /\ SliceHeld(own, st, SrcId(t), s) /\ s \in SliceSet
  BY <1>1, <1>2, <1>3 DEF HoldsSrc, Hands, Typed
<1>6. /\ b \in Granules /\ b \in Nat \ {0} /\ size \in Nat /\ s = SliceOf(b, size)
      /\ s.ptr = b + MIN_ALIGN /\ s.ptr # 0 /\ s.len \in Nat
      /\ Valid(b, size) /\ Block(own, st, SrcId(t), b, b + size)
      /\ header_size(At(word0, b)) = size /\ ~header_is_free(At(word0, b))
      /\ At(word0, b) = word0[b]
  BY <1>4, <1>5, SliceFacts
<1>7. CurSize(t) = size /\ BlockOf(r[t].src) = b
  BY <1>3, <1>4, <1>6 DEF CurSize
<1>8. Target(t) >= r[t].size + MIN_ALIGN /\ Target(t) \in Nat /\ r[t].size \in Nat
  BY <1>2, RequestOk DEF Target
<1> DEFINE T == {SrcId(t)}
           own2 == Rename(own, SrcId(t), BlockId(t))
<1>s. /\ pc'[t] = "lock" /\ pc' = [pc EXCEPT ![t] = pc'[t]]
      /\ Typed(r'[t])
      /\ SameWalk(t) /\ r'[t].op = r[t].op /\ r'[t].job = "shrink" /\ r'[t].size = r[t].size
      /\ r'[t].src = s /\ r'[t].dst = r[t].dst /\ r'[t].usable = r[t].usable /\ r'[t].blk = b
      /\ r'[t].top = b + size /\ r'[t].lo = r[t].lo /\ r'[t].end = r[t].end
      /\ size >= Target(t)
  <2>1. r' = [r EXCEPT ![t].job = "shrink", ![t].blk = b, ![t].top = b + size] /\ size >= Target(t)
    BY <1>6, <1>7 DEF ReallocShrink
  <2>2. b \in Int /\ b + size \in Int
    BY <1>6
  <2> QED BY <1>1, <1>3, <1>5, <2>1, <2>2, Fields DEF ReallocShrink, Typed, Jobs, SameWalk
<1>c. /\ head' = head /\ bump' = bump /\ word0' = word0 /\ word1' = word1 /\ live' = live
      /\ ~Carving(t) /\ ~Carving(t)' /\ pc'[t] \in Labels
  BY <1>1, <1>2, <1>s DEF ReallocShrink, Carving, Pushing, Labels, MayCall
<1>f. Frame(T, own, st, own2, st)
  BY <1>c, RenameFacts DEF Frame
<1>l. Local(T, own, st, own2, st, t)
  <2>1. live \subseteq SliceSet /\ st \subseteq Granules \ {0}
    BY DEF HInv, Types
  <2>2. BumpId \notin T /\ (\A k, x : BinId(k, x) \notin T) /\ \A u \in Threads \ {t} : MyIds(u) \cap T = {}
    BY IdsDiffer DEF MyIds
  <2>3. live' \subseteq SliceSet
    BY <1>1, <1>2, <1>s, <1>c, <2>1
  <2> HIDE DEF own2, T
  <2> QED BY <1>1, <1>s, <1>c, <1>f, <2>1, <2>2, <2>3 DEF Local
<1>v. LiveSlices(own2, st)'
  <2>1. \A x : LiveId(x) \notin T
    BY IdsDiffer DEF MyIds
  <2>2. LiveSlices(own, st)
    BY DEF HInv
  <2> HIDE DEF own2, T
  <2> QED BY <1>c, <1>f, <2>1, <2>2, KeepLive
<1>h. Hands(own2, st, t)'
  <2>1. ~HoldsSrc(t)'
    BY <1>s DEF HoldsSrc
  <2>2. Block(own2, st, BlockId(t), b, b + size)
    BY <1>6, RenameFacts
  <2>3. DstId(t) \notin T
    BY IdsDiffer
  <2> HIDE DEF own2, T
  <2>4. (IF r[t].dst.ptr = 0 THEN r[t].dst = NullSlice
                             ELSE SliceHeld(own2, st, DstId(t), r[t].dst))'
    BY <1>1, <1>f, <1>s, <2>3, KeepHands
  <2>5. r[t].lo = 0 /\ r[t].end = 0
    BY <1>1, <1>c DEF Hands
  <2> QED BY <1>s, <1>c, <2>1, <2>2, <2>4, <2>5 DEF Hands
<1>m. Moving(own2, st, t)'
  BY <1>s DEF Moving, Pushing
<1>p. Place(t)'
  <2>1. InHand(t)' = size
    BY <1>6, <1>s DEF InHand
  <2>2. Target(t)' = Target(t)
    BY <1>s DEF Target
  <2>3. SplitBlock(t)'
    BY <1>2, <1>6, <1>s, <2>1, <2>2 DEF SplitBlock, InPlace, Serving, SameWalk, Valid
  <2>4. r'[t].prev = 0 /\ (r'[t].dst.ptr # 0 => r'[t].size <= r'[t].dst.len)
    BY <1>1, <1>2, <1>s DEF Place, SameWalk
  <2> QED BY <1>1, <1>2, <1>6, <1>s, <2>3, <2>4 DEF Place, Initialising, AskingAt, Carving, Pushing, SameWalk
<1>i. Fitting(el, n, t)' /\ Failing(el, n, t)'
  BY <1>s DEF Fitting, Failing
<1> HIDE DEF own2, T
<1>q. HInv(own2, st, el, n)'
  BY <1>l, <1>v, <1>h, <1>m, <1>p, <1>i, LocalStep DEF Step
<1> QED BY <1>q

\* FreeLoad: the header is read, and says that the block is in use.
LEMMA HFreeLoad ==
  ASSUME SafeUse, NEW own, NEW st, NEW el, NEW n, HInv(own, st, el, n), booted, LInv,
         NEW t \in Threads, FreeLoad(t)
  PROVE  \E own2 : HInv(own2, st, el, n)'
<1> USE DEF Goto, control, memory, client, setup
<1>1. /\ pc[t] \in Labels /\ Typed(r[t])
      /\ Hands(own, st, t) /\ Moving(own, st, t) /\ Place(t)
      /\ Fitting(el, n, t) /\ Failing(el, n, t)
      /\ JobInPlace(t) /\ FixedBinOnly(t)
      /\ pc \in [Threads -> Labels] /\ DOMAIN r = Threads
      /\ head \in [Bins -> Nat]
      /\ word0 \in [Granules -> Int] /\ word1 \in [Granules -> Int]
  BY Here
<1>2. /\ pc[t] = "free_load" /\ Leaving(t) /\ r[t].blk = 0
      /\ r[t].job \in {"none", "fast", "slow", "hit", "over", "fit"}
      /\ r[t].src.ptr # 0 /\ ~Carving(t)
  BY <1>1 DEF FreeLoad, Place, Carving, Pushing, Leaving
<1>3. PICK s : s = r[t].src
  OBVIOUS
<1>4. PICK b, size : b = BlockOf(s) /\ size = s.len + MIN_ALIGN
  OBVIOUS
<1>5. HoldsSrc(t) /\ SliceHeld(own, st, SrcId(t), s) /\ s \in SliceSet
  BY <1>1, <1>2, <1>3 DEF HoldsSrc, Hands, Typed
<1>6. /\ b \in Granules /\ b \in Nat \ {0} /\ size \in Nat /\ s = SliceOf(b, size)
      /\ s.ptr = b + MIN_ALIGN /\ s.ptr # 0 /\ s.len \in Nat
      /\ Valid(b, size) /\ Block(own, st, SrcId(t), b, b + size)
      /\ header_size(At(word0, b)) = size /\ ~header_is_free(At(word0, b))
      /\ At(word0, b) = word0[b]
  BY <1>4, <1>5, SliceFacts
<1>7. bin_index(size) \in Bins /\ bin_index(size) \in Int
  <2>1. \A k \in Bins : k \in Int
    BY GeoConstants, CadAssumption
  <2> QED BY <1>6, <2>1, ValidFacts, CadAssumption
<1> DEFINE T == {SrcId(t)}
           own2 == Rename(own, SrcId(t), BlockId(t))
<1>s. /\ pc'[t] = "free_stamp" /\ pc' = [pc EXCEPT ![t] = pc'[t]]
      /\ Typed(r'[t])
      /\ r'[t].op = r[t].op /\ r'[t].job = "free" /\ r'[t].size = r[t].size /\ r'[t].src = s
      /\ r'[t].dst = r[t].dst /\ r'[t].usable = r[t].usable /\ r'[t].blk = b
      /\ r'[t].top = b + size /\ r'[t].lo = r[t].lo /\ r'[t].end = r[t].end
      /\ r'[t].bin = bin_index(size) /\ r'[t].old = r[t].old /\ r'[t].nxt = r[t].nxt
      /\ r'[t].prev = r[t].prev /\ r'[t].cur = r[t].cur /\ r'[t].iter = r[t].iter
  <2>1. /\ r' = [r EXCEPT ![t].job = "free", ![t].blk = b, ![t].top = b + size,
                          ![t].bin = bin_index(size)]
        /\ pc' = [pc EXCEPT ![t] = "free_stamp"]
    BY <1>3, <1>4, <1>6 DEF FreeLoad, Refused
  <2>2. b \in Int /\ b + size \in Int
    BY <1>6
  <2> QED BY <1>1, <1>3, <1>5, <1>7, <2>1, <2>2, Fields DEF Typed, Jobs
<1>c. /\ head' = head /\ bump' = bump /\ word0' = word0 /\ word1' = word1 /\ live' = live
      /\ ~Carving(t) /\ ~Carving(t)' /\ pc'[t] \in Labels
  BY <1>1, <1>2, <1>s DEF FreeLoad, Carving, Pushing, Labels, MayCall
<1>f. Frame(T, own, st, own2, st)
  BY <1>c, RenameFacts DEF Frame
<1>l. Local(T, own, st, own2, st, t)
  <2>1. live \subseteq SliceSet /\ st \subseteq Granules \ {0}
    BY DEF HInv, Types
  <2>2. BumpId \notin T /\ (\A k, x : BinId(k, x) \notin T) /\ \A u \in Threads \ {t} : MyIds(u) \cap T = {}
    BY IdsDiffer DEF MyIds
  <2>3. live' \subseteq SliceSet
    BY <1>1, <1>2, <1>s, <1>c, <2>1
  <2> HIDE DEF own2, T
  <2> QED BY <1>1, <1>s, <1>c, <1>f, <2>1, <2>2, <2>3 DEF Local
<1>v. LiveSlices(own2, st)'
  <2>1. \A x : LiveId(x) \notin T
    BY IdsDiffer DEF MyIds
  <2>2. LiveSlices(own, st)
    BY DEF HInv
  <2> HIDE DEF own2, T
  <2> QED BY <1>c, <1>f, <2>1, <2>2, KeepLive
<1>h. Hands(own2, st, t)'
  <2>1. ~HoldsSrc(t)'
    BY <1>s DEF HoldsSrc
  <2>2. Block(own2, st, BlockId(t), b, b + size)
    BY <1>6, RenameFacts
  <2>3. DstId(t) \notin T
    BY IdsDiffer
  <2> HIDE DEF own2, T
  <2>4. (IF r[t].dst.ptr = 0 THEN r[t].dst = NullSlice
                             ELSE SliceHeld(own2, st, DstId(t), r[t].dst))'
    BY <1>1, <1>f, <1>s, <2>3, KeepHands
  <2>5. r[t].lo = 0 /\ r[t].end = 0
    BY <1>1, <1>c DEF Hands
  <2> QED BY <1>s, <1>c, <2>1, <2>2, <2>4, <2>5 DEF Hands
<1>m. Moving(own2, st, t)'
  BY <1>s DEF Moving, Pushing
<1>p. Place(t)'
  <2>1. InHand(t)' = size
    BY <1>6, <1>s DEF InHand
  <2>2. Freeing(t)' /\ Leaving(t)'
    BY <1>2, <1>6, <1>s, <2>1 DEF Freeing, Leaving
  <2> QED BY <1>1, <1>2, <1>3, <1>s, <2>2 DEF Place, Initialising, AskingAt, Carving, Pushing
<1>i. Fitting(el, n, t)' /\ Failing(el, n, t)'
  BY <1>s DEF Fitting, Failing
<1> HIDE DEF own2, T
<1>q. HInv(own2, st, el, n)'
  BY <1>l, <1>v, <1>h, <1>m, <1>p, <1>i, LocalStep DEF Step
<1> QED BY <1>q

\* Unlock, but for a realloc that shrank its block.
LEMMA HUnlock ==
  ASSUME NEW own, NEW st, NEW el, NEW n, HInv(own, st, el, n), booted, LInv,
         NEW t \in Threads, Unlock(t), r[t].job # "shrink"
  PROVE  HInv(own, st, el, n)'
<1> USE DEF Goto, control, memory, client, setup
<1>1. /\ pc[t] \in Labels /\ Typed(r[t])
      /\ Hands(own, st, t) /\ Moving(own, st, t) /\ Place(t)
      /\ Fitting(el, n, t) /\ Failing(el, n, t)
      /\ JobInPlace(t) /\ FixedBinOnly(t)
      /\ pc \in [Threads -> Labels] /\ DOMAIN r = Threads
      /\ head \in [Bins -> Nat]
      /\ word0 \in [Granules -> Int] /\ word1 \in [Granules -> Int]
  BY Here
<1>2. /\ pc[t] = "unlock" /\ r' = r /\ pc' = [pc EXCEPT ![t] = pc'[t]]
      /\ r[t].job \in {"slow", "hit", "over", "fit", "free"}
      /\ pc'[t] = IF r[t].job \in {"slow", "hit"} THEN (IF r[t].blk = 0 THEN "got" ELSE "stamp")
                  ELSE IF r[t].job = "free" THEN "return" ELSE "got"
      /\ SameCall(t) /\ SameHand(t) /\ SameWalk(t) /\ Typed(r'[t])
  BY <1>1 DEF Unlock, SameCall, SameHand, SameWalk
<1>3. Calm(t)
  BY <1>1, <1>2 DEF Calm, Unlock, Labels, Carving, Pushing,
     SameCall, SameHand
<1>4. Hands(own, st, t)'
  BY <1>1, <1>2, <1>3, SameHands DEF Calm, HoldsSrc, SameCall
<1>5. Moving(own, st, t)'
  BY <1>1, <1>2 DEF Moving, Pushing, SameWalk
<1>6. Place(t)'
  BY <1>1, <1>2 DEF Unlock, Place, Initialising, Asking, Serving, Found, Served, Freeing, Leaving,
     SplitBlock, InPlace, Carving, Pushing, Target, InHand, AskingAt,
     SameCall, SameHand, SameWalk
<1>7. Fitting(el, n, t)' /\ Failing(el, n, t)'
  BY <1>2 DEF Fitting, Failing
<1> QED BY <1>3, <1>4, <1>5, <1>6, <1>7, CalmStep DEF Step

\* Unlock: a realloc in place has its slice.
LEMMA HUnlockShrunk ==
  ASSUME SafeUse, NEW own, NEW st, NEW el, NEW n, HInv(own, st, el, n), booted, LInv,
         NEW t \in Threads, Unlock(t), r[t].job = "shrink"
  PROVE  \E own2 : HInv(own2, st, el, n)'
<1> USE DEF Goto, control, memory, client, setup
<1>1. /\ pc[t] \in Labels /\ Typed(r[t])
      /\ Hands(own, st, t) /\ Moving(own, st, t) /\ Place(t)
      /\ Fitting(el, n, t) /\ Failing(el, n, t)
      /\ JobInPlace(t) /\ FixedBinOnly(t)
      /\ pc \in [Threads -> Labels] /\ DOMAIN r = Threads
      /\ head \in [Bins -> Nat]
      /\ word0 \in [Granules -> Int] /\ word1 \in [Granules -> Int]
  BY Here
<1>2. /\ pc[t] = "unlock" /\ Served(t) /\ InPlace(t) /\ r[t].dst = NullSlice /\ ~Carving(t)
  BY <1>1 DEF Unlock, Place, Carving, Pushing
<1>3. PICK b, size : b = r[t].blk /\ size = InHand(t)
  OBVIOUS
<1>4. /\ Block(own, st, BlockId(t), b, b + size) /\ b # 0 /\ b \in Int
      /\ size \in Nat /\ Valid(b, size) /\ word0[b] = pack(size, USED)
  <2>1. Block(own, st, BlockId(t), b, r[t].top)
    BY <1>1, <1>2, <1>3 DEF Hands, Served
  <2>2. r[t].top = b + size
    BY <1>1, <1>3 DEF InHand, Typed
  <2> QED BY <1>1, <1>2, <1>3, <2>1, <2>2 DEF Served, Valid, Typed
<1>5. PICK s : s = SliceOf(b, size)
  OBVIOUS
<1>6. s \in SliceSet /\ s.ptr # 0 /\ s.ptr = b + MIN_ALIGN /\ s.len = size - MIN_ALIGN
  BY <1>4, <1>5, SliceMade
<1>7. r[t].size <= s.len
  <2>1. r[t].size \in Requests /\ size >= Target(t)
    BY <1>2, <1>3 DEF Served
  <2>2. Target(t) >= r[t].size + MIN_ALIGN /\ Target(t) \in Nat /\ r[t].size \in Nat
    BY <2>1, RequestOk DEF Target
  <2> QED BY <1>4, <1>6, <2>1, <2>2, HeapBounds
<1> DEFINE T == {BlockId(t)}
           own2 == Rename(own, BlockId(t), DstId(t))
<1>s. /\ pc'[t] = "return" /\ pc' = [pc EXCEPT ![t] = pc'[t]]
      /\ Typed(r'[t])
      /\ SameWalk(t) /\ r'[t].op = r[t].op /\ r'[t].job = "shrink" /\ r'[t].size = r[t].size
      /\ r'[t].src = r[t].src /\ r'[t].dst = s /\ r'[t].usable = r[t].usable /\ r'[t].blk = 0
      /\ r'[t].top = 0 /\ r'[t].lo = r[t].lo /\ r'[t].end = r[t].end
  <2>1. r' = [r EXCEPT ![t].dst = s, ![t].blk = 0, ![t].top = 0] /\ pc' = [pc EXCEPT ![t] = "return"]
    BY <1>3, <1>5 DEF Unlock, InHand
  <2> QED BY <1>1, <1>6, <2>1, Fields DEF Typed, Jobs, SameWalk
<1>c. /\ head' = head /\ bump' = bump /\ word0' = word0 /\ word1' = word1 /\ live' = live
      /\ ~Carving(t) /\ ~Carving(t)' /\ pc'[t] \in Labels
  BY <1>1, <1>2, <1>s DEF Unlock, Carving, Pushing, Labels, MayCall
<1>f. Frame(T, own, st, own2, st)
  BY <1>c, RenameFacts DEF Frame
<1>l. Local(T, own, st, own2, st, t)
  <2>1. live \subseteq SliceSet /\ st \subseteq Granules \ {0}
    BY DEF HInv, Types
  <2>2. BumpId \notin T /\ (\A k, y : BinId(k, y) \notin T) /\ \A u \in Threads \ {t} : MyIds(u) \cap T = {}
    BY IdsDiffer DEF MyIds
  <2>3. live' \subseteq SliceSet
    BY <1>1, <1>2, <1>s, <1>c, <2>1
  <2> HIDE DEF own2, T
  <2> QED BY <1>1, <1>s, <1>c, <1>f, <2>1, <2>2, <2>3 DEF Local
<1>v. LiveSlices(own2, st)'
  <2>1. \A x : LiveId(x) \notin T
    BY IdsDiffer DEF MyIds
  <2>2. LiveSlices(own, st)
    BY DEF HInv
  <2> HIDE DEF own2, T
  <2> QED BY <1>c, <1>f, <2>1, <2>2, KeepLive
<1>h. Hands(own2, st, t)'
  <2>1. ~HoldsSrc(t)'
    BY <1>s DEF HoldsSrc
  <2>2. SliceHeld(own2, st, DstId(t), s)'
    <3>1. Block(own2, st, DstId(t), b, b + size)
      BY <1>4, RenameFacts
    <3>2. SliceHeld(own2, st, DstId(t), s)
      BY <1>4, <1>5, <3>1, SliceMade
    <3> HIDE DEF own2
    <3> QED BY <1>c, <3>2 DEF SliceHeld, UsedBlock
  <2> HIDE DEF own2
  <2>3. r[t].lo = 0 /\ r[t].end = 0
    BY <1>1, <1>2 DEF Hands
  <2> QED BY <1>6, <1>s, <1>c, <2>1, <2>2, <2>3 DEF Hands
<1>m. Moving(own2, st, t)'
  BY <1>s DEF Moving, Pushing
<1>p. Place(t)'
  BY <1>1, <1>2, <1>6, <1>7, <1>s DEF Place, Initialising, AskingAt, Carving, Pushing, Served, InPlace, SameWalk
<1>i. Fitting(el, n, t)' /\ Failing(el, n, t)'
  BY <1>s DEF Fitting, Failing
<1> HIDE DEF own2, T
<1>q. HInv(own2, st, el, n)'
  BY <1>l, <1>v, <1>h, <1>m, <1>p, <1>i, LocalStep DEF Step
<1> QED BY <1>q

\* FreeCall: a caller gives a slice back.
LEMMA HFreeCall ==
  ASSUME SafeUse, NEW own, NEW st, NEW el, NEW n, HInv(own, st, el, n), booted, LInv,
         NEW t \in Threads, FreeCall(t)
  PROVE  \E own2 : HInv(own2, st, el, n)'
<1> USE DEF Goto, control, memory, client, setup
<1>1. /\ pc[t] \in Labels /\ Typed(r[t])
      /\ Hands(own, st, t) /\ Moving(own, st, t) /\ Place(t)
      /\ Fitting(el, n, t) /\ Failing(el, n, t)
      /\ JobInPlace(t) /\ FixedBinOnly(t)
      /\ pc \in [Threads -> Labels] /\ DOMAIN r = Threads
      /\ head \in [Bins -> Nat]
      /\ word0 \in [Granules -> Int] /\ word1 \in [Granules -> Int]
  BY Here
<1>2. /\ pc[t] = "idle" /\ r[t] = NoLocals /\ ~Carving(t)
  BY <1>1 DEF FreeCall, MayCall, Place, Carving, Pushing
<1>3. NoLocals.dst = NullSlice /\ NullSlice.ptr = 0 /\ NoLocals.job = "none" /\ NoLocals.blk = 0
      /\ NoLocals.lo = 0 /\ NoLocals.end = 0 /\ NoLocals.iter = 0 /\ NoLocals.prev = 0
  BY DEF NoLocals, NullSlice
<1>e. PICK s \in live : /\ live' = live \ {s}
                     /\ r' = [r EXCEPT ![t].op = "free", ![t].src = s]
  BY DEF FreeCall
<1>4. LiveSlices(own, st) /\ SliceHeld(own, st, LiveId(s), s) /\ s \in SliceSet /\ live \subseteq SliceSet
  BY DEF HInv, LiveSlices, Types
<1>5. s.ptr # 0 /\ Block(own, st, LiveId(s), BlockOf(s), BlockOf(s) + (s.len + MIN_ALIGN))
  BY <1>4, SliceFacts
<1>6. TRUE
  OBVIOUS
<1> DEFINE T == {LiveId(s)}
           own2 == Rename(own, LiveId(s), SrcId(t))
<1>s. /\ pc'[t] = "free_load" /\ pc' = [pc EXCEPT ![t] = pc'[t]]
      /\ Typed(r'[t])
      /\ SameHand(t) /\ SameWalk(t) /\ r'[t].op = "free" /\ r'[t].job = "none"
      /\ r'[t].size = r[t].size /\ r'[t].src = s /\ r'[t].dst = NullSlice
      /\ r'[t].usable = r[t].usable
  <2>1. pc' = [pc EXCEPT ![t] = "free_load"]
    BY DEF FreeCall
  <2> QED BY <1>1, <1>2, <1>3, <1>4, <1>e, <1>6, <2>1, Fields DEF Typed, Jobs, SameHand, SameWalk
<1>c. /\ head' = head /\ bump' = bump /\ word0' = word0 /\ word1' = word1
      /\ ~Carving(t) /\ ~Carving(t)' /\ pc'[t] \in Labels
  BY <1>1, <1>2, <1>s DEF FreeCall, Carving, Pushing, Labels, MayCall
<1>f. Frame(T, own, st, own2, st)
  BY <1>c, RenameFacts DEF Frame
<1>l. Local(T, own, st, own2, st, t)
  <2>1. live \subseteq SliceSet /\ st \subseteq Granules \ {0}
    BY DEF HInv, Types
  <2>2. BumpId \notin T /\ (\A k, y : BinId(k, y) \notin T) /\ \A u \in Threads \ {t} : MyIds(u) \cap T = {}
    BY IdsDiffer DEF MyIds
  <2>3. live' \subseteq SliceSet
    BY <1>4, <1>e, <2>1
  <2> HIDE DEF own2, T
  <2> QED BY <1>1, <1>s, <1>c, <1>f, <2>1, <2>2, <2>3 DEF Local
<1>v. LiveSlices(own2, st)'
  <2>1. \A y \in live' : y \in live /\ LiveId(y) \notin T
    BY <1>e, IdsDiffer
  <2> HIDE DEF own2, T
  <2> QED BY <1>4, <1>f, <2>1, KeepLive
<1>h. Hands(own2, st, t)'
  <2>1. SliceHeld(own2, st, SrcId(t), s)'
    <3>1. Block(own2, st, SrcId(t), BlockOf(s), BlockOf(s) + (s.len + MIN_ALIGN))
      BY <1>5, RenameFacts
    <3> HIDE DEF own2
    <3> QED BY <1>4, <1>c, <3>1 DEF SliceHeld, UsedBlock
  <2> HIDE DEF own2
  <2> QED BY <1>2, <1>3, <1>s, <1>c, <2>1 DEF Hands, SameHand
<1>m. Moving(own2, st, t)'
  BY <1>s DEF Moving, Pushing
<1>p. Place(t)'
  BY <1>1, <1>2, <1>3, <1>5, <1>s DEF Place, Initialising, Asking, Serving, Found,
       Served, Freeing, Leaving, SplitBlock, InPlace, Carving, Pushing, Target, InHand, AskingAt,
       SameCall, SameHand, SameWalk
<1>i. Fitting(el, n, t)' /\ Failing(el, n, t)'
  BY <1>s DEF Fitting, Failing
<1> HIDE DEF own2, T
<1>q. HInv(own2, st, el, n)'
  BY <1>l, <1>v, <1>h, <1>m, <1>p, <1>i, LocalStep DEF Call
<1> QED BY <1>q

\* ReallocCall: a caller gives a slice to be resized.
LEMMA HReallocCall ==
  ASSUME SafeUse, NEW own, NEW st, NEW el, NEW n, HInv(own, st, el, n), booted, LInv,
         NEW t \in Threads, ReallocCall(t)
  PROVE  \E own2 : HInv(own2, st, el, n)'
<1> USE DEF Goto, control, memory, client, setup
<1>1. /\ pc[t] \in Labels /\ Typed(r[t])
      /\ Hands(own, st, t) /\ Moving(own, st, t) /\ Place(t)
      /\ Fitting(el, n, t) /\ Failing(el, n, t)
      /\ JobInPlace(t) /\ FixedBinOnly(t)
      /\ pc \in [Threads -> Labels] /\ DOMAIN r = Threads
      /\ head \in [Bins -> Nat]
      /\ word0 \in [Granules -> Int] /\ word1 \in [Granules -> Int]
  BY Here
<1>2. /\ pc[t] = "idle" /\ r[t] = NoLocals /\ ~Carving(t)
  BY <1>1 DEF ReallocCall, MayCall, Place, Carving, Pushing
<1>3. NoLocals.dst = NullSlice /\ NullSlice.ptr = 0 /\ NoLocals.job = "none" /\ NoLocals.blk = 0
      /\ NoLocals.lo = 0 /\ NoLocals.end = 0 /\ NoLocals.iter = 0 /\ NoLocals.prev = 0
  BY DEF NoLocals, NullSlice
<1>e. PICK s \in live, x \in ReallocSizes : /\ live' = live \ {s}
                     /\ r' = [r EXCEPT ![t].op = "realloc", ![t].src = s, ![t].size = x]
  BY DEF ReallocCall
<1>4. LiveSlices(own, st) /\ SliceHeld(own, st, LiveId(s), s) /\ s \in SliceSet /\ live \subseteq SliceSet
  BY DEF HInv, LiveSlices, Types
<1>5. s.ptr # 0 /\ Block(own, st, LiveId(s), BlockOf(s), BlockOf(s) + (s.len + MIN_ALIGN))
  BY <1>4, SliceFacts
<1>6. x \in Requests /\ x \in Nat
  BY CadAssumption DEF Requests
<1> DEFINE T == {LiveId(s)}
           own2 == Rename(own, LiveId(s), SrcId(t))
<1>s. /\ pc'[t] = "realloc_load" /\ pc' = [pc EXCEPT ![t] = pc'[t]]
      /\ Typed(r'[t])
      /\ SameHand(t) /\ SameWalk(t) /\ r'[t].op = "realloc" /\ r'[t].job = "none"
      /\ r'[t].size = x /\ r'[t].src = s /\ r'[t].dst = NullSlice /\ r'[t].usable = r[t].usable
  <2>1. pc' = [pc EXCEPT ![t] = "realloc_load"]
    BY DEF ReallocCall
  <2> QED BY <1>1, <1>2, <1>3, <1>4, <1>e, <1>6, <2>1, Fields DEF Typed, Jobs, SameHand, SameWalk
<1>c. /\ head' = head /\ bump' = bump /\ word0' = word0 /\ word1' = word1
      /\ ~Carving(t) /\ ~Carving(t)' /\ pc'[t] \in Labels
  BY <1>1, <1>2, <1>s DEF ReallocCall, Carving, Pushing, Labels, MayCall
<1>f. Frame(T, own, st, own2, st)
  BY <1>c, RenameFacts DEF Frame
<1>l. Local(T, own, st, own2, st, t)
  <2>1. live \subseteq SliceSet /\ st \subseteq Granules \ {0}
    BY DEF HInv, Types
  <2>2. BumpId \notin T /\ (\A k, y : BinId(k, y) \notin T) /\ \A u \in Threads \ {t} : MyIds(u) \cap T = {}
    BY IdsDiffer DEF MyIds
  <2>3. live' \subseteq SliceSet
    BY <1>4, <1>e, <2>1
  <2> HIDE DEF own2, T
  <2> QED BY <1>1, <1>s, <1>c, <1>f, <2>1, <2>2, <2>3 DEF Local
<1>v. LiveSlices(own2, st)'
  <2>1. \A y \in live' : y \in live /\ LiveId(y) \notin T
    BY <1>e, IdsDiffer
  <2> HIDE DEF own2, T
  <2> QED BY <1>4, <1>f, <2>1, KeepLive
<1>h. Hands(own2, st, t)'
  <2>1. SliceHeld(own2, st, SrcId(t), s)'
    <3>1. Block(own2, st, SrcId(t), BlockOf(s), BlockOf(s) + (s.len + MIN_ALIGN))
      BY <1>5, RenameFacts
    <3> HIDE DEF own2
    <3> QED BY <1>4, <1>c, <3>1 DEF SliceHeld, UsedBlock
  <2> HIDE DEF own2
  <2> QED BY <1>2, <1>3, <1>s, <1>c, <2>1 DEF Hands, SameHand
<1>m. Moving(own2, st, t)'
  BY <1>s DEF Moving, Pushing
<1>p. Place(t)'
  BY <1>1, <1>2, <1>3, <1>5, <1>6, <1>s DEF Place, Initialising, Asking, Serving, Found,
       Served, Freeing, Leaving, SplitBlock, InPlace, Carving, Pushing, Target, InHand, AskingAt,
       SameCall, SameHand, SameWalk
<1>i. Fitting(el, n, t)' /\ Failing(el, n, t)'
  BY <1>s DEF Fitting, Failing
<1> HIDE DEF own2, T
<1>q. HInv(own2, st, el, n)'
  BY <1>l, <1>v, <1>h, <1>m, <1>p, <1>i, LocalStep DEF Call
<1> QED BY <1>q

\* Return: the slice is the caller's, who fills its payload.
LEMMA HReturn ==
  ASSUME NEW own, NEW st, NEW el, NEW n, HInv(own, st, el, n), booted, LInv,
         NEW t \in Threads, Return(t)
  PROVE  \E own2 : HInv(own2, st, el, n)'
<1> USE DEF Goto, control, memory, client, setup
<1>1. /\ pc[t] \in Labels /\ Typed(r[t])
      /\ Hands(own, st, t) /\ Moving(own, st, t) /\ Place(t)
      /\ Fitting(el, n, t) /\ Failing(el, n, t)
      /\ JobInPlace(t) /\ FixedBinOnly(t)
      /\ pc \in [Threads -> Labels] /\ DOMAIN r = Threads
      /\ head \in [Bins -> Nat]
      /\ word0 \in [Granules -> Int] /\ word1 \in [Granules -> Int]
  BY Here
<1>2. /\ pc[t] = "return" /\ ~Carving(t) /\ r[t].op \in {"alloc", "free", "realloc"} /\ r[t].blk = 0
      /\ r[t].op = "realloc" /\ r[t].dst.ptr = 0 => r[t].job \notin {"keep", "shrink", "free"}
      /\ r[t].op = "realloc" => r[t].src.ptr # 0
  BY <1>1 DEF Return, Place, Carving, Pushing
<1>3. PICK s, kept : /\ s = r[t].dst
                     /\ kept = IF r[t].op = "realloc" /\ s = NullSlice THEN r[t].src ELSE s
  OBVIOUS
<1>4. PICK id : id = IF s = NullSlice THEN SrcId(t) ELSE DstId(t)
  OBVIOUS
<1>5. /\ s = NullSlice \/ (s.ptr # 0 /\ kept = s)
      /\ kept # NullSlice => SliceHeld(own, st, id, kept) /\ kept \in SliceSet
  <2>1. IF s.ptr = 0 THEN s = NullSlice ELSE SliceHeld(own, st, DstId(t), s)
    BY <1>1, <1>3 DEF Hands
  <2>2. NullSlice.ptr = 0
    BY DEF NullSlice
  <2>3. CASE s # NullSlice
    BY <1>1, <1>3, <1>4, <2>1, <2>3 DEF Typed
  <2>4. CASE s = NullSlice /\ r[t].op = "realloc"
    <3>1. HoldsSrc(t) /\ r[t].src \in SliceSet
      BY <1>1, <1>2, <1>3, <2>2, <2>4 DEF HoldsSrc, Typed
    <3> QED BY <1>1, <1>3, <1>4, <2>4, <3>1 DEF Hands
  <2>5. CASE s = NullSlice /\ r[t].op # "realloc"
    BY <1>3, <2>5
  <2> QED BY <2>3, <2>4, <2>5
<1>6. PICK fill : fill = PayloadOf(s.ptr, s.len)
  OBVIOUS
<1>7. \A a \in fill : a \in Granules /\ kept # NullSlice /\ own[a] = id /\ a # BlockOf(kept)
  <2>1. CASE s = NullSlice
    <3>1. \A a \in Granules : ~(0 <= a /\ a < 0 + 0)
      BY HeapBounds
    <3>2. fill = {}
      BY <1>6, <2>1, <3>1 DEF PayloadOf, NullSlice
    <3> QED BY <3>2
  <2>2. CASE s # NullSlice
    <3>1. kept = s /\ SliceHeld(own, st, id, s) /\ s \in SliceSet
      BY <1>5, <2>2
    <3>2. PICK b, size : b = BlockOf(s) /\ size = s.len + MIN_ALIGN
      OBVIOUS
    <3>3. /\ Held(own, st, id, b, b + size) /\ b \in Nat /\ size \in Nat
          /\ s.ptr = b + MIN_ALIGN /\ s.len \in Nat
      BY <3>1, <3>2, SliceFacts DEF Block
    <3>4. \A a \in fill : a \in Granules /\ a \in Nat /\ b < a /\ a < b + size
      BY <1>6, <3>2, <3>3, HeapBounds DEF PayloadOf
    <3> QED BY <2>2, <3>1, <3>2, <3>3, <3>4 DEF Held
  <2> QED BY <2>1, <2>2
<1>8. /\ word0' = [a \in Granules |-> IF a \in fill THEN Token(s.ptr) ELSE word0[a]]
      /\ word1' = [a \in Granules |-> IF a \in fill THEN Token(s.ptr) ELSE word1[a]]
      /\ live' = live \cup ({kept} \ {NullSlice})
  BY <1>3, <1>6 DEF Return
<1>9. word0' \in [Granules -> Int] /\ word1' \in [Granules -> Int]
  <2>1. s.ptr \in Int
    BY <1>1, <1>3 DEF Typed, SliceSet
  <2>2. Token(s.ptr) \in Int
    BY <2>1 DEF Token
  <2> QED BY <1>1, <1>8, <2>2
<1>10. LiveSlices(own, st) /\ live \subseteq SliceSet
  BY DEF HInv, Types
<1> DEFINE T == {id}
           own2 == Rename(own, id, LiveId(kept))
<1>s. /\ pc'[t] = "idle" /\ pc' = [pc EXCEPT ![t] = pc'[t]]
      /\ Typed(r'[t]) /\ r'[t] = NoLocals
  <2>1. Typed(NoLocals)
    BY Fields DEF NoLocals, Typed, Jobs, NullSlice, SliceSet
  <2> QED BY <1>1, <2>1 DEF Return
<1>c. /\ head' = head /\ bump' = bump
      /\ ~Carving(t) /\ ~Carving(t)' /\ pc'[t] \in Labels
  BY <1>1, <1>2, <1>s DEF Return, Carving, Pushing, Labels, MayCall
<1>f. Frame(T, own, st, own2, st)
  <2>1. \A a \in Granules : own[a] # id => own2[a] = own[a]
    BY RenameFacts
  <2>2. \A a \in Granules : own[a] # id => word0'[a] = word0[a] /\ word1'[a] = word1[a]
    BY <1>7, <1>8
  <2> HIDE DEF own2
  <2> QED BY <2>1, <2>2 DEF Frame
<1>l. Local(T, own, st, own2, st, t)
  <2>1. live \subseteq SliceSet /\ st \subseteq Granules \ {0}
    BY DEF HInv, Types
  <2>2. BumpId \notin T /\ (\A k, x : BinId(k, x) \notin T) /\ \A u \in Threads \ {t} : MyIds(u) \cap T = {}
    BY IdsDiffer, <1>4 DEF MyIds
  <2>3. live' \subseteq SliceSet
    BY <1>5, <1>8, <1>9, <1>10, <2>1
  <2> HIDE DEF own2, T
  <2> QED BY <1>1, <1>9, <1>s, <1>c, <1>f, <2>1, <2>2, <2>3 DEF Local
<1>v. LiveSlices(own2, st)'
  <2>1. \A x \in live : LiveId(x) \notin T
    BY <1>4, IdsDiffer DEF MyIds
  <2>2. kept # NullSlice => SliceHeld(own2, st, LiveId(kept), kept)'
    <3> SUFFICES ASSUME kept # NullSlice PROVE SliceHeld(own2, st, LiveId(kept), kept)'
      OBVIOUS
    <3>1. PICK b, size : b = BlockOf(kept) /\ size = kept.len + MIN_ALIGN
      OBVIOUS
    <3>2. UsedBlock(own, st, id, b, size)
      BY <1>5, <3>1 DEF SliceHeld
    <3>3. Block(own2, st, LiveId(kept), b, b + size)
      BY <3>2, RenameFacts DEF UsedBlock
    <3>4. b \in Granules
      BY <1>5, <3>1, SliceFacts
    <3>5. word0'[b] = word0[b]
      BY <1>7, <1>8, <3>1, <3>4
    <3> HIDE DEF own2
    <3> QED BY <3>1, <3>2, <3>3, <3>5 DEF SliceHeld, UsedBlock
  <2> HIDE DEF own2, T
  <2>3. \A x \in live : SliceHeld(own2, st, LiveId(x), x)'
    BY <1>10, <1>f, <2>1, FrameLive
  <2> QED BY <1>8, <2>2, <2>3 DEF LiveSlices
<1>h. Hands(own2, st, t)'
  BY <1>s, <1>c DEF Hands, HoldsSrc, NoLocals, NullSlice
<1>m. Moving(own2, st, t)'
  BY <1>s DEF Moving, Pushing
<1>p. Place(t)'
  BY <1>s DEF Place, Initialising, AskingAt, Carving, Pushing, NoLocals, NullSlice
<1>i. Fitting(el, n, t)' /\ Failing(el, n, t)'
  BY <1>s DEF Fitting, Failing
<1> HIDE DEF own2, T
<1>q. HInv(own2, st, el, n)'
  BY <1>l, <1>v, <1>h, <1>m, <1>p, <1>i, LocalStep DEF Step
<1> QED BY <1>q

-----------------------------------------------------------------------------
(* Steps that write a word of a block in hand.                              *)

-----------------------------------------------------------------------------
(* Headers and links written, and payload copied.                          *)

\* The block in hand.
LEMMA InHandFacts ==
  ASSUME NEW own, NEW st, NEW t, Hands(own, st, t), Typed(r[t]), r[t].blk # 0
  PROVE  /\ r[t].blk \in Granules /\ r[t].blk \in Nat \ {0} /\ r[t].blk % MIN_ALIGN = 0
         /\ r[t].blk \in st /\ own[r[t].blk] = BlockId(t) /\ HeapStart <= r[t].blk
         /\ InHand(t) \in Nat \ {0} /\ InHand(t) % MIN_ALIGN = 0 /\ r[t].top = r[t].blk + InHand(t)
         /\ r[t].top \in Nat /\ r[t].top % MIN_ALIGN = 0 /\ r[t].top <= heap_end
         /\ Held(own, st, BlockId(t), r[t].blk, r[t].top)
         /\ Block(own, st, BlockId(t), r[t].blk, r[t].top)
<1>1. PICK b, top : b = r[t].blk /\ top = r[t].top
  OBVIOUS
<1>2. Block(own, st, BlockId(t), b, top) /\ Held(own, st, BlockId(t), b, top) /\ b \in st
  BY <1>1 DEF Hands, Block
<1>3. /\ b \in Granules /\ b \in Nat \ {0} /\ top \in Nat /\ b < top /\ top <= heap_end
      /\ b % MIN_ALIGN = 0 /\ top % MIN_ALIGN = 0 /\ HeapStart <= b /\ own[b] = BlockId(t)
  BY <1>2, HeldFacts
<1>4. (top - b) % MIN_ALIGN = 0
  <2>1. top \in Int /\ b \in Int /\ MIN_ALIGN \in Nat \ {0}
    BY <1>3, HeapBounds
  <2> QED BY <1>3, <2>1, ModSum
<1>5. InHand(t) = top - b
  BY <1>1 DEF InHand
<1> QED BY <1>1, <1>2, <1>3, <1>4, <1>5

\* Writing a word of an owner's memory.
LEMMA WriteFrame ==
  ASSUME NEW own, NEW st, NEW id, NEW b \in Granules, own[b] = id, NEW w \in Int,
         word0 \in [Granules -> Int], word1 \in [Granules -> Int],
         \/ word0' = [word0 EXCEPT ![b] = w] /\ word1' = word1
         \/ word1' = [word1 EXCEPT ![b] = w] /\ word0' = word0
  PROVE  /\ Frame({id}, own, st, own, st)
         /\ word0' \in [Granules -> Int] /\ word1' \in [Granules -> Int]
BY DEF Frame

\* Stamp: the block a fixed request got.
LEMMA HStamp ==
  ASSUME NEW own, NEW st, NEW el, NEW n, HInv(own, st, el, n), booted, LInv,
         NEW t \in Threads, Stamp(t)
  PROVE  HInv(own, st, el, n)'
<1> USE DEF Goto, control, memory, client, setup
<1>1. /\ pc[t] \in Labels /\ Typed(r[t])
      /\ Hands(own, st, t) /\ Moving(own, st, t) /\ Place(t)
      /\ Fitting(el, n, t) /\ Failing(el, n, t)
      /\ JobInPlace(t) /\ FixedBinOnly(t)
      /\ pc \in [Threads -> Labels] /\ DOMAIN r = Threads
      /\ head \in [Bins -> Nat]
      /\ word0 \in [Granules -> Int] /\ word1 \in [Granules -> Int]
  BY Here
<1>2. /\ pc[t] = "stamp" /\ Found(t) /\ Serving(t) /\ r[t].blk # 0 /\ ~Carving(t)
      /\ r[t].job \in {"fast", "slow", "hit"} /\ r[t].top = r[t].blk + Target(t)
      /\ Valid(r[t].blk, Target(t))
  BY <1>1 DEF Stamp, Place, Carving, Pushing, Found
<1>b. /\ r[t].blk \in Granules /\ r[t].blk \in Nat \ {0} /\ own[r[t].blk] = BlockId(t)
      /\ InHand(t) \in Nat /\ InHand(t) % MIN_ALIGN = 0 /\ r[t].top = r[t].blk + InHand(t)
      /\ Held(own, st, BlockId(t), r[t].blk, r[t].top)
      /\ Block(own, st, BlockId(t), r[t].blk, r[t].top)
  BY <1>1, <1>2, InHandFacts
<1>t. Target(t) \in Nat /\ Target(t) % MIN_ALIGN = 0 /\ Target(t) % 16 = 0
  BY <1>2, <1>b, ValidFacts, CadAssumption
<1>w. pack(Target(t), USED) \in Int
  BY <1>t, HeaderFacts
<1>e. InHand(t) = Target(t)
  BY <1>2, <1>b, <1>t DEF InHand
<1> DEFINE T == {BlockId(t)}
           own2 == own
<1>s. /\ pc'[t] = "got" /\ pc' = [pc EXCEPT ![t] = pc'[t]]
      /\ Typed(r'[t])
      /\ SameCall(t) /\ SameHand(t) /\ SameWalk(t)
  BY <1>1 DEF Stamp, SameCall, SameHand, SameWalk
<1>c. /\ head' = head /\ bump' = bump /\ live' = live
      /\ ~Carving(t) /\ ~Carving(t)' /\ pc'[t] \in Labels
  BY <1>1, <1>2, <1>s DEF Stamp, Carving, Pushing, Labels, MayCall
<1>f. /\ Frame(T, own, st, own2, st)
      /\ word0' \in [Granules -> Int] /\ word1' \in [Granules -> Int]
      /\ word0'[r[t].blk] = pack(Target(t), USED)
  <2>1. PICK b, w : b = r[t].blk /\ w = pack(Target(t), USED)
    OBVIOUS
  <2>2. word0' = [word0 EXCEPT ![b] = w] /\ word1' = word1
    BY <2>1, <1>w DEF Stamp
  <2> QED BY <1>1, <1>b, <1>w, <2>1, <2>2, WriteFrame
<1>l. Local(T, own, st, own2, st, t)
  <2>1. live \subseteq SliceSet /\ st \subseteq Granules \ {0}
    BY DEF HInv, Types
  <2>2. BumpId \notin T /\ (\A k, x : BinId(k, x) \notin T) /\ \A u \in Threads \ {t} : MyIds(u) \cap T = {}
    BY IdsDiffer DEF MyIds
  <2>3. live' \subseteq SliceSet
    BY <1>1, <1>2, <1>s, <1>c, <2>1
  <2> HIDE DEF own2, T
  <2> QED BY <1>1, <1>s, <1>c, <1>f, <2>1, <2>2, <2>3 DEF Local
<1>v. LiveSlices(own2, st)'
  <2>1. \A x : LiveId(x) \notin T
    BY IdsDiffer DEF MyIds
  <2>2. LiveSlices(own, st)
    BY DEF HInv
  <2> HIDE DEF own2, T
  <2> QED BY <1>c, <1>f, <2>1, <2>2, KeepLive
<1>h. Hands(own2, st, t)'
  <2>1. SrcId(t) \notin T /\ DstId(t) \notin T
    BY IdsDiffer
  <2> HIDE DEF T
  <2>2. HoldsSrc(t)' => HoldsSrc(t)
    BY <1>s DEF HoldsSrc, SameCall
  <2>3. (HoldsSrc(t) => SliceHeld(own, st, SrcId(t), r[t].src))'
    BY <1>1, <1>s, <1>f, <2>1, <2>2, KeepHands DEF SameCall
  <2>4. (IF r[t].dst.ptr = 0 THEN r[t].dst = NullSlice ELSE SliceHeld(own, st, DstId(t), r[t].dst))'
    BY <1>1, <1>s, <1>f, <2>1, KeepHands DEF SameCall
  <2>5. r[t].lo = 0 /\ r[t].end = 0
    BY <1>1, <1>c DEF Hands
  <2>6. (r[t].blk # 0 => Block(own, st, BlockId(t), r[t].blk, r[t].top))'
    BY <1>1, <1>s DEF Hands, SameHand
  <2> QED BY <1>s, <1>c, <2>3, <2>4, <2>5, <2>6 DEF Hands, SameHand
<1>m. Moving(own2, st, t)'
  BY <1>s DEF Moving, Pushing
<1>p. Place(t)'
  <2>1. InHand(t)' = InHand(t) /\ Target(t)' = Target(t)
    BY <1>s DEF InHand, Target, SameCall, SameHand
  <2>2. Serving(t)'
    BY <1>2, <1>s DEF Serving, SameCall
  <2>3. Served(t)'
    BY <1>2, <1>b, <1>t, <1>e, <1>f, <1>s, <2>1 DEF Served, Serving, SameCall, SameHand
  <2>4. r'[t].prev = 0 /\ (r'[t].dst.ptr # 0 => r'[t].size <= r'[t].dst.len)
        /\ (r'[t].op = "realloc" => r'[t].src.ptr # 0) /\ (r'[t].op = "alloc" => r'[t].src.ptr = 0)
    BY <1>1, <1>2, <1>s DEF Place, SameCall, SameWalk
  <2> QED BY <1>1, <1>2, <1>s, <2>2, <2>3, <2>4 DEF Place, Initialising, AskingAt, Carving, Pushing, SameCall, SameHand, SameWalk, Serving
<1>i. Fitting(el, n, t)' /\ Failing(el, n, t)'
  BY <1>s DEF Fitting, Failing
<1> HIDE DEF own2, T
<1>q. HInv(own2, st, el, n)'
  BY <1>l, <1>v, <1>h, <1>m, <1>p, <1>i, LocalStep DEF Step
<1> QED BY <1>q DEF own2

\* OverStamp: the block an oversized request carved.
LEMMA HOverStamp ==
  ASSUME NEW own, NEW st, NEW el, NEW n, HInv(own, st, el, n), booted, LInv,
         NEW t \in Threads, OverStamp(t)
  PROVE  HInv(own, st, el, n)'
<1> USE DEF Goto, control, memory, client, setup
<1>1. /\ pc[t] \in Labels /\ Typed(r[t])
      /\ Hands(own, st, t) /\ Moving(own, st, t) /\ Place(t)
      /\ Fitting(el, n, t) /\ Failing(el, n, t)
      /\ JobInPlace(t) /\ FixedBinOnly(t)
      /\ pc \in [Threads -> Labels] /\ DOMAIN r = Threads
      /\ head \in [Bins -> Nat]
      /\ word0 \in [Granules -> Int] /\ word1 \in [Granules -> Int]
  BY Here
<1>2. /\ pc[t] = "over_stamp" /\ Found(t) /\ Serving(t) /\ r[t].blk # 0 /\ ~Carving(t)
      /\ r[t].job = "over" /\ r[t].top = r[t].blk + Target(t)
      /\ Valid(r[t].blk, Target(t))
  BY <1>1 DEF OverStamp, Place, Carving, Pushing, Found
<1>b. /\ r[t].blk \in Granules /\ r[t].blk \in Nat \ {0} /\ own[r[t].blk] = BlockId(t)
      /\ InHand(t) \in Nat /\ InHand(t) % MIN_ALIGN = 0 /\ r[t].top = r[t].blk + InHand(t)
      /\ Held(own, st, BlockId(t), r[t].blk, r[t].top)
      /\ Block(own, st, BlockId(t), r[t].blk, r[t].top)
  BY <1>1, <1>2, InHandFacts
<1>t. Target(t) \in Nat /\ Target(t) % MIN_ALIGN = 0 /\ Target(t) % 16 = 0
  BY <1>2, <1>b, ValidFacts, CadAssumption
<1>w. pack(Target(t), USED) \in Int
  BY <1>t, HeaderFacts
<1>e. InHand(t) = Target(t)
  BY <1>2, <1>b, <1>t DEF InHand
<1> DEFINE T == {BlockId(t)}
           own2 == own
<1>s. /\ pc'[t] = "unlock" /\ pc' = [pc EXCEPT ![t] = pc'[t]]
      /\ Typed(r'[t])
      /\ SameCall(t) /\ SameHand(t) /\ SameWalk(t)
  BY <1>1 DEF OverStamp, SameCall, SameHand, SameWalk
<1>c. /\ head' = head /\ bump' = bump /\ live' = live
      /\ ~Carving(t) /\ ~Carving(t)' /\ pc'[t] \in Labels
  BY <1>1, <1>2, <1>s DEF OverStamp, Carving, Pushing, Labels, MayCall
<1>f. /\ Frame(T, own, st, own2, st)
      /\ word0' \in [Granules -> Int] /\ word1' \in [Granules -> Int]
      /\ word0'[r[t].blk] = pack(Target(t), USED)
  <2>1. PICK b, w : b = r[t].blk /\ w = pack(Target(t), USED)
    OBVIOUS
  <2>2. word0' = [word0 EXCEPT ![b] = w] /\ word1' = word1
    BY <2>1, <1>w DEF OverStamp
  <2> QED BY <1>1, <1>b, <1>w, <2>1, <2>2, WriteFrame
<1>l. Local(T, own, st, own2, st, t)
  <2>1. live \subseteq SliceSet /\ st \subseteq Granules \ {0}
    BY DEF HInv, Types
  <2>2. BumpId \notin T /\ (\A k, x : BinId(k, x) \notin T) /\ \A u \in Threads \ {t} : MyIds(u) \cap T = {}
    BY IdsDiffer DEF MyIds
  <2>3. live' \subseteq SliceSet
    BY <1>1, <1>2, <1>s, <1>c, <2>1
  <2> HIDE DEF own2, T
  <2> QED BY <1>1, <1>s, <1>c, <1>f, <2>1, <2>2, <2>3 DEF Local
<1>v. LiveSlices(own2, st)'
  <2>1. \A x : LiveId(x) \notin T
    BY IdsDiffer DEF MyIds
  <2>2. LiveSlices(own, st)
    BY DEF HInv
  <2> HIDE DEF own2, T
  <2> QED BY <1>c, <1>f, <2>1, <2>2, KeepLive
<1>h. Hands(own2, st, t)'
  <2>1. SrcId(t) \notin T /\ DstId(t) \notin T
    BY IdsDiffer
  <2> HIDE DEF T
  <2>2. HoldsSrc(t)' => HoldsSrc(t)
    BY <1>s DEF HoldsSrc, SameCall
  <2>3. (HoldsSrc(t) => SliceHeld(own, st, SrcId(t), r[t].src))'
    BY <1>1, <1>s, <1>f, <2>1, <2>2, KeepHands DEF SameCall
  <2>4. (IF r[t].dst.ptr = 0 THEN r[t].dst = NullSlice ELSE SliceHeld(own, st, DstId(t), r[t].dst))'
    BY <1>1, <1>s, <1>f, <2>1, KeepHands DEF SameCall
  <2>5. r[t].lo = 0 /\ r[t].end = 0
    BY <1>1, <1>c DEF Hands
  <2>6. (r[t].blk # 0 => Block(own, st, BlockId(t), r[t].blk, r[t].top))'
    BY <1>1, <1>s DEF Hands, SameHand
  <2> QED BY <1>s, <1>c, <2>3, <2>4, <2>5, <2>6 DEF Hands, SameHand
<1>m. Moving(own2, st, t)'
  BY <1>s DEF Moving, Pushing
<1>p. Place(t)'
  <2>1. InHand(t)' = InHand(t) /\ Target(t)' = Target(t)
    BY <1>s DEF InHand, Target, SameCall, SameHand
  <2>2. Serving(t)'
    BY <1>2, <1>s DEF Serving, SameCall
  <2>3. Served(t)'
    BY <1>2, <1>b, <1>t, <1>e, <1>f, <1>s, <2>1 DEF Served, Serving, SameCall, SameHand
  <2>4. r'[t].prev = 0 /\ (r'[t].dst.ptr # 0 => r'[t].size <= r'[t].dst.len)
        /\ (r'[t].op = "realloc" => r'[t].src.ptr # 0) /\ (r'[t].op = "alloc" => r'[t].src.ptr = 0)
    BY <1>1, <1>2, <1>s DEF Place, SameCall, SameWalk
  <2> QED BY <1>1, <1>2, <1>s, <2>2, <2>3, <2>4 DEF Place, Initialising, AskingAt, Carving, Pushing, SameCall, SameHand, SameWalk, Serving
<1>i. Fitting(el, n, t)' /\ Failing(el, n, t)'
  BY <1>2, <1>s DEF Fitting, Failing, SameHand
<1> HIDE DEF own2, T
<1>q. HInv(own2, st, el, n)'
  BY <1>l, <1>v, <1>h, <1>m, <1>p, <1>i, LocalStep DEF Step
<1> QED BY <1>q DEF own2

\* FreeStamp: a block that is freed says so.
LEMMA HFreeStamp ==
  ASSUME NEW own, NEW st, NEW el, NEW n, HInv(own, st, el, n), booted, LInv,
         NEW t \in Threads, FreeStamp(t)
  PROVE  HInv(own, st, el, n)'
<1> USE DEF Goto, control, memory, client, setup
<1>1. /\ pc[t] \in Labels /\ Typed(r[t])
      /\ Hands(own, st, t) /\ Moving(own, st, t) /\ Place(t)
      /\ Fitting(el, n, t) /\ Failing(el, n, t)
      /\ JobInPlace(t) /\ FixedBinOnly(t)
      /\ pc \in [Threads -> Labels] /\ DOMAIN r = Threads
      /\ head \in [Bins -> Nat]
      /\ word0 \in [Granules -> Int] /\ word1 \in [Granules -> Int]
  BY Here
<1>2. /\ pc[t] = "free_stamp" /\ Freeing(t) /\ Leaving(t) /\ r[t].blk # 0 /\ ~Carving(t)
      /\ r[t].job = "free"
      /\ Valid(r[t].blk, InHand(t)) /\ r[t].bin = bin_index(InHand(t))
  <2>1. pc[t] = "free_stamp" /\ r[t].job = "free"
    BY <1>1 DEF FreeStamp, JobInPlace
  <2>2. Freeing(t) /\ Leaving(t) /\ ~Carving(t)
    BY <1>1, <2>1 DEF Place, Carving, Pushing
  <2> QED BY <2>1, <2>2 DEF Freeing
<1>b. /\ r[t].blk \in Granules /\ r[t].blk \in Nat \ {0} /\ own[r[t].blk] = BlockId(t)
      /\ InHand(t) \in Nat /\ InHand(t) % MIN_ALIGN = 0 /\ r[t].top = r[t].blk + InHand(t)
      /\ Held(own, st, BlockId(t), r[t].blk, r[t].top)
      /\ Block(own, st, BlockId(t), r[t].blk, r[t].top)
  BY <1>1, <1>2, InHandFacts
<1>t. InHand(t) % 16 = 0 /\ bin_index(InHand(t)) # oversize_bin => bin_index(InHand(t)) \in FixedBins
  BY <1>2, <1>b, ValidFacts, CadAssumption
<1>u. InHand(t) % 16 = 0
  BY <1>2, <1>b, ValidFacts, CadAssumption
<1>w. /\ pack(InHand(t), FREE) \in Int /\ header_size(pack(InHand(t), FREE)) = InHand(t)
      /\ pack(r[t].top - r[t].blk, FREE) = pack(InHand(t), FREE)
  BY <1>b, <1>u, HeaderFacts DEF InHand
<1> DEFINE T == {BlockId(t)}
           own2 == own
<1>s. /\ pc'[t] = (IF r[t].bin = oversize_bin THEN "lock" ELSE "push_load") /\ pc' = [pc EXCEPT ![t] = pc'[t]]
      /\ Typed(r'[t])
      /\ SameCall(t) /\ SameHand(t) /\ SameWalk(t)
  BY <1>1 DEF FreeStamp, FreeEntry, SameCall, SameHand, SameWalk
<1>c. /\ head' = head /\ bump' = bump /\ live' = live
      /\ ~Carving(t) /\ ~Carving(t)' /\ pc'[t] \in Labels
  BY <1>1, <1>2, <1>s DEF FreeStamp, Carving, Pushing, Labels, MayCall
<1>f. /\ Frame(T, own, st, own2, st)
      /\ word0' \in [Granules -> Int] /\ word1' \in [Granules -> Int]
      /\ word0'[r[t].blk] = pack(InHand(t), FREE)
  <2>1. PICK b, w : b = r[t].blk /\ w = pack(InHand(t), FREE)
    OBVIOUS
  <2>2. word0' = [word0 EXCEPT ![b] = w] /\ word1' = word1
    BY <2>1, <1>w DEF FreeStamp
  <2> QED BY <1>1, <1>b, <1>w, <2>1, <2>2, WriteFrame
<1>l. Local(T, own, st, own2, st, t)
  <2>1. live \subseteq SliceSet /\ st \subseteq Granules \ {0}
    BY DEF HInv, Types
  <2>2. BumpId \notin T /\ (\A k, x : BinId(k, x) \notin T) /\ \A u \in Threads \ {t} : MyIds(u) \cap T = {}
    BY IdsDiffer DEF MyIds
  <2>3. live' \subseteq SliceSet
    BY <1>1, <1>2, <1>s, <1>c, <2>1
  <2> HIDE DEF own2, T
  <2> QED BY <1>1, <1>s, <1>c, <1>f, <2>1, <2>2, <2>3 DEF Local
<1>v. LiveSlices(own2, st)'
  <2>1. \A x : LiveId(x) \notin T
    BY IdsDiffer DEF MyIds
  <2>2. LiveSlices(own, st)
    BY DEF HInv
  <2> HIDE DEF own2, T
  <2> QED BY <1>c, <1>f, <2>1, <2>2, KeepLive
<1>h. Hands(own2, st, t)'
  <2>1. SrcId(t) \notin T /\ DstId(t) \notin T
    BY IdsDiffer
  <2> HIDE DEF T
  <2>2. HoldsSrc(t)' => HoldsSrc(t)
    BY <1>s DEF HoldsSrc, SameCall
  <2>3. (HoldsSrc(t) => SliceHeld(own, st, SrcId(t), r[t].src))'
    BY <1>1, <1>s, <1>f, <2>1, <2>2, KeepHands DEF SameCall
  <2>4. (IF r[t].dst.ptr = 0 THEN r[t].dst = NullSlice ELSE SliceHeld(own, st, DstId(t), r[t].dst))'
    BY <1>1, <1>s, <1>f, <2>1, KeepHands DEF SameCall
  <2>5. r[t].lo = 0 /\ r[t].end = 0
    BY <1>1, <1>c DEF Hands
  <2>6. (r[t].blk # 0 => Block(own, st, BlockId(t), r[t].blk, r[t].top))'
    BY <1>1, <1>s DEF Hands, SameHand
  <2> QED BY <1>s, <1>c, <2>3, <2>4, <2>5, <2>6 DEF Hands, SameHand
<1>m. Moving(own2, st, t)'
  <2>1. Pushing(t)' => /\ r[t].bin \in FixedBins
                       /\ FreeBlock(own, st, BlockId(t), r[t].bin, r[t].blk)'
    <3>1. PICK b, size, k : b = r[t].blk /\ size = InHand(t) /\ k = r[t].bin
      OBVIOUS
    <3>2. word0'[b] = pack(size, FREE) /\ header_size(word0'[b]) = size
      BY <1>w, <1>f, <3>1
    <3>3. Block(own, st, BlockId(t), b, b + size) /\ Valid(b, size) /\ bin_index(size) = k
      BY <1>2, <1>b, <3>1
    <3>4. FreeBlock(own, st, BlockId(t), k, b)'
      BY <3>2, <3>3 DEF FreeBlock
    <3>5. r'[t].bin = k /\ r'[t].blk = b
      BY <1>s, <3>1 DEF SameHand, SameWalk
    <3>6. Pushing(t)' => k \in FixedBins
      BY <1>2, <1>s, <1>t, <1>u, <3>1 DEF Pushing
    <3> QED BY <3>1, <3>4, <3>5, <3>6
  <2>2. Piece(t)' = r'[t].blk /\ PushId(t)' = BlockId(t)
    BY <1>2, <1>s DEF Piece, PushId, SameCall
  <2> QED BY <1>s, <2>1, <2>2 DEF Moving, Pushing, SameHand, SameWalk
<1>p. Place(t)'
  <2>1. InHand(t)' = InHand(t)
    BY <1>s DEF InHand, SameCall, SameHand
  <2>2. Freeing(t)' /\ Leaving(t)'
    BY <1>2, <1>f, <1>s, <2>1 DEF Freeing, Leaving, SameCall, SameHand, SameWalk
  <2> QED BY <1>1, <1>2, <1>s, <2>2 DEF Place, Initialising, AskingAt, Carving, Pushing, SameCall, SameHand, SameWalk
<1>i. Fitting(el, n, t)' /\ Failing(el, n, t)'
  BY <1>s DEF Fitting, Failing
<1> HIDE DEF own2, T
<1>q. HInv(own2, st, el, n)'
  BY <1>l, <1>v, <1>h, <1>m, <1>p, <1>i, LocalStep DEF Step
<1> QED BY <1>q DEF own2

\* What SplitDone keeps.
LEMMA KeptSize ==
  ASSUME SafeUse, NEW own, NEW st, NEW el, NEW n, HInv(own, st, el, n), LInv,
         NEW t \in Threads, SplitDone(t)
  PROVE  /\ Valid(r[t].blk, Retained(t)) /\ Target(t) <= Retained(t) /\ Retained(t) <= InHand(t)
         /\ Retained(t) \in Nat \ {0} /\ Retained(t) % 16 = 0 /\ Retained(t) % MIN_ALIGN = 0
<1> USE DEF Goto, control, memory, client, setup
<1>1. /\ pc[t] \in Labels /\ Typed(r[t])
      /\ Hands(own, st, t) /\ Moving(own, st, t) /\ Place(t)
      /\ Fitting(el, n, t) /\ Failing(el, n, t)
      /\ JobInPlace(t) /\ FixedBinOnly(t)
      /\ pc \in [Threads -> Labels] /\ DOMAIN r = Threads
      /\ head \in [Bins -> Nat]
      /\ word0 \in [Granules -> Int] /\ word1 \in [Granules -> Int]
  BY Here
<1>2. /\ pc[t] = "split" /\ SplitBlock(t) /\ r[t].blk # 0 /\ ~Carving(t)
      /\ r[t].job \in {"fit", "shrink"} /\ r[t].size \in Requests
  <2>1. pc[t] = "split" /\ r[t].job \in {"fit", "shrink"}
    BY <1>1 DEF SplitDone, JobInPlace
  <2>2. SplitBlock(t) /\ ~Carving(t)
    BY <1>1, <2>1 DEF Place, Carving, Pushing
  <2> QED BY <2>1, <2>2 DEF SplitBlock
<1>b. /\ r[t].blk \in Granules /\ r[t].blk \in Nat \ {0} /\ own[r[t].blk] = BlockId(t)
      /\ InHand(t) \in Nat /\ InHand(t) % MIN_ALIGN = 0 /\ r[t].top = r[t].blk + InHand(t)
      /\ Held(own, st, BlockId(t), r[t].blk, r[t].top)
      /\ Block(own, st, BlockId(t), r[t].blk, r[t].top)
  BY <1>1, <1>2, InHandFacts
<1>t. /\ Valid(r[t].blk, Retained(t)) /\ Target(t) <= Retained(t) /\ Retained(t) <= InHand(t)
      /\ Retained(t) \in Nat \ {0} /\ Retained(t) % 16 = 0 /\ Retained(t) % MIN_ALIGN = 0
  <2>1. /\ Target(t) \in Nat /\ Target(t) >= LNR_FLOOR /\ is_block_exact(Target(t))
    BY <1>2, RequestOk DEF Target
  <2>2. /\ Target(t) <= InHand(t) /\ r[t].blk % align_of_bin(bin_index(InHand(t))) = 0
        /\ r[t].iter = 0 => Valid(r[t].blk, InHand(t))
    BY <1>2, <1>b, <2>1 DEF SplitBlock
  <2>3. r[t].iter \in Nat /\ r[t].blk \in Int
    BY <1>1 DEF Typed
  <2>4. PICK b, size, need, iter : b = r[t].blk /\ size = InHand(t) /\ need = Target(t) /\ iter = r[t].iter
    OBVIOUS
  <2>5. Valid(b, retained_size(size, need, iter)) /\ need <= retained_size(size, need, iter)
        /\ retained_size(size, need, iter) <= size
    BY <1>b, <2>1, <2>2, <2>3, <2>4, RetainedValid, CadAssumption
  <2>6. Valid(r[t].blk, Retained(t)) /\ Target(t) <= Retained(t) /\ Retained(t) <= InHand(t)
    BY <2>4, <2>5 DEF Retained
  <2>7. Retained(t) \in Nat /\ Retained(t) % 16 = 0 /\ Retained(t) % MIN_ALIGN = 0 /\ Retained(t) >= 2 * MIN_ALIGN
    BY <2>3, <2>6, ValidFacts, CadAssumption
  <2> QED BY <2>6, <2>7, HeapBounds
<1> QED BY <1>t

\* SplitDone: what is retained is stamped.
LEMMA HSplitDone ==
  ASSUME SafeUse, NEW own, NEW st, NEW el, NEW n, HInv(own, st, el, n), booted, LInv,
         NEW t \in Threads, SplitDone(t)
  PROVE  HInv(own, st, el, n)'
<1> USE DEF Goto, control, memory, client, setup
<1>1. /\ pc[t] \in Labels /\ Typed(r[t])
      /\ Hands(own, st, t) /\ Moving(own, st, t) /\ Place(t)
      /\ Fitting(el, n, t) /\ Failing(el, n, t)
      /\ JobInPlace(t) /\ FixedBinOnly(t)
      /\ pc \in [Threads -> Labels] /\ DOMAIN r = Threads
      /\ head \in [Bins -> Nat]
      /\ word0 \in [Granules -> Int] /\ word1 \in [Granules -> Int]
  BY Here
<1>2. /\ pc[t] = "split" /\ SplitBlock(t) /\ r[t].blk # 0 /\ ~Carving(t)
      /\ r[t].job \in {"fit", "shrink"} /\ r[t].size \in Requests
  <2>1. pc[t] = "split" /\ r[t].job \in {"fit", "shrink"}
    BY <1>1 DEF SplitDone, JobInPlace
  <2>2. SplitBlock(t) /\ ~Carving(t)
    BY <1>1, <2>1 DEF Place, Carving, Pushing
  <2> QED BY <2>1, <2>2 DEF SplitBlock
<1>b. /\ r[t].blk \in Granules /\ r[t].blk \in Nat \ {0} /\ own[r[t].blk] = BlockId(t)
      /\ InHand(t) \in Nat /\ InHand(t) % MIN_ALIGN = 0 /\ r[t].top = r[t].blk + InHand(t)
      /\ Held(own, st, BlockId(t), r[t].blk, r[t].top)
      /\ Block(own, st, BlockId(t), r[t].blk, r[t].top)
  BY <1>1, <1>2, InHandFacts
<1>t. /\ Valid(r[t].blk, Retained(t)) /\ Target(t) <= Retained(t) /\ Retained(t) <= InHand(t)
      /\ Retained(t) \in Nat \ {0} /\ Retained(t) % 16 = 0 /\ Retained(t) % MIN_ALIGN = 0
  BY KeptSize
<1>w. pack(Retained(t), USED) \in Int
  BY <1>t, HeaderFacts
<1> DEFINE T == {BlockId(t)}
           own2 == own
<1>s. /\ pc'[t] = "unlock" /\ pc' = [pc EXCEPT ![t] = pc'[t]]
      /\ Typed(r'[t])
      /\ SameCall(t) /\ r'[t].blk = r[t].blk /\ r'[t].top = r[t].blk + Retained(t)
      /\ r'[t].lo = r[t].lo /\ r'[t].end = r[t].end /\ r'[t].bin = r[t].bin
      /\ r'[t].old = r[t].old /\ r'[t].nxt = r[t].nxt /\ r'[t].prev = r[t].prev
      /\ r'[t].cur = r[t].cur /\ r'[t].iter = 0
  <2>1. PICK top : top = r[t].blk + Retained(t)
    OBVIOUS
  <2>2. top \in Int
    BY <1>b, <1>t, <2>1
  <2>3. r' = [r EXCEPT ![t].top = top, ![t].iter = 0]
    BY <2>1 DEF SplitDone
  <2> QED BY <1>1, <2>1, <2>2, <2>3, Fields DEF SplitDone, Typed, Jobs, SameCall
<1>c. /\ head' = head /\ bump' = bump /\ live' = live
      /\ ~Carving(t) /\ ~Carving(t)' /\ pc'[t] \in Labels
  BY <1>1, <1>2, <1>s DEF SplitDone, Carving, Pushing, Labels, MayCall
<1>f. /\ Frame(T, own, st, own2, st)
      /\ word0' \in [Granules -> Int] /\ word1' \in [Granules -> Int]
      /\ word0'[r[t].blk] = pack(Retained(t), USED)
  <2>1. PICK b, w : b = r[t].blk /\ w = pack(Retained(t), USED)
    OBVIOUS
  <2>2. word0' = [word0 EXCEPT ![b] = w] /\ word1' = word1
    BY <2>1, <1>w DEF SplitDone
  <2> QED BY <1>1, <1>b, <1>w, <2>1, <2>2, WriteFrame
<1>l. Local(T, own, st, own2, st, t)
  <2>1. live \subseteq SliceSet /\ st \subseteq Granules \ {0}
    BY DEF HInv, Types
  <2>2. BumpId \notin T /\ (\A k, x : BinId(k, x) \notin T) /\ \A u \in Threads \ {t} : MyIds(u) \cap T = {}
    BY IdsDiffer DEF MyIds
  <2>3. live' \subseteq SliceSet
    BY <1>1, <1>2, <1>s, <1>c, <2>1
  <2> HIDE DEF own2, T
  <2> QED BY <1>1, <1>s, <1>c, <1>f, <2>1, <2>2, <2>3 DEF Local
<1>v. LiveSlices(own2, st)'
  <2>1. \A x : LiveId(x) \notin T
    BY IdsDiffer DEF MyIds
  <2>2. LiveSlices(own, st)
    BY DEF HInv
  <2> HIDE DEF own2, T
  <2> QED BY <1>c, <1>f, <2>1, <2>2, KeepLive
<1>h. Hands(own2, st, t)'
  <2>1. SrcId(t) \notin T /\ DstId(t) \notin T
    BY IdsDiffer
  <2> HIDE DEF T
  <2>2. HoldsSrc(t)' => HoldsSrc(t)
    BY <1>s DEF HoldsSrc, SameCall
  <2>3. (HoldsSrc(t) => SliceHeld(own, st, SrcId(t), r[t].src))'
    BY <1>1, <1>s, <1>f, <2>1, <2>2, KeepHands DEF SameCall
  <2>4. (IF r[t].dst.ptr = 0 THEN r[t].dst = NullSlice ELSE SliceHeld(own, st, DstId(t), r[t].dst))'
    BY <1>1, <1>s, <1>f, <2>1, KeepHands DEF SameCall
  <2>5. r[t].lo = 0 /\ r[t].end = 0
    BY <1>1, <1>c DEF Hands
  <2>6. (r[t].blk # 0 => Block(own, st, BlockId(t), r[t].blk, r[t].top))'
    <3>1. PICK b, top, to : b = r[t].blk /\ top = r[t].top /\ to = b + Retained(t)
      OBVIOUS
    <3>2. to \in Int /\ b < to /\ to <= top /\ to % MIN_ALIGN = 0
      <4>1. PICK size : size = Retained(t)
        OBVIOUS
      <4>2. b \in Int /\ size \in Int /\ b % MIN_ALIGN = 0 /\ size % MIN_ALIGN = 0 /\ size > 0
        BY <1>b, <1>t, <3>1, <4>1 DEF Held
      <4>3. (b + size) % MIN_ALIGN = 0
        BY <4>2, HeapBounds, ModSum
      <4> QED BY <1>b, <1>t, <3>1, <4>1, <4>2, <4>3
    <3>3. Held(own, st, BlockId(t), b, top) /\ b \in st
      BY <1>b, <3>1 DEF Block
    <3>4. \A a \in Granules : a < to => a < top
      BY <3>2, <3>3, HeapBounds DEF Held
    <3>5. heap_end \in Int /\ top \in Int
      BY <3>3, HeapBounds DEF Held
    <3>6. Block(own, st, BlockId(t), b, to)
      BY <3>2, <3>3, <3>4, <3>5 DEF Block, Held
    <3> QED BY <1>s, <3>1, <3>6
  <2> QED BY <1>s, <1>c, <2>3, <2>4, <2>5, <2>6 DEF Hands, SameHand
<1>m. Moving(own2, st, t)'
  BY <1>s DEF Moving, Pushing
<1>p. Place(t)'
  <2>1. InHand(t)' = Retained(t) /\ Target(t)' = Target(t)
    BY <1>b, <1>t, <1>s DEF InHand, Target, SameCall
  <2>2. Served(t)' /\ InPlace(t)'
    BY <1>2, <1>b, <1>t, <1>f, <1>s, <2>1 DEF Served, SplitBlock, InPlace, SameCall
  <2>3. r'[t].prev = 0 /\ (r'[t].dst.ptr # 0 => r'[t].size <= r'[t].dst.len)
        /\ (r'[t].op = "realloc" => r'[t].src.ptr # 0) /\ (r'[t].op = "alloc" => r'[t].src.ptr = 0)
        /\ r'[t].op \in {"alloc", "realloc"} /\ r'[t].dst = NullSlice
    BY <1>1, <1>2, <1>s DEF Place, SameCall, SplitBlock
  <2> QED BY <1>1, <1>2, <1>s, <2>2, <2>3 DEF Place, Initialising, AskingAt, Carving, Pushing, SameCall, Serving
<1>i. Fitting(el, n, t)' /\ Failing(el, n, t)'
  BY <1>2, <1>s DEF Fitting, Failing
<1> HIDE DEF own2, T
<1>q. HInv(own2, st, el, n)'
  BY <1>l, <1>v, <1>h, <1>m, <1>p, <1>i, LocalStep DEF Step
<1> QED BY <1>q DEF own2

\* PushStore: the link is written.
LEMMA HPushStore ==
  ASSUME NEW own, NEW st, NEW el, NEW n, HInv(own, st, el, n), booted, LInv,
         NEW t \in Threads, PushStore(t)
  PROVE  HInv(own, st, el, n)'
<1> USE DEF Goto, control, memory, client, setup
<1>1. /\ pc[t] \in Labels /\ Typed(r[t])
      /\ Hands(own, st, t) /\ Moving(own, st, t) /\ Place(t)
      /\ pc \in [Threads -> Labels] /\ DOMAIN r = Threads
      /\ head \in [Bins -> Nat]
      /\ word0 \in [Granules -> Int] /\ word1 \in [Granules -> Int]
  BY Here
<1>2. /\ pc[t] = "push_store" /\ Pushing(t) /\ r[t].old \in Nat
      /\ FreeBlock(own, st, PushId(t), r[t].bin, Piece(t)) /\ r[t].bin \in FixedBins
  BY <1>1 DEF PushStore, Moving, Pushing
<1>3. PICK id, b, k, w : id = PushId(t) /\ b = Piece(t) /\ k = r[t].bin /\ w = AddrOf(r[t].old)
  OBVIOUS
<1>4. FreeBlock(own, st, id, k, b) /\ b \in Granules /\ own[b] = id
  <2>1. FreeBlock(own, st, id, k, b)
    BY <1>2, <1>3
  <2> QED BY <2>1, HeldFacts DEF FreeBlock, Block
<1>5. w \in Int
  <2>1. 0 % MIN_ALIGN = 0
    BY HeapBounds
  <2> QED BY <1>2, <1>3, <2>1, HeadFacts
<1>6. /\ pc'[t] = "push_cas" /\ pc' = [pc EXCEPT ![t] = pc'[t]] /\ Pushing(t)' /\ r' = r
      /\ head' = head /\ bump' = bump /\ word0' = word0 /\ live' = live
      /\ word1' = [word1 EXCEPT ![b] = w] /\ word1'[b] = w
      /\ (Carving(t)' <=> Carving(t)) /\ pc'[t] \in Labels
  BY <1>1, <1>2, <1>3, <1>4 DEF PushStore, Carving, Pushing, Labels
<1> DEFINE T == {id}
<1>7. Frame(T, own, st, own, st) /\ word1' \in [Granules -> Int]
  BY <1>1, <1>4, <1>5, <1>6, WriteFrame
<1>8. id = BlockId(t) \/ id = PieceId(t)
  BY <1>3 DEF PushId
<1>9. /\ BumpId \notin T /\ (\A i, x : BinId(i, x) \notin T) /\ (\A x : LiveId(x) \notin T)
      /\ \A u \in Threads \ {t} : MyIds(u) \cap T = {}
      /\ SrcId(t) \notin T /\ DstId(t) \notin T
  BY <1>8, IdsDiffer DEF MyIds
<1> HIDE DEF T
<1>10. Local(T, own, st, own, st, t)
  <2>1. live \subseteq SliceSet /\ st \subseteq Granules \ {0}
    BY DEF HInv, Types
  <2> QED BY <1>1, <1>6, <1>7, <1>9, <2>1 DEF Local
<1>11. LiveSlices(own, st)'
  <2>1. LiveSlices(own, st)
    BY DEF HInv
  <2> QED BY <1>6, <1>7, <1>9, <2>1, KeepLive
<1>12. Hands(own, st, t)'
  <2>1. HoldsSrc(t)' => HoldsSrc(t)
    BY <1>6 DEF HoldsSrc
  <2>2. (HoldsSrc(t) => SliceHeld(own, st, SrcId(t), r[t].src))'
    BY <1>1, <1>6, <1>7, <1>9, <2>1, KeepHands
  <2>3. (IF r[t].dst.ptr = 0 THEN r[t].dst = NullSlice ELSE SliceHeld(own, st, DstId(t), r[t].dst))'
    BY <1>1, <1>6, <1>7, <1>9, KeepHands
  <2> QED BY <1>1, <1>6, <2>2, <2>3 DEF Hands
<1>13. Moving(own, st, t)'
  <2>1. FreeBlock(own, st, id, k, b)'
    BY <1>4, <1>6 DEF FreeBlock
  <2>2. PushId(t)' = id /\ r'[t].bin = k /\ Piece(t)' = b /\ AddrOf(r'[t].old) = w
    BY <1>3, <1>6 DEF PushId, Piece
  <2> QED BY <1>2, <1>3, <1>6, <2>1, <2>2 DEF Moving
<1>14. Place(t)'
  BY <1>1, <1>2, <1>6 DEF Place, Initialising, Asking, Serving, Found,
       Served, Freeing, Leaving, SplitBlock, InPlace, Carving, Pushing, Target, InHand, AskingAt,
       SameCall, SameHand, SameWalk
<1>15. Fitting(el, n, t)' /\ Failing(el, n, t)'
  BY <1>6 DEF Fitting, Failing
<1> QED BY <1>10, <1>11, <1>12, <1>13, <1>14, <1>15, LocalStep DEF Step

\* Copy: the payload moves into the new block.
LEMMA HCopy ==
  ASSUME NEW own, NEW st, NEW el, NEW n, HInv(own, st, el, n), booted, LInv,
         NEW t \in Threads, Copy(t)
  PROVE  HInv(own, st, el, n)'
<1> USE DEF Goto, control, memory, client, setup
<1>1. /\ pc[t] \in Labels /\ Typed(r[t])
      /\ Hands(own, st, t) /\ Moving(own, st, t) /\ Place(t)
      /\ Fitting(el, n, t) /\ Failing(el, n, t)
      /\ JobInPlace(t) /\ FixedBinOnly(t)
      /\ pc \in [Threads -> Labels] /\ DOMAIN r = Threads
      /\ head \in [Bins -> Nat]
      /\ word0 \in [Granules -> Int] /\ word1 \in [Granules -> Int]
  BY Here
<1>2. /\ pc[t] = "copy" /\ ~Carving(t) /\ Leaving(t) /\ r[t].op = "realloc" /\ r[t].blk = 0
      /\ r[t].dst.ptr # 0
  BY <1>1 DEF Copy, Place, Carving, Pushing, Leaving
<1>3. PICK s : s = r[t].dst
  OBVIOUS
<1>4. PICK b, size : b = BlockOf(s) /\ size = s.len + MIN_ALIGN
  OBVIOUS
<1>5. SliceHeld(own, st, DstId(t), s) /\ s \in SliceSet
  BY <1>1, <1>2, <1>3 DEF Hands, Typed
<1>6. /\ Held(own, st, DstId(t), b, b + size) /\ b \in Nat /\ size \in Nat /\ b \in Granules
      /\ s.ptr = b + MIN_ALIGN /\ s.len \in Nat
  BY <1>4, <1>5, SliceFacts DEF Block
<1>7. PICK into, from : into = PayloadOf(s.ptr, Smaller(r[t].usable, s.len)) /\ from = r[t].src.ptr
  OBVIOUS
<1>8. \A a \in into : a \in Granules /\ own[a] = DstId(t) /\ a # b
  <2>1. \A a \in into : a \in Granules /\ a \in Nat /\ b < a /\ a < b + size
    <3>1. PICK x : x = Smaller(r[t].usable, s.len)
      OBVIOUS
    <3>2. x \in Int /\ x <= s.len
      BY <1>1, <1>6, <3>1 DEF Smaller, Typed
    <3> QED BY <1>4, <1>6, <1>7, <3>1, <3>2, HeapBounds DEF PayloadOf
  <2> QED BY <1>6, <2>1 DEF Held
<1>9. /\ word0' = [a \in Granules |-> IF a \in into THEN At(word0, a - s.ptr + from) ELSE word0[a]]
      /\ word1' = [a \in Granules |-> IF a \in into THEN At(word1, a - s.ptr + from) ELSE word1[a]]
  BY <1>3, <1>7 DEF Copy
<1>10. word0' \in [Granules -> Int] /\ word1' \in [Granules -> Int]
  <2>1. \A x : At(word0, x) \in Int /\ At(word1, x) \in Int
    BY <1>1 DEF At
  <2> QED BY <1>1, <1>9, <2>1
<1>11. word0'[b] = word0[b]
  BY <1>6, <1>8, <1>9
<1> DEFINE T == {DstId(t)}
           own2 == own
<1>s. /\ pc'[t] = "free_load" /\ pc' = [pc EXCEPT ![t] = pc'[t]]
      /\ Typed(r'[t])
      /\ SameCall(t) /\ SameHand(t) /\ SameWalk(t)
  BY <1>1 DEF Copy, SameCall, SameHand, SameWalk
<1>c. /\ head' = head /\ bump' = bump /\ live' = live
      /\ ~Carving(t) /\ ~Carving(t)' /\ pc'[t] \in Labels
  BY <1>1, <1>2, <1>s DEF Copy, Carving, Pushing, Labels, MayCall
<1>f. Frame(T, own, st, own2, st) /\ word0' \in [Granules -> Int] /\ word1' \in [Granules -> Int]
  BY <1>8, <1>9, <1>10 DEF Frame
<1>l. Local(T, own, st, own2, st, t)
  <2>1. live \subseteq SliceSet /\ st \subseteq Granules \ {0}
    BY DEF HInv, Types
  <2>2. BumpId \notin T /\ (\A k, x : BinId(k, x) \notin T) /\ \A u \in Threads \ {t} : MyIds(u) \cap T = {}
    BY IdsDiffer DEF MyIds
  <2>3. live' \subseteq SliceSet
    BY <1>1, <1>2, <1>s, <1>c, <2>1
  <2> HIDE DEF own2, T
  <2> QED BY <1>1, <1>s, <1>c, <1>f, <2>1, <2>2, <2>3 DEF Local
<1>v. LiveSlices(own2, st)'
  <2>1. \A x : LiveId(x) \notin T
    BY IdsDiffer DEF MyIds
  <2>2. LiveSlices(own, st)
    BY DEF HInv
  <2> HIDE DEF own2, T
  <2> QED BY <1>c, <1>f, <2>1, <2>2, KeepLive
<1>h. Hands(own2, st, t)'
  <2>1. SrcId(t) \notin T
    BY IdsDiffer
  <2> HIDE DEF T
  <2>2. HoldsSrc(t)' => HoldsSrc(t)
    BY <1>s DEF HoldsSrc, SameCall
  <2>3. (HoldsSrc(t) => SliceHeld(own, st, SrcId(t), r[t].src))'
    BY <1>1, <1>s, <1>f, <2>1, <2>2, KeepHands DEF SameCall
  <2>4. SliceHeld(own, st, DstId(t), s)'
    BY <1>4, <1>5, <1>11 DEF SliceHeld, UsedBlock
  <2>5. r[t].lo = 0 /\ r[t].end = 0
    BY <1>1, <1>2 DEF Hands
  <2> QED BY <1>2, <1>3, <1>s, <1>c, <2>3, <2>4, <2>5 DEF Hands, SameCall, SameHand
<1>m. Moving(own2, st, t)'
  BY <1>s DEF Moving, Pushing
<1>p. Place(t)'
  BY <1>1, <1>2, <1>s DEF Place, Initialising, Asking, Serving, Found,
       Served, Freeing, Leaving, SplitBlock, InPlace, Carving, Pushing, Target, InHand, AskingAt,
       SameCall, SameHand, SameWalk
<1>i. Fitting(el, n, t)' /\ Failing(el, n, t)'
  BY <1>s DEF Fitting, Failing
<1> HIDE DEF own2, T
<1>q. HInv(own2, st, el, n)'
  BY <1>l, <1>v, <1>h, <1>m, <1>p, <1>i, LocalStep DEF Step
<1> QED BY <1>q DEF own2

-----------------------------------------------------------------------------
(* Steps that change a list.                                                *)

-----------------------------------------------------------------------------
(* The lists change.                                                       *)

Pushed(el, n, k, b) == [el EXCEPT ![k] = [@ EXCEPT ![n[k] + 1] = b]]
Longer(n, k) == [n EXCEPT ![k] = @ + 1]
Shorter(n, k) == [n EXCEPT ![k] = @ - 1]

\* How a list grows.
LEMMA PushedIs ==
  ASSUME NEW el \in [Bins -> [Nat -> Int]], NEW n \in [Bins -> Nat], NEW k \in Bins, NEW b \in Int
  PROVE  /\ Pushed(el, n, k, b) \in [Bins -> [Nat -> Int]] /\ Longer(n, k) \in [Bins -> Nat]
         /\ Longer(n, k)[k] = n[k] + 1 /\ Pushed(el, n, k, b)[k][n[k] + 1] = b
         /\ \A i \in Nat : i # n[k] + 1 => Pushed(el, n, k, b)[k][i] = el[k][i]
         /\ \A j \in Bins \ {k} : Longer(n, k)[j] = n[j] /\ Pushed(el, n, k, b)[j] = el[j]
<1>1. n[k] \in Nat /\ n[k] + 1 \in Nat /\ el[k] \in [Nat -> Int]
  OBVIOUS
<1> QED BY <1>1 DEF Pushed, Longer

\* A step that pushes b on list k.
Push(T, own, st, own2, st2, el, n, k, b, w) ==
  /\ Frame(T, own, st, own2, st2)
  /\ Lists(own, st, el, n) /\ \A j, x : BinId(j, x) \notin T
  /\ b \in Granules /\ own[b] \in T /\ FreeBlock(own2, st2, BinId(k, b), k, b)'
  /\ word1'[b] = el[k][n[k]]
  /\ head' = [head EXCEPT ![k] = w] /\ w \in Nat /\ AddrOf(w) = b /\ (k = oversize_bin => w = b)

(* The lists after a push.                                                  *)
LEMMA ListGrows ==
  ASSUME NEW T, NEW own, NEW st, NEW own2, NEW st2, head \in [Bins -> Nat],
         NEW el \in [Bins -> [Nat -> Int]], NEW n \in [Bins -> Nat],
         NEW k \in Bins, NEW b, NEW w, Push(T, own, st, own2, st2, el, n, k, b, w)
  PROVE  /\ Lists(own2, st2, Pushed(el, n, k, b), Longer(n, k))'
         /\ head' \in [Bins -> Nat]
<1>1. /\ Frame(T, own, st, own2, st2)
      /\ Lists(own, st, el, n) /\ \A j, x : BinId(j, x) \notin T
      /\ b \in Granules /\ own[b] \in T /\ FreeBlock(own2, st2, BinId(k, b), k, b)'
      /\ word1'[b] = el[k][n[k]]
      /\ head' = [head EXCEPT ![k] = w] /\ w \in Nat /\ AddrOf(w) = b /\ (k = oversize_bin => w = b)
  BY DEF Push
<1>2. b \in Int
  BY <1>1, HeapBounds
<1>3. /\ Longer(n, k)[k] = n[k] + 1 /\ Pushed(el, n, k, b)[k][n[k] + 1] = b
      /\ \A i \in Nat : i # n[k] + 1 => Pushed(el, n, k, b)[k][i] = el[k][i]
      /\ \A j \in Bins \ {k} : Longer(n, k)[j] = n[j] /\ Pushed(el, n, k, b)[j] = el[j]
  <2> HIDE DEF Push
  <2>1. b \in Int /\ n \in [Bins -> Nat] /\ el \in [Bins -> [Nat -> Int]] /\ k \in Bins
    BY <1>2
  <2>2. n[k] \in Nat /\ n[k] + 1 \in Nat /\ el[k] \in [Nat -> Int]
    OBVIOUS
  <2> QED BY <2>1, <2>2 DEF Pushed, Longer
<1> DEFINE el2 == Pushed(el, n, k, b)
           n2 == Longer(n, k)
<1>9. /\ n2[k] = n[k] + 1 /\ el2[k][n[k] + 1] = b
      /\ \A i \in Nat : i # n[k] + 1 => el2[k][i] = el[k][i]
      /\ \A j \in Bins \ {k} : n2[j] = n[j] /\ el2[j] = el[j]
  BY <1>3
<1> HIDE DEF el2, n2
<1>4. n[k] \in Nat
  OBVIOUS
<1>5. \A j \in Bins : el2[j][0] = 0 /\ AddrOf(head'[j]) = el2[j][n2[j]]
  <2>1. \A j \in Bins : el[j][0] = 0 /\ AddrOf(head[j]) = el[j][n[j]]
    BY <1>1 DEF Lists
  <2>2. el2[k][0] = 0
    BY <1>9, <1>4, <2>1
  <2>3. head'[k] = w
    BY <1>1
  <2>4. \A j \in Bins \ {k} : head'[j] = head[j]
    BY <1>1
  <2> QED BY <1>1, <1>9, <2>1, <2>2, <2>3, <2>4
<1>6. head'[oversize_bin] = el2[oversize_bin][n2[oversize_bin]]
  <2>1. head[oversize_bin] = el[oversize_bin][n[oversize_bin]] /\ oversize_bin \in Bins
    BY <1>1, OversizeIsABin DEF Lists
  <2>2. CASE k = oversize_bin
    BY <1>1, <1>9, <2>2
  <2>3. CASE k # oversize_bin
    BY <1>1, <1>9, <2>1, <2>3
  <2> QED BY <2>2, <2>3
<1>7. ASSUME NEW j \in Bins, NEW i \in 1 .. n2[j]
      PROVE  /\ FreeBlock(own2, st2, BinId(j, el2[j][i]), j, el2[j][i])'
             /\ word1'[el2[j][i]] = el2[j][i - 1]
             /\ \A m \in 1 .. n2[j] : el2[j][i] = el2[j][m] => i = m
  <2>1. \A m \in 1 .. n[j] :
          /\ FreeBlock(own2, st2, BinId(j, el[j][m]), j, el[j][m])'
          /\ word1'[el[j][m]] = el[j][m - 1]
    BY <1>1, FrameLists
  <2>2. \A i1, i2 \in 1 .. n[j] : el[j][i1] = el[j][i2] => i1 = i2
    BY <1>1 DEF Lists
  <2>3. \A m \in 1 .. n[k] : el[k][m] # b
    BY <1>1, ListBlock
  <2>4. CASE j # k
    BY <1>9, <2>1, <2>2, <2>4
  <2>5. CASE j = k /\ i = n[k] + 1
    <3>1. el2[j][i] = b /\ el2[j][i - 1] = el[k][n[k]]
      BY <1>9, <1>4, <2>5
    <3>2. \A m \in 1 .. n2[j] : m # i => m \in 1 .. n[k] /\ el2[j][m] = el[k][m]
      BY <1>9, <1>4, <2>5
    <3> QED BY <1>1, <2>3, <2>5, <3>1, <3>2
  <2>6. CASE j = k /\ i # n[k] + 1
    <3>1. i \in 1 .. n[k] /\ el2[j][i] = el[k][i] /\ el2[j][i - 1] = el[k][i - 1]
      <4>1. n2[j] = n[k] + 1 /\ i \in Nat /\ i - 1 \in Nat /\ i # n[k] + 1 /\ i - 1 # n[k] + 1
        BY <1>9, <1>4, <2>6
      <4>2. i \in 1 .. n[k]
        BY <1>4, <4>1
      <4> QED BY <1>9, <2>6, <4>1, <4>2
    <3>2. \A m \in 1 .. n2[j] : m # n[k] + 1 => m \in 1 .. n[k] /\ el2[j][m] = el[k][m]
      <4>1. n2[j] = n[k] + 1
        BY <1>9, <2>6
      <4>2. \A m \in 1 .. n2[j] : m # n[k] + 1 => m \in 1 .. n[k] /\ m \in Nat
        BY <1>4, <4>1
      <4> QED BY <1>9, <2>6, <4>2
    <3>3. \A m \in 1 .. n2[j] : el2[j][i] = el2[j][m] => i = m
      BY <1>9, <2>2, <2>3, <2>6, <3>1, <3>2
    <3> QED BY <2>1, <2>6, <3>1, <3>3
  <2> QED BY <2>4, <2>5, <2>6
<1>8. head' \in [Bins -> Nat]
  BY <1>1
<1> QED BY <1>5, <1>6, <1>7, <1>8 DEF Lists, el2, n2

\* A step that takes the top of list k, and touches no other listed block.
LEMMA ListShrinks ==
  ASSUME NEW own, NEW st, NEW own2, NEW st2, NEW el, NEW n \in [Bins -> Nat],
         Lists(own, st, el, n), head \in [Bins -> Nat],
         NEW k \in FixedBins, n[k] > 0, Frame({BinId(k, el[k][n[k]])}, own, st, own2, st2),
         NEW w \in Nat, head' = [head EXCEPT ![k] = w], AddrOf(w) = el[k][n[k] - 1]
  PROVE  Lists(own2, st2, el, Shorter(n, k))' /\ head' \in [Bins -> Nat]
<1> DEFINE n2 == Shorter(n, k)
           T == {BinId(k, el[k][n[k]])}
<1>1. k \in Bins /\ k # oversize_bin /\ oversize_bin \in Bins /\ n[k] \in Nat
  BY FixedFacts, OversizeIsABin
<1>2. n2[k] = n[k] - 1 /\ \A j \in Bins \ {k} : n2[j] = n[j]
  BY <1>1 DEF Shorter
<1> HIDE DEF n2
<1>3. /\ \A j \in Bins : el[j][0] = 0 /\ AddrOf(head[j]) = el[j][n[j]]
      /\ head[oversize_bin] = el[oversize_bin][n[oversize_bin]]
      /\ \A j \in Bins : \A i1, i2 \in 1 .. n[j] : el[j][i1] = el[j][i2] => i1 = i2
  BY DEF Lists
<1>4. \A j \in Bins : AddrOf(head'[j]) = el[j][n2[j]]
  BY <1>1, <1>2, <1>3
<1>5. head'[oversize_bin] = el[oversize_bin][n2[oversize_bin]]
  BY <1>1, <1>2, <1>3
<1>6. ASSUME NEW j \in Bins, NEW i \in 1 .. n2[j]
      PROVE  /\ FreeBlock(own2, st2, BinId(j, el[j][i]), j, el[j][i])'
             /\ word1'[el[j][i]] = el[j][i - 1]
             /\ \A m \in 1 .. n2[j] : el[j][i] = el[j][m] => i = m
  <2>1. /\ \A m \in 1 .. n2[j] : m \in 1 .. n[j]
        /\ j = k => i # n[k] /\ n[k] \in 1 .. n[k]
    BY <1>1, <1>2
  <2>2. BinId(j, el[j][i]) \notin T
    <3>1. j = k => el[j][i] # el[k][n[k]]
      BY <1>3, <2>1
    <3> QED BY <3>1, IdsDiffer
  <2> HIDE DEF T
  <2>3. Frame(T, own, st, own2, st2)
    BY DEF T
  <2>4. /\ FreeBlock(own2, st2, BinId(j, el[j][i]), j, el[j][i])'
        /\ word1'[el[j][i]] = word1[el[j][i]] /\ word1[el[j][i]] = el[j][i - 1]
    BY <2>1, <2>2, <2>3, FrameLists
  <2> QED BY <1>3, <2>1, <2>4
<1>7. head' \in [Bins -> Nat]
  BY <1>1
<1> QED BY <1>3, <1>4, <1>5, <1>6, <1>7 DEF Lists, n2

\* PushCas: the block is on top of its list.
LEMMA HPushCas ==
  ASSUME NEW own, NEW st, NEW el, NEW n, HInv(own, st, el, n), booted, LInv,
         NEW t \in Threads, PushCas(t)
  PROVE  \E own2, el2, n2 : HInv(own2, st, el2, n2)'
<1> USE DEF Goto, control, memory, client, setup
<1>1. /\ pc[t] \in Labels /\ Typed(r[t])
      /\ Hands(own, st, t) /\ Moving(own, st, t) /\ Place(t)
      /\ JobInPlace(t) /\ FixedBinOnly(t)
      /\ pc \in [Threads -> Labels] /\ DOMAIN r = Threads
      /\ head \in [Bins -> Nat]
      /\ word0 \in [Granules -> Int] /\ word1 \in [Granules -> Int]
  BY Here
<1>2. /\ pc[t] = "push_cas" /\ Pushing(t) /\ r[t].old \in Nat /\ r[t].old = head[r[t].bin]
      /\ FreeBlock(own, st, PushId(t), r[t].bin, Piece(t)) /\ r[t].bin \in FixedBins
      /\ word1[Piece(t)] = AddrOf(r[t].old)
      /\ r[t].job \in {"slow", "over", "fit", "shrink", "free"}
  BY <1>1 DEF PushCas, HeadAsLoaded, Moving, Pushing, JobInPlace
<1>3. PICK id, b, k, w : /\ id = PushId(t) /\ b = Piece(t) /\ k = r[t].bin
                         /\ w = Piece(t) + NextTag(r[t].old)
  OBVIOUS
<1>4. FreeBlock(own, st, id, k, b) /\ b \in Granules /\ own[b] = id /\ b \in Nat /\ b % MIN_ALIGN = 0
  <2>1. FreeBlock(own, st, id, k, b)
    BY <1>2, <1>3
  <2> QED BY <2>1, HeldFacts DEF FreeBlock, Block
<1>5. k \in Bins /\ k # oversize_bin /\ oversize_bin \in Bins
  BY <1>2, <1>3, FixedFacts, OversizeIsABin
<1>6. w \in Nat /\ AddrOf(w) = b
  <2>1. PICK x \in Nat : x = r[t].old
    BY <1>2
  <2>2. AddrOf(b + NextTag(x)) = b /\ b + NextTag(x) \in Nat
    BY <1>4, HeadFacts
  <2> QED BY <1>3, <2>1, <2>2
<1>7. /\ Types(own, st, el, n) /\ Lists(own, st, el, n) /\ LiveSlices(own, st) /\ Room(own, st)
      /\ n \in [Bins -> Nat] /\ el \in [Bins -> [Nat -> Int]]
      /\ live \subseteq SliceSet /\ st \subseteq Granules \ {0}
  BY DEF HInv, Types
<1>8. word1[b] = el[k][n[k]]
  BY <1>2, <1>3, <1>5, <1>7 DEF Lists
<1>9. /\ pc'[t] = AfterPush(r[t].job) /\ pc' = [pc EXCEPT ![t] = pc'[t]] /\ pc'[t] \in Labels
      /\ pc'[t] = (IF r[t].job \in {"slow", "over"} THEN "gap"
                   ELSE IF r[t].job \in {"fit", "shrink"} THEN "split" ELSE "return")
      /\ Typed(r'[t]) /\ SameCall(t) /\ r'[t].old = 0
      /\ r'[t].bin = r[t].bin /\ r'[t].nxt = r[t].nxt
      /\ r'[t].prev = r[t].prev /\ r'[t].cur = r[t].cur /\ r'[t].iter = r[t].iter
      /\ r'[t].lo = r[t].lo /\ r'[t].end = r[t].end
      /\ IF r[t].job = "free" THEN r'[t].blk = 0 /\ r'[t].top = 0
                              ELSE r'[t].blk = r[t].blk /\ r'[t].top = r[t].top
  <2>1. AfterPush(r[t].job) = (IF r[t].job \in {"slow", "over"} THEN "gap"
                   ELSE IF r[t].job \in {"fit", "shrink"} THEN "split" ELSE "return")
    BY <1>2 DEF AfterPush
  <2> QED BY <1>1, <1>2, <2>1, Fields DEF PushCas, Typed, Jobs, SameCall, Labels
<1>10. /\ head' = [head EXCEPT ![k] = w] /\ bump' = bump /\ live' = live
       /\ word0' = word0 /\ word1' = word1
       /\ Carving(t)' <=> Carving(t)
       /\ Carving(t) => r'[t].lo = r[t].lo /\ r'[t].top = r[t].top
  <2>1. Carving(t)' <=> Carving(t)
    BY <1>1, <1>2, <1>9 DEF Carving, Pushing, SameCall
  <2>2. Carving(t) => r[t].job # "free"
    BY <1>2 DEF Carving
  <2> QED BY <1>1, <1>3, <1>9, <2>1, <2>2 DEF PushCas
<1> DEFINE T == {id}
           own2 == Rename(own, id, BinId(k, b))
           el2 == Pushed(el, n, k, b)
           n2 == Longer(n, k)
<1>11. Frame(T, own, st, own2, st)
  BY <1>10, RenameFacts DEF Frame
<1>12. id = BlockId(t) \/ id = PieceId(t)
  BY <1>3 DEF PushId
<1>13. /\ BumpId \notin T /\ (\A i, x : BinId(i, x) \notin T) /\ (\A x : LiveId(x) \notin T)
       /\ \A u \in Threads \ {t} : MyIds(u) \cap T = {}
       /\ SrcId(t) \notin T /\ DstId(t) \notin T /\ GapId(t) \notin T
       /\ r[t].job # "free" => BlockId(t) \notin T
  <2>1. r[t].job # "free" => id = PieceId(t)
    BY <1>3 DEF PushId
  <2> QED BY <1>12, <2>1, IdsDiffer DEF MyIds
<1>14. FreeBlock(own2, st, BinId(k, b), k, b)'
  <2>1. PICK size : size = header_size(word0[b])
    OBVIOUS
  <2>2. Block(own2, st, BinId(k, b), b, b + size)
    BY <1>4, <2>1, RenameFacts DEF FreeBlock
  <2> HIDE DEF own2
  <2> QED BY <1>4, <1>10, <2>1, <2>2 DEF FreeBlock
<1>15. Lists(own2, st, el2, n2)' /\ head' \in [Bins -> Nat]
  <2>1. own[b] \in T
    BY <1>4
  <2> HIDE DEF own2, T
  <2>2. Push(T, own, st, own2, st, el, n, k, b, w)
    BY <1>4, <1>5, <1>6, <1>7, <1>8, <1>10, <1>11, <1>13, <1>14, <2>1 DEF Push
  <2> QED BY <1>1, <1>5, <1>7, <2>2, ListGrows
<1>16. /\ n2 \in [Bins -> Nat] /\ el2 \in [Bins -> [Nat -> Int]]
       /\ el2[oversize_bin] = el[oversize_bin] /\ n2[oversize_bin] = n[oversize_bin]
  <2>1. b \in Int
    BY <1>4
  <2>2. n[k] \in Nat /\ n[k] + 1 \in Nat /\ el[k] \in [Nat -> Int]
    BY <1>5, <1>7
  <2> QED BY <1>5, <1>7, <2>1, <2>2 DEF Pushed, Longer
<1> HIDE DEF own2, T, el2, n2
<1>17. LiveSlices(own2, st)'
  BY <1>7, <1>10, <1>11, <1>13, KeepLive
<1>18. Room(own2, st)'
  <2>1. Alone(t)
    BY StepAlone DEF LInv, Step, Swap
  <2> QED BY <1>7, <1>10, <1>11, <1>13, <2>1, KeepRoom
<1>19. Hands(own2, st, t)'
  <2>1. HoldsSrc(t)' => HoldsSrc(t)
    BY <1>9 DEF HoldsSrc, SameCall
  <2>2. (HoldsSrc(t) => SliceHeld(own2, st, SrcId(t), r[t].src))'
    BY <1>1, <1>9, <1>11, <1>13, <2>1, KeepHands DEF SameCall
  <2>3. (IF r[t].dst.ptr = 0 THEN r[t].dst = NullSlice ELSE SliceHeld(own2, st, DstId(t), r[t].dst))'
    BY <1>1, <1>9, <1>11, <1>13, KeepHands DEF SameCall
  <2>4. (r[t].blk # 0 => Block(own2, st, BlockId(t), r[t].blk, r[t].top))'
    <3>1. CASE r[t].job = "free"
      BY <1>9, <3>1
    <3>2. CASE r[t].job # "free"
      BY <1>1, <1>9, <1>11, <1>13, <3>2, KeepHands
    <3> QED BY <3>1, <3>2
  <2>5. (IF Carving(t) THEN r[t].lo < r[t].end => Held(own2, st, GapId(t), r[t].lo, r[t].end)
                       ELSE r[t].lo = 0 /\ r[t].end = 0)'
    <3>1. PICK lo, end : lo = r[t].lo /\ end = r[t].end
      OBVIOUS
    <3>2. Held(own, st, GapId(t), lo, end) => Held(own2, st, GapId(t), lo, end)
      BY <1>11, <1>13, FrameHeld
    <3> QED BY <1>1, <1>9, <1>10, <3>1, <3>2 DEF Hands
  <2> QED BY <2>2, <2>3, <2>4, <2>5 DEF Hands
<1>20. Moving(own2, st, t)'
  BY <1>9 DEF Moving, Pushing
<1>21. Place(t)'
  <2>1. CASE r[t].job \in {"slow", "over"}
    BY <1>1, <1>2, <1>9, <1>10, <2>1 DEF Place, Initialising, Asking, Serving, Found,
       Served, Freeing, Leaving, SplitBlock, InPlace, Carving, Pushing, Target, InHand, AskingAt,
       SameCall, SameHand, SameWalk
  <2>2. CASE r[t].job \in {"fit", "shrink"}
    BY <1>1, <1>2, <1>9, <1>10, <2>2 DEF Place, Initialising, Asking, Serving, Found,
       Served, Freeing, Leaving, SplitBlock, InPlace, Carving, Pushing, Target, InHand, AskingAt,
       SameCall, SameHand, SameWalk
  <2>3. CASE r[t].job = "free"
    BY <1>1, <1>2, <1>9, <1>10, <2>3 DEF Place, Initialising, Asking, Serving, Found,
       Served, Freeing, Leaving, SplitBlock, InPlace, Carving, Pushing, Target, InHand, AskingAt,
       SameCall, SameHand, SameWalk
  <2> QED BY <1>2, <2>1, <2>2, <2>3
<1>22. Fitting(el2, n2, t)' /\ Failing(el2, n2, t)'
  BY <1>9 DEF Fitting, Failing
<1>23. Moved(T, own, st, el, n, own2, st, el2, n2, t)
  BY <1>1, <1>7, <1>9, <1>10, <1>11, <1>13, <1>15, <1>16 DEF Moved
<1>24. HInv(own2, st, el2, n2)'
  BY <1>15, <1>17, <1>18, <1>19, <1>20, <1>21, <1>22, <1>23, Busy DEF Step, Swap
<1> QED BY <1>24

\* OverPush: the block is on top of the oversized list.
LEMMA HOverPush ==
  ASSUME NEW own, NEW st, NEW el, NEW n, HInv(own, st, el, n), booted, LInv,
         NEW t \in Threads, OverPush(t)
  PROVE  \E own2, el2, n2 : HInv(own2, st, el2, n2)'
<1> USE DEF Goto, control, memory, client, setup
<1>1. /\ pc[t] \in Labels /\ Typed(r[t])
      /\ Hands(own, st, t) /\ Moving(own, st, t) /\ Place(t)
      /\ JobInPlace(t) /\ FixedBinOnly(t)
      /\ pc \in [Threads -> Labels] /\ DOMAIN r = Threads
      /\ head \in [Bins -> Nat]
      /\ word0 \in [Granules -> Int] /\ word1 \in [Granules -> Int]
  BY Here
<1>2. /\ pc[t] = "over_push" /\ r[t].job = "free" /\ Critical(t) /\ ~Carving(t)
      /\ Freeing(t) /\ Leaving(t) /\ r[t].bin = oversize_bin
  <2>1. pc[t] = "over_push" /\ r[t].job = "free" /\ Critical(t) /\ ~Carving(t)
    BY <1>1 DEF OverPush, JobInPlace, Critical, Carving, Pushing
  <2> QED BY <1>1, <2>1 DEF Place
<1>3. PICK b, k, size, w : /\ b = r[t].blk /\ k = oversize_bin /\ size = InHand(t)
                           /\ w = head[oversize_bin]
  OBVIOUS
<1>4. /\ b \in Granules /\ own[b] = BlockId(t) /\ b \in Nat \ {0} /\ b % MIN_ALIGN = 0
      /\ Block(own, st, BlockId(t), b, b + size) /\ Valid(b, size) /\ bin_index(size) = k
      /\ word0[b] = pack(size, FREE) /\ header_size(word0[b]) = size
  <2>1. /\ r[t].blk # 0 /\ Valid(b, size) /\ bin_index(size) = k /\ word0[b] = pack(size, FREE)
    BY <1>2, <1>3 DEF Freeing
  <2>2. /\ b \in Granules /\ own[b] = BlockId(t) /\ b \in Nat \ {0} /\ b % MIN_ALIGN = 0
        /\ Block(own, st, BlockId(t), b, b + size)
    BY <1>1, <1>3, <2>1, InHandFacts
  <2>3. size \in Nat /\ size % 16 = 0
    BY <2>1, <2>2, ValidFacts, CadAssumption
  <2> QED BY <2>1, <2>2, <2>3, HeaderFacts
<1>5. k \in Bins /\ k = oversize_bin
  BY <1>3, OversizeIsABin
<1>6. AddrOf(b) = b /\ b \in Nat /\ w \in Int
  BY <1>1, <1>3, <1>4, <1>5 DEF AddrOf
<1>7. /\ Types(own, st, el, n) /\ Lists(own, st, el, n) /\ LiveSlices(own, st) /\ Room(own, st)
      /\ n \in [Bins -> Nat] /\ el \in [Bins -> [Nat -> Int]]
      /\ live \subseteq SliceSet /\ st \subseteq Granules \ {0}
  BY DEF HInv, Types
<1>8. w = el[k][n[k]]
  BY <1>3, <1>5, <1>7 DEF Lists
<1>9. /\ pc'[t] = "unlock" /\ pc' = [pc EXCEPT ![t] = pc'[t]] /\ pc'[t] \in Labels
      /\ Typed(r'[t]) /\ SameCall(t) /\ SameWalk(t)
      /\ r'[t].lo = r[t].lo /\ r'[t].end = r[t].end /\ r'[t].blk = 0 /\ r'[t].top = 0
  BY <1>1, Fields DEF OverPush, Typed, Jobs, SameCall, SameWalk, Labels
<1>10. /\ head' = [head EXCEPT ![k] = b] /\ bump' = bump /\ live' = live
       /\ word0' = word0 /\ word1' = [word1 EXCEPT ![b] = w] /\ word1'[b] = w /\ ~Carving(t)'
       /\ word1' \in [Granules -> Int]
  BY <1>1, <1>3, <1>4, <1>6, <1>9 DEF OverPush, Carving, Pushing
<1> DEFINE T == {BlockId(t)}
           own2 == Rename(own, BlockId(t), BinId(k, b))
           el2 == Pushed(el, n, k, b)
           n2 == Longer(n, k)
<1>11. Frame(T, own, st, own2, st)
  <2>1. \A a \in Granules : own[a] # BlockId(t) => own2[a] = own[a]
    BY RenameFacts
  <2>2. \A a \in Granules : own[a] # BlockId(t) => a # b
    BY <1>4
  <2> HIDE DEF own2
  <2> QED BY <1>1, <1>10, <2>1, <2>2 DEF Frame
<1>13. /\ BumpId \notin T /\ (\A i, x : BinId(i, x) \notin T) /\ (\A x : LiveId(x) \notin T)
       /\ \A u \in Threads \ {t} : MyIds(u) \cap T = {}
       /\ SrcId(t) \notin T /\ DstId(t) \notin T
  BY IdsDiffer DEF MyIds
<1>14. FreeBlock(own2, st, BinId(k, b), k, b)'
  <2>1. Block(own2, st, BinId(k, b), b, b + size)
    BY <1>4, RenameFacts
  <2> HIDE DEF own2
  <2> QED BY <1>4, <1>10, <2>1 DEF FreeBlock
<1>15. Lists(own2, st, el2, n2)' /\ head' \in [Bins -> Nat]
  <2>1. own[b] \in T
    BY <1>4
  <2> HIDE DEF own2, T
  <2>2. Push(T, own, st, own2, st, el, n, k, b, b)
    BY <1>4, <1>5, <1>6, <1>7, <1>8, <1>10, <1>11, <1>13, <1>14, <2>1 DEF Push
  <2> QED BY <1>1, <1>5, <1>7, <2>2, ListGrows
<1>16. n2 \in [Bins -> Nat] /\ el2 \in [Bins -> [Nat -> Int]]
  <2>1. b \in Int
    BY <1>4
  <2>2. n[k] \in Nat /\ n[k] + 1 \in Nat /\ el[k] \in [Nat -> Int]
    BY <1>5, <1>7
  <2> QED BY <1>5, <1>7, <2>1, <2>2 DEF Pushed, Longer
<1> HIDE DEF own2, T, el2, n2
<1>17. LiveSlices(own2, st)'
  BY <1>7, <1>10, <1>11, <1>13, KeepLive
<1>18. Room(own2, st)'
  <2>1. Alone(t)
    BY StepAlone DEF LInv, Step
  <2> QED BY <1>2, <1>7, <1>10, <1>11, <1>13, <2>1, KeepRoom
<1>19. Hands(own2, st, t)'
  <2>1. ~HoldsSrc(t)'
    BY <1>2, <1>9 DEF HoldsSrc, SameCall
  <2>3. (IF r[t].dst.ptr = 0 THEN r[t].dst = NullSlice ELSE SliceHeld(own2, st, DstId(t), r[t].dst))'
    BY <1>1, <1>9, <1>11, <1>13, KeepHands DEF SameCall
  <2>4. r[t].lo = 0 /\ r[t].end = 0
    BY <1>1, <1>2 DEF Hands
  <2> QED BY <1>9, <1>10, <2>1, <2>3, <2>4 DEF Hands
<1>20. Moving(own2, st, t)'
  BY <1>9 DEF Moving, Pushing
<1>21. Place(t)'
  BY <1>1, <1>2, <1>9 DEF Place, Initialising, Asking, Serving, Found,
       Served, Freeing, Leaving, SplitBlock, InPlace, Carving, Pushing, Target, InHand, AskingAt,
       SameCall, SameHand, SameWalk
<1>22. Fitting(el2, n2, t)' /\ Failing(el2, n2, t)'
  BY <1>2, <1>9 DEF Fitting, Failing, SameCall
<1>23. Moved(T, own, st, el, n, own2, st, el2, n2, t)
  BY <1>1, <1>2, <1>7, <1>9, <1>10, <1>11, <1>13, <1>15, <1>16 DEF Moved
<1>24. HInv(own2, st, el2, n2)'
  BY <1>15, <1>17, <1>18, <1>19, <1>20, <1>21, <1>22, <1>23, Busy DEF Step
<1> QED BY <1>24

\* PopCas, with the link the block has: the block leaves its list.
LEMMA HPopCas ==
  ASSUME SafeUse, NEW own, NEW st, NEW el, NEW n, HInv(own, st, el, n), booted, LInv,
         NEW t \in Threads, PopCas(t), r[t].nxt = At(word1, AddrOf(r[t].old))
  PROVE  \E own2, n2 : HInv(own2, st, el, n2)'
<1> USE DEF Goto, control, memory, client, setup
<1>1. /\ pc[t] \in Labels /\ Typed(r[t])
      /\ Hands(own, st, t) /\ Moving(own, st, t) /\ Place(t)
      /\ JobInPlace(t) /\ FixedBinOnly(t)
      /\ pc \in [Threads -> Labels] /\ DOMAIN r = Threads
      /\ head \in [Bins -> Nat]
      /\ word0 \in [Granules -> Int] /\ word1 \in [Granules -> Int]
  BY Here
<1>2. /\ pc[t] = "pop_cas" /\ r[t].job \in {"fast", "slow"} /\ ~Carving(t)
      /\ r[t].old \in Nat /\ r[t].old = head[r[t].bin] /\ AddrOf(r[t].old) \in st
      /\ Asking(t) /\ Serving(t) /\ r[t].size \in Requests
      /\ r[t].bin # oversize_bin /\ r[t].bin = RequestBin(r[t].size)
  <2>1. pc[t] = "pop_cas" /\ Popping(t) /\ r[t].old = head[r[t].bin]
    BY DEF PopCas, HeadAsLoaded, Popping
  <2>2. /\ r[t].job \in {"fast", "slow"} /\ r[t].bin # oversize_bin /\ ~Carving(t)
        /\ r[t].old \in Nat /\ AddrOf(r[t].old) \in st
    BY <1>1, <2>1 DEF JobInPlace, FixedBinOnly, Moving, Carving, Pushing
  <2>3. Asking(t)
    BY <1>1, <2>1 DEF Place, AskingAt
  <2> QED BY <2>1, <2>2, <2>3 DEF Asking, Serving
<1>3. PICK b, k, nxt, w : /\ b = AddrOf(r[t].old) /\ k = r[t].bin /\ nxt = r[t].nxt
                          /\ w = r[t].nxt + NextTag(r[t].old)
  OBVIOUS
<1>4. /\ Types(own, st, el, n) /\ Lists(own, st, el, n) /\ LiveSlices(own, st) /\ Room(own, st)
      /\ n \in [Bins -> Nat] /\ el \in [Bins -> [Nat -> Int]]
      /\ live \subseteq SliceSet /\ st \subseteq Granules \ {0}
  BY DEF HInv, Types
<1>5. /\ k \in FixedBins /\ k \in Bins /\ k # oversize_bin /\ oversize_bin \in Bins
      /\ request_block_size(r[t].size) = bin_class(k)
  BY <1>2, <1>3, RequestOk, FixedFacts, OversizeIsABin
<1>6. /\ b = el[k][n[k]] /\ n[k] \in Nat /\ n[k] > 0 /\ n[k] \in 1 .. n[k] /\ b \in Granules
      /\ b # 0 /\ b \in st /\ b \in Nat
  <2>1. b # 0 /\ b = AddrOf(head[k]) /\ b \in st /\ n[k] \in Nat
    BY <1>2, <1>3, <1>4, <1>5
  <2>2. n[k] \in 1 .. n[k] /\ n[k] > 0 /\ b = el[k][n[k]]
    BY <1>4, <1>5, <2>1, ListTop
  <2>3. b \in Granules /\ b \in Nat
    BY <1>4, <1>5, <2>2, ListBlock
  <2> QED BY <2>1, <2>2, <2>3
<1>7. /\ FreeBlock(own, st, BinId(k, b), k, b) /\ own[b] = BinId(k, b) /\ word1[b] = el[k][n[k] - 1]
  BY <1>4, <1>5, <1>6, ListBlock
<1>8. PICK size : size = header_size(word0[b])
  OBVIOUS
<1>9. /\ Block(own, st, BinId(k, b), b, b + size) /\ Valid(b, size) /\ size \in Nat
      /\ size = bin_class(k) /\ size = Target(t)
  <2>1. Block(own, st, BinId(k, b), b, b + size) /\ Valid(b, size) /\ bin_index(size) = k
    BY <1>7, <1>8 DEF FreeBlock
  <2>2. size = bin_class(k) /\ size \in Nat
    BY <1>5, <1>6, <2>1, ValidFacts, CadAssumption
  <2> QED BY <1>5, <2>1, <2>2 DEF Target
<1>10. nxt = el[k][n[k] - 1] /\ nxt \in Nat /\ nxt % MIN_ALIGN = 0
  <2>1. nxt = el[k][n[k] - 1]
    BY <1>3, <1>6, <1>7 DEF At
  <2>2. CASE n[k] - 1 = 0
    <3>1. el[k][0] = 0
      BY <1>4, <1>5 DEF Lists
    <3>2. 0 % MIN_ALIGN = 0
      BY HeapBounds
    <3> QED BY <2>1, <2>2, <3>1, <3>2
  <2>3. CASE n[k] - 1 # 0
    <3>1. n[k] - 1 \in 1 .. n[k]
      BY <1>6, <2>3
    <3> QED BY <1>4, <1>5, <2>1, <3>1, ListBlock
  <2> QED BY <2>2, <2>3
<1>11. w \in Nat /\ AddrOf(w) = nxt
  <2>1. PICK x \in Nat : x = r[t].old
    BY <1>2
  <2>2. AddrOf(nxt + NextTag(x)) = nxt /\ nxt + NextTag(x) \in Nat
    BY <1>10, HeadFacts
  <2> QED BY <1>3, <2>1, <2>2
<1>12. PICK top : top = b + size
  OBVIOUS
<1>13. /\ pc'[t] = (IF r[t].job = "slow" THEN "unlock" ELSE "stamp")
       /\ pc' = [pc EXCEPT ![t] = pc'[t]] /\ pc'[t] \in Labels
       /\ Typed(r'[t])
       /\ r'[t].op = r[t].op /\ r'[t].size = r[t].size /\ r'[t].src = r[t].src
       /\ r'[t].dst = r[t].dst /\ r'[t].usable = r[t].usable
       /\ r'[t].job = (IF r[t].job = "slow" THEN "hit" ELSE r[t].job)
       /\ r'[t].old = 0 /\ r'[t].nxt = 0 /\ r'[t].bin = r[t].bin
       /\ r'[t].prev = r[t].prev /\ r'[t].cur = r[t].cur /\ r'[t].iter = r[t].iter
       /\ r'[t].lo = r[t].lo /\ r'[t].end = r[t].end
       /\ r'[t].blk = b /\ r'[t].top = top
  <2>1. b \in Int /\ top \in Int
    BY <1>6, <1>9, <1>12
  <2>2. r' = [r EXCEPT ![t].old = 0, ![t].nxt = 0, ![t].blk = b, ![t].top = top,
                       ![t].job = IF @ = "slow" THEN "hit" ELSE @]
    BY <1>3, <1>9, <1>12 DEF PopCas
  <2>3. pc' = [pc EXCEPT ![t] = IF r[t].job = "slow" THEN "unlock" ELSE "stamp"]
    BY DEF PopCas
  <2> QED BY <1>1, <1>2, <2>1, <2>2, <2>3, Fields, SMTT(60) DEF Typed, Jobs, Labels
<1>14. /\ head' = [head EXCEPT ![k] = w] /\ bump' = bump /\ live' = live
       /\ word0' = word0 /\ word1' = word1 /\ ~Carving(t)'
  BY <1>3, <1>13 DEF PopCas, Carving, Pushing
<1> DEFINE T == {BinId(k, b)}
           own2 == Rename(own, BinId(k, b), BlockId(t))
           n2 == Shorter(n, k)
<1>15. Frame(T, own, st, own2, st)
  BY <1>14, RenameFacts DEF Frame
<1>16. /\ BumpId \notin T /\ (\A x : LiveId(x) \notin T)
       /\ \A u : MyIds(u) \cap T = {}
       /\ \A i : BinId(oversize_bin, i) \notin T
  BY <1>5, IdsDiffer DEF MyIds
<1>17. Lists(own2, st, el, n2)' /\ head' \in [Bins -> Nat]
  <2>1. Frame({BinId(k, el[k][n[k]])}, own, st, own2, st)
    BY <1>6, <1>15
  <2>2. AddrOf(w) = el[k][n[k] - 1]
    BY <1>10, <1>11
  <2> HIDE DEF own2, T
  <2> QED BY <1>1, <1>4, <1>5, <1>6, <1>11, <1>14, <2>1, <2>2, ListShrinks
<1>18. n2 \in [Bins -> Nat] /\ n2[oversize_bin] = n[oversize_bin]
  <2>1. n[k] - 1 \in Nat
    BY <1>6
  <2> QED BY <1>4, <1>5, <2>1 DEF Shorter
<1>19. Block(own2, st, BlockId(t), b, top)
  BY <1>9, <1>12, RenameFacts
<1> HIDE DEF own2, T, n2
<1>20. LiveSlices(own2, st)'
  BY <1>4, <1>14, <1>15, <1>16, KeepLive
<1>21. Room(own2, st)'
  <2>1. Alone(t)
    BY StepAlone DEF LInv, Step, Swap
  <2> QED BY <1>2, <1>4, <1>14, <1>15, <1>16, <2>1, KeepRoom
<1>22. Hands(own2, st, t)'
  <2>1. HoldsSrc(t)' => HoldsSrc(t)
    BY <1>2, <1>13 DEF HoldsSrc
  <2>2. SrcId(t) \notin T /\ DstId(t) \notin T
    BY <1>16 DEF MyIds
  <2>3. (HoldsSrc(t) => SliceHeld(own2, st, SrcId(t), r[t].src))'
    BY <1>1, <1>13, <1>15, <2>1, <2>2, KeepHands
  <2>4. (IF r[t].dst.ptr = 0 THEN r[t].dst = NullSlice ELSE SliceHeld(own2, st, DstId(t), r[t].dst))'
    BY <1>1, <1>13, <1>15, <2>2, KeepHands
  <2>5. r[t].lo = 0 /\ r[t].end = 0
    BY <1>1, <1>2 DEF Hands
  <2> QED BY <1>13, <1>14, <1>19, <2>3, <2>4, <2>5 DEF Hands
<1>23. Moving(own2, st, t)'
  BY <1>13 DEF Moving, Pushing
<1>24. Place(t)'
  <2>1. Found(t)'
    <3>1. Target(t)' = Target(t)
      BY <1>13 DEF Target
    <3>2. Target(t)' = size /\ r'[t].top = b + size /\ r'[t].blk = b /\ b # 0 /\ Valid(b, size)
      BY <1>6, <1>9, <1>12, <1>13, <3>1
    <3>3. Serving(t)'
      BY <1>2, <1>13 DEF Serving
    <3>4. (r'[t].job = "over") = (RequestBin(r'[t].size) = oversize_bin)
      BY <1>2, <1>13
    <3> QED BY <3>2, <3>3, <3>4 DEF Found
  <2>2. r'[t].prev = 0 /\ (r'[t].dst.ptr # 0 => r'[t].size <= r'[t].dst.len)
        /\ (r'[t].op = "realloc" => r'[t].src.ptr # 0) /\ (r'[t].op = "alloc" => r'[t].src.ptr = 0)
        /\ Serving(t)'
    BY <1>1, <1>2, <1>13 DEF Place, Serving
  <2>3. r'[t].op \notin {"free"}
    BY <1>2, <1>13 DEF Serving
  <2> QED BY <1>2, <1>13, <2>1, <2>2, <2>3 DEF Place, Initialising, AskingAt, Carving, Pushing
<1>25. Fitting(el, n2, t)' /\ Failing(el, n2, t)'
  BY <1>6, <1>13 DEF Fitting, Failing
<1>26. Moved(T, own, st, el, n, own2, st, el, n2, t)
  BY <1>4, <1>1, <1>13, <1>14, <1>15, <1>16, <1>17, <1>18 DEF Moved
<1>27. HInv(own2, st, el, n2)'
  BY <1>17, <1>20, <1>21, <1>22, <1>23, <1>24, <1>25, <1>26, Busy DEF Step, Swap
<1> QED BY <1>27

-----------------------------------------------------------------------------
(* Steps that cut a region in two.                                          *)

\* Bump: the bump pointer moves past the block that was carved off.
LEMMA HBump ==
  ASSUME SafeUse, NEW own, NEW st, NEW el, NEW n, HInv(own, st, el, n), booted, LInv,
         NEW t \in Threads, Bump(t)
  PROVE  HInv(own, st, el, n)' /\ bump <= bump' /\ bump' <= heap_end
<1> USE DEF Goto, control, memory, client, setup
<1>1. /\ pc[t] \in Labels /\ Typed(r[t])
      /\ Hands(own, st, t) /\ Moving(own, st, t) /\ Place(t)
      /\ JobInPlace(t) /\ FixedBinOnly(t)
      /\ pc \in [Threads -> Labels] /\ DOMAIN r = Threads
      /\ head \in [Bins -> Nat]
      /\ word0 \in [Granules -> Int] /\ word1 \in [Granules -> Int]
  BY Here
<1>2. /\ pc[t] = "gap" /\ Carving(t) /\ Critical(t) /\ r[t].job \in {"slow", "over"}
      /\ Found(t) /\ Serving(t) /\ r[t].blk # 0 /\ r[t].size \in Requests
      /\ r[t].lo <= r[t].end /\ r[t].end <= r[t].blk /\ r[t].iter = 0
  <2>1. pc[t] = "gap" /\ Carving(t) /\ Critical(t) /\ r[t].job \in {"slow", "over"}
    BY <1>1 DEF Bump, Carving, Critical, JobInPlace
  <2>2. Found(t) /\ r[t].lo <= r[t].end /\ r[t].end <= r[t].blk /\ r[t].iter = 0
    BY <1>1, <2>1 DEF Place
  <2> QED BY <2>1, <2>2 DEF Found, Serving
<1>3. PICK k, top : k = RequestBin(r[t].size) /\ top = r[t].top
  OBVIOUS
<1>4. k \in Int
  <2>1. \A i \in Bins : i \in Int
    BY GeoConstants, CadAssumption
  <2> QED BY <1>2, <1>3, <2>1, RequestOk
<1>5. /\ Types(own, st, el, n) /\ Lists(own, st, el, n) /\ LiveSlices(own, st) /\ Room(own, st)
      /\ n \in [Bins -> Nat] /\ el \in [Bins -> [Nat -> Int]]
      /\ live \subseteq SliceSet /\ st \subseteq Granules \ {0}
  BY DEF HInv, Types
<1>6. /\ pc'[t] = (IF r[t].job = "over" THEN "over_stamp" ELSE "unlock")
      /\ pc' = [pc EXCEPT ![t] = pc'[t]] /\ pc'[t] \in Labels
      /\ Typed(r'[t]) /\ SameCall(t)
      /\ r'[t].blk = r[t].blk /\ r'[t].top = r[t].top /\ r'[t].lo = 0 /\ r'[t].end = 0
      /\ r'[t].bin = k /\ r'[t].old = r[t].old /\ r'[t].nxt = r[t].nxt
      /\ r'[t].prev = r[t].prev /\ r'[t].cur = r[t].cur /\ r'[t].iter = r[t].iter
  <2>1. r' = [r EXCEPT ![t].lo = 0, ![t].end = 0, ![t].bin = k]
    BY <1>3 DEF Bump
  <2> QED BY <1>1, <1>4, <2>1, Fields DEF Bump, Typed, Jobs, SameCall, Labels
<1>7. /\ head' = head /\ bump' = top /\ word0' = word0 /\ word1' = word1 /\ live' = live
      /\ ~Carving(t)'
  BY <1>3, <1>6 DEF Bump, BumpTo, Carving, Pushing
<1> DEFINE T == {}
<1>8. Frame(T, own, st, own, st)
  BY <1>7 DEF Frame
<1> HIDE DEF T
<1>9. \A i : i \notin T
  BY DEF T
<1>10. LiveSlices(own, st)'
  BY <1>5, <1>7, <1>8, <1>9, KeepLive
<1>11. Lists(own, st, el, n)'
  BY <1>5, <1>7, <1>8, <1>9, KeepLists
<1>12. \A u \in Threads : Carving(u) => u = t
  <2>1. \A u \in Threads : Carving(u) => Critical(u)
    BY Here DEF Carving, Critical, Pushing
  <2> QED BY <1>2, <2>1 DEF LInv, LockExcludes
<1>13. top \in Nat /\ top % MIN_ALIGN = 0 /\ HeapStart <= top /\ top <= heap_end /\ bump \in Nat /\ bump <= top
  <2>1. PICK b, lo, end : b = r[t].blk /\ lo = r[t].lo /\ end = r[t].end
    OBVIOUS
  <2>2. /\ Held(own, st, BlockId(t), b, top)
    BY <1>1, <1>2, <1>3, <2>1, InHandFacts
  <2>3. top \in Nat /\ top % MIN_ALIGN = 0 /\ top <= heap_end /\ b \in Nat /\ b < top /\ HeapStart <= b
    BY <2>2, HeldFacts
  <2>4. lo <= end /\ end <= b /\ bump <= lo /\ bump \in Nat /\ lo \in Int /\ end \in Int
    BY <1>1, <1>2, <1>5, <2>1 DEF Room, Typed
  <2>5. PICK x \in Nat : x = bump
    BY <2>4
  <2>6. x <= top
    BY <2>3, <2>4, <2>5
  <2> QED BY <2>3, <2>4, <2>5, <2>6, HeapBounds
<1>14. Room(own, st)'
  <2>1. \A u \in Threads : ~Carving(u)'
    <3>1. Alone(t)
      BY StepAlone DEF LInv, Step
    <3> QED BY <1>7, <1>12, <3>1 DEF Alone, Carving, Pushing
  <2>2. ASSUME NEW a \in Granules, top <= a PROVE own[a] = BumpId /\ a \notin st
    <3>1. bump <= a
      <4>1. PICK x \in Nat : x = bump
        BY <1>13
      <4>2. a \in Int
        BY HeapBounds
      <4> QED BY <1>13, <2>2, <4>1, <4>2
    <3>2. \A u \in Threads : Carving(u) => r[u].top <= a
      BY <1>3, <1>12, <2>2
    <3> QED BY <1>5, <3>1, <3>2 DEF Room
  <2> QED BY <1>7, <1>13, <2>1, <2>2 DEF Room
<1>15. Hands(own, st, t)'
  <2>1. HoldsSrc(t)' => HoldsSrc(t)
    BY <1>6 DEF HoldsSrc, SameCall
  <2>2. (HoldsSrc(t) => SliceHeld(own, st, SrcId(t), r[t].src))'
    BY <1>1, <1>6, <1>8, <1>9, <2>1, KeepHands DEF SameCall
  <2>3. (IF r[t].dst.ptr = 0 THEN r[t].dst = NullSlice ELSE SliceHeld(own, st, DstId(t), r[t].dst))'
    BY <1>1, <1>6, <1>8, <1>9, KeepHands DEF SameCall
  <2> QED BY <1>1, <1>6, <1>7, <2>2, <2>3 DEF Hands
<1>16. Moving(own, st, t)'
  BY <1>6 DEF Moving, Pushing
<1>17. Place(t)'
  <2>1. Found(t)' /\ Serving(t)'
    BY <1>2, <1>6 DEF Found, Serving, SameCall, Target
  <2>2. r'[t].prev = 0 /\ (r'[t].dst.ptr # 0 => r'[t].size <= r'[t].dst.len)
        /\ (r'[t].op = "realloc" => r'[t].src.ptr # 0) /\ (r'[t].op = "alloc" => r'[t].src.ptr = 0)
    BY <1>1, <1>2, <1>6 DEF Place, SameCall
  <2>3. r'[t].op # "free"
    BY <2>1 DEF Serving
  <2> QED BY <1>2, <1>6, <2>1, <2>2, <2>3 DEF Place, Initialising, AskingAt, Carving, Pushing, SameCall
<1>18. Fitting(el, n, t)' /\ Failing(el, n, t)'
  BY <1>2, <1>6 DEF Fitting, Failing
<1>19. Moved(T, own, st, el, n, own, st, el, n, t)
  BY <1>1, <1>2, <1>5, <1>6, <1>7, <1>8, <1>9 DEF Moved
<1>20. HInv(own, st, el, n)'
  BY <1>10, <1>11, <1>14, <1>15, <1>16, <1>17, <1>18, <1>19, Busy DEF Step
<1> QED BY <1>7, <1>13, <1>20

-----------------------------------------------------------------------------
(* Pieces carved off the top of a gap or of a block that is split.         *)

\* A piece start .. hi - 1 cut off the region lo .. hi - 1 of owner id0.
Cut(own, st, own2, st2, id0, id, lo, hi, size, k, start, w) ==
  /\ Held(own, st, id0, lo, hi) /\ st \subseteq Granules \ {0}
  /\ word0 \in [Granules -> Int] /\ word1 \in [Granules -> Int]
  /\ start = hi - size /\ size <= hi - lo
  /\ size \in Nat /\ Valid(start, size) /\ bin_index(size) = k
  /\ word0' = [word0 EXCEPT ![start] = pack(size, FREE)]
  /\ w \in Int /\ (word1' = word1 \/ word1' = [word1 EXCEPT ![start] = w])
  /\ own2 = Give(own, id, start, hi) /\ st2 = st \cup {start}

(* What such a cut leaves alone, and the block it makes.                    *)
LEMMA CarveOff ==
  ASSUME NEW own, NEW st, NEW own2, NEW st2, NEW id0, NEW id, NEW lo, NEW hi, NEW size, NEW k, NEW start, NEW w,
         Cut(own, st, own2, st2, id0, id, lo, hi, size, k, start, w)
  PROVE  /\ Frame({id0}, own, st, own2, st2)
         /\ word0' \in [Granules -> Int] /\ word1' \in [Granules -> Int]
         /\ start \in Granules \ {0} /\ st2 \subseteq Granules \ {0}
         /\ FreeBlock(own2, st2, id, k, start)'
         /\ lo <= start /\ start < hi
         /\ lo < start => Held(own2, st2, id0, lo, start)
<1>0. /\ Held(own, st, id0, lo, hi) /\ st \subseteq Granules \ {0}
      /\ word0 \in [Granules -> Int] /\ word1 \in [Granules -> Int]
      /\ start = hi - size /\ size <= hi - lo
      /\ size \in Nat /\ Valid(start, size) /\ bin_index(size) = k
      /\ word0' = [word0 EXCEPT ![start] = pack(size, FREE)]
      /\ w \in Int /\ (word1' = word1 \/ word1' = [word1 EXCEPT ![start] = w])
      /\ own2 = Give(own, id, start, hi) /\ st2 = st \cup {start}
  BY DEF Cut
<1>1. /\ lo \in Granules /\ lo \in Nat \ {0} /\ hi \in Nat /\ lo < hi /\ hi <= heap_end
      /\ lo % MIN_ALIGN = 0 /\ hi % MIN_ALIGN = 0 /\ HeapStart <= lo
      /\ \A a \in Granules : lo <= a /\ a < hi => own[a] = id0 /\ (a # lo => a \notin st)
  <2>1. /\ lo \in Granules /\ lo \in Nat \ {0} /\ hi \in Nat /\ lo < hi /\ hi <= heap_end
        /\ lo % MIN_ALIGN = 0 /\ hi % MIN_ALIGN = 0 /\ HeapStart <= lo
    BY <1>0, HeldFacts
  <2>2. \A a \in Granules : lo <= a /\ a < hi => own[a] = id0 /\ (a # lo => a \notin st)
    BY <1>0 DEF Held
  <2> QED BY <1>0, <2>1, <2>2
<1>2. start \in Nat /\ lo <= start
  BY <1>0, <1>1
<1>3. /\ size % 16 = 0 /\ size >= 2 * MIN_ALIGN /\ start % MIN_ALIGN = 0
  <2>1. start \in Int
    BY <1>0, <1>2
  <2> QED BY <1>0, <2>1, ValidFacts, CadAssumption
<1>4. start < hi /\ start \in Granules /\ start # 0 /\ HeapStart <= start /\ own[start] = id0
  <2>1. MIN_ALIGN \in Nat \ {0} /\ heap_end \in Nat /\ HeapStart \in Nat \ {0}
    BY HeapBounds
  <2>2. start < hi /\ start # 0
    BY <1>0, <1>1, <1>2, <1>3, <2>1
  <2>3. start \in Granules
    BY <1>0, <1>1, <1>2, <1>3, <2>1, <2>2, GranuleAt
  <2> QED BY <1>0, <1>1, <1>2, <2>1, <2>2, <2>3
<1>5. \A a \in Granules : a \in Int
  BY HeapBounds
<1>6. pack(size, FREE) \in Int /\ header_size(pack(size, FREE)) = size
  BY <1>0, <1>3, HeaderFacts
<1>7. /\ word0' \in [Granules -> Int] /\ word1' \in [Granules -> Int]
      /\ word0'[start] = pack(size, FREE)
      /\ \A a \in Granules : a # start => word0'[a] = word0[a] /\ word1'[a] = word1[a]
  BY <1>0, <1>4, <1>6
<1>8. \A a \in Granules : own2[a] = IF start <= a /\ a < hi THEN id ELSE own[a]
  BY <1>0 DEF Give
<1>9. Frame({id0}, own, st, own2, st2)
  <2>1. ASSUME NEW a \in Granules, own[a] \notin {id0}
        PROVE  a # start /\ ~(start <= a /\ a < hi)
    BY <1>0, <1>1, <1>2, <1>4, <1>5, <2>1
  <2> QED BY <1>0, <1>7, <1>8, <2>1 DEF Frame
<1>10. Held(own2, st2, id, start, hi)
  <2>1. \A a \in Granules : start < a /\ a < hi => a \notin st2
    BY <1>0, <1>1, <1>2, <1>5
  <2>2. start \in Int /\ hi \in Int
    BY <1>0, <1>1, <1>2
  <2> QED BY <1>0, <1>1, <1>3, <1>4, <2>1, <2>2, GiveHeld
<1>11. FreeBlock(own2, st2, id, k, start)'
  <2>1. start + size = hi
    BY <1>0, <1>1, <1>2
  <2> QED BY <1>0, <1>6, <1>7, <1>10, <2>1 DEF FreeBlock, Block
<1>12. lo < start => Held(own2, st2, id0, lo, start)
  <2> SUFFICES ASSUME lo < start PROVE Held(own2, st2, id0, lo, start)
    OBVIOUS
  <2>1. ASSUME NEW a \in Granules, lo <= a, a < start
        PROVE  own2[a] = id0 /\ (a # lo => a \notin st2)
    <3>1. own2[a] = own[a] /\ a < hi /\ a # start
      BY <1>0, <1>1, <1>2, <1>4, <1>5, <1>8, <2>1
    <3> QED BY <1>0, <1>1, <2>1, <3>1
  <2>2. start <= heap_end /\ lo \in Int /\ start \in Int
    BY <1>0, <1>1, <1>2, <1>4, HeapBounds
  <2> QED BY <1>0, <1>1, <1>3, <2>1, <2>2 DEF Held
<1> QED BY <1>0, <1>2, <1>4, <1>7, <1>9, <1>11, <1>12

\* What carving a piece start .. hi - 1 leaves of the region lo .. hi - 1.
Carved(id0, own, st, el, n, own2, st2, el2, n2, t, lo, start, k) ==
  /\ Moved({id0}, own, st, el, n, own2, st2, el2, n2, t)
  /\ Lists(own2, st2, el2, n2)' /\ LiveSlices(own2, st2)' /\ Room(own2, st2)'
  /\ start \in Granules \ {0} /\ lo <= start
  /\ lo < start => Held(own2, st2, id0, lo, start)
  /\ st \subseteq st2
  /\ k # oversize_bin => FreeBlock(own2, st2, PieceId(t), k, start)'

\* What the step did.
Cuts(id0, own, st, t, lo, hi, size, k, start) ==
  /\ Held(own, st, id0, lo, hi)
  /\ start = hi - size /\ size <= hi - lo /\ size \in Nat
  /\ Valid(start, size) /\ bin_index(size) = k
  /\ word0' = [word0 EXCEPT ![start] = pack(size, FREE)]
  /\ \/ /\ k # oversize_bin /\ k \in Bins
        /\ word1' = word1 /\ head' = head /\ pc' = [pc EXCEPT ![t] = "push_load"]
     \/ /\ k = oversize_bin
        /\ word1' = [word1 EXCEPT ![start] = head[oversize_bin]]
        /\ head' = [head EXCEPT ![oversize_bin] = start] /\ pc' = pc
  /\ bump' = bump /\ live' = live /\ Typed(r'[t])
  /\ Carving(t)' <=> Carving(t)
  /\ Carving(t) => r'[t].lo = r[t].lo /\ r'[t].top = r[t].top

\* Its parts that do not depend on where the piece goes.
LEMMA CarveMoved ==
  ASSUME NEW own, NEW st, NEW el, NEW n, HInv(own, st, el, n), booted, LInv,
         NEW t \in Threads, CarveGap(t) \/ SplitCarve(t),
         NEW id0, id0 = GapId(t) \/ id0 = BlockId(t), NEW lo, NEW hi, NEW size, NEW k, NEW start,
         Cuts(id0, own, st, t, lo, hi, size, k, start),
         NEW own2, NEW st2, NEW el2, NEW n2, Frame({id0}, own, st, own2, st2),
         word0' \in [Granules -> Int], word1' \in [Granules -> Int], head' \in [Bins -> Nat],
         st2 \subseteq Granules \ {0}, n2 \in [Bins -> Nat], el2 \in [Bins -> [Nat -> Int]]
  PROVE  /\ Moved({id0}, own, st, el, n, own2, st2, el2, n2, t)
         /\ LiveSlices(own2, st2)' /\ Room(own2, st2)'
<1>1. pc[t] \in Labels /\ pc \in [Threads -> Labels]
  BY Here
<1>2. Critical(t) /\ pc[t] \in {"gap", "split"}
  BY DEF CarveGap, SplitCarve, Critical
<1>3. /\ Types(own, st, el, n) /\ LiveSlices(own, st) /\ Room(own, st) /\ live \subseteq SliceSet
  BY DEF HInv, Types
<1> DEFINE T == {id0}
<1>4. /\ BumpId \notin T /\ (\A x : LiveId(x) \notin T)
      /\ \A u \in Threads \ {t} : MyIds(u) \cap T = {}
  BY IdsDiffer DEF MyIds
<1> HIDE DEF T
<1>5. pc' = [pc EXCEPT ![t] = pc'[t]] /\ pc'[t] \in Labels
  BY <1>1 DEF Cuts, Labels
<1>6. /\ bump' = bump /\ live' = live /\ Typed(r'[t]) /\ (Carving(t)' <=> Carving(t))
      /\ Carving(t) => r'[t].lo = r[t].lo /\ r'[t].top = r[t].top
  BY DEF Cuts
<1>7. Frame(T, own, st, own2, st2)
  BY DEF T
<1>8. Moved(T, own, st, el, n, own2, st2, el2, n2, t)
  BY <1>2, <1>3, <1>4, <1>5, <1>6, <1>7 DEF Moved
<1>9. LiveSlices(own2, st2)'
  BY <1>3, <1>4, <1>6, <1>7, KeepLive
<1>10. Room(own2, st2)'
  <2>1. Alone(t)
    BY StepAlone DEF LInv, Step
  <2> QED BY <1>3, <1>4, <1>6, <1>7, <2>1, KeepRoom
<1> QED BY <1>8, <1>9, <1>10 DEF T

(* A carving of the gap or of the tail is such a cut.                       *)
LEMMA CarveStep ==
  ASSUME NEW own, NEW st, NEW el, NEW n, HInv(own, st, el, n), booted, LInv,
         NEW t \in Threads, CarveGap(t) \/ SplitCarve(t),
         NEW id0, id0 = GapId(t) \/ id0 = BlockId(t), NEW lo, NEW hi, NEW size, NEW k, NEW start,
         Cuts(id0, own, st, t, lo, hi, size, k, start)
  PROVE  \E own2, st2, el2, n2 : Carved(id0, own, st, el, n, own2, st2, el2, n2, t, lo, start, k)
<1>1. /\ word0 \in [Granules -> Int] /\ word1 \in [Granules -> Int] /\ head \in [Bins -> Nat]
  BY Here
<1>2. /\ Types(own, st, el, n) /\ Lists(own, st, el, n) /\ st \subseteq Granules \ {0}
      /\ n \in [Bins -> Nat] /\ el \in [Bins -> [Nat -> Int]]
  BY DEF HInv, Types
<1>3. PICK w : w = head[oversize_bin]
  OBVIOUS
<1>4. w \in Int /\ w = el[oversize_bin][n[oversize_bin]] /\ oversize_bin \in Bins
  BY <1>1, <1>2, <1>3, OversizeIsABin DEF Lists
<1>5. /\ Held(own, st, id0, lo, hi)
      /\ start = hi - size /\ size <= hi - lo /\ size \in Nat
      /\ Valid(start, size) /\ bin_index(size) = k
      /\ word0' = [word0 EXCEPT ![start] = pack(size, FREE)]
      /\ word1' = word1 \/ word1' = [word1 EXCEPT ![start] = w]
  BY <1>3 DEF Cuts
<1>6. ASSUME NEW id, NEW own2, own2 = Give(own, id, start, hi), NEW st2, st2 = st \cup {start}
      PROVE  /\ Frame({id0}, own, st, own2, st2)
             /\ word0' \in [Granules -> Int] /\ word1' \in [Granules -> Int]
             /\ start \in Granules \ {0} /\ own[start] = id0 /\ st2 \subseteq Granules \ {0}
             /\ FreeBlock(own2, st2, id, k, start)'
             /\ lo <= start
             /\ lo < start => Held(own2, st2, id0, lo, start)
             /\ st \subseteq st2
  <2>1. Cut(own, st, own2, st2, id0, id, lo, hi, size, k, start, w)
    BY <1>1, <1>2, <1>4, <1>5, <1>6 DEF Cut
  <2>2. st \subseteq st2
    BY <1>6
  <2>3. Frame({id0}, own, st, own2, st2)
    BY <2>1, CarveOff
  <2>4. FreeBlock(own2, st2, id, k, start)'
    BY <2>1, CarveOff
  <2>5. lo <= start /\ (lo < start => Held(own2, st2, id0, lo, start))
    BY <2>1, CarveOff
  <2>6. start \in Granules \ {0} /\ st2 \subseteq Granules \ {0} /\ start < hi
    BY <2>1, CarveOff
  <2>8. own[start] = id0
    BY <1>5, <2>5, <2>6 DEF Held
  <2>7. word0' \in [Granules -> Int] /\ word1' \in [Granules -> Int]
    BY <2>1, CarveOff
  <2> QED BY <2>2, <2>3, <2>4, <2>5, <2>6, <2>7, <2>8
<1>7. CASE k # oversize_bin
  <2>0. PICK own2, st2 : own2 = Give(own, PieceId(t), start, hi) /\ st2 = st \cup {start}
    OBVIOUS
  <2>1. head' = head
    BY <1>7 DEF Cuts
  <2>2. /\ Frame({id0}, own, st, own2, st2)
        /\ word0' \in [Granules -> Int] /\ word1' \in [Granules -> Int]
        /\ start \in Granules \ {0} /\ st2 \subseteq Granules \ {0}
        /\ FreeBlock(own2, st2, PieceId(t), k, start)'
        /\ lo <= start
        /\ lo < start => Held(own2, st2, id0, lo, start)
        /\ st \subseteq st2
    BY <1>6, <2>0
  <2>3. /\ Moved({id0}, own, st, el, n, own2, st2, el, n, t)
        /\ LiveSlices(own2, st2)' /\ Room(own2, st2)'
    BY <1>1, <1>2, <2>1, <2>2, CarveMoved
  <2>4. Lists(own2, st2, el, n)'
    <3>1. \A j, x : BinId(j, x) \notin {id0}
      BY IdsDiffer DEF MyIds
    <3> QED BY <1>2, <2>1, <2>2, <3>1, KeepLists
  <2> QED BY <2>2, <2>3, <2>4 DEF Carved
<1>8. CASE k = oversize_bin
  <2>0. PICK own2, st2 : own2 = Give(own, BinId(k, start), start, hi) /\ st2 = st \cup {start}
    OBVIOUS
  <2> DEFINE el2 == Pushed(el, n, k, start)
             n2 == Longer(n, k)
             T == {id0}
  <2>1. head' = [head EXCEPT ![k] = start] /\ word1' = [word1 EXCEPT ![start] = w]
    BY <1>3, <1>8 DEF Cuts
  <2>2. /\ Frame(T, own, st, own2, st2)
        /\ word0' \in [Granules -> Int] /\ word1' \in [Granules -> Int]
        /\ start \in Granules \ {0} /\ st2 \subseteq Granules \ {0}
        /\ FreeBlock(own2, st2, BinId(k, start), k, start)'
        /\ lo <= start /\ own[start] \in T
        /\ lo < start => Held(own2, st2, id0, lo, start)
        /\ st \subseteq st2
    BY <1>6, <2>0
  <2>3. start \in Nat /\ AddrOf(start) = start
    <3>1. start \in Nat /\ start % MIN_ALIGN = 0
      BY <2>2, HeapBounds
    <3> QED BY <3>1 DEF AddrOf
  <2>4. word1'[start] = el[k][n[k]]
    BY <1>1, <1>4, <1>8, <2>1, <2>2
  <2>5. n2 \in [Bins -> Nat] /\ el2 \in [Bins -> [Nat -> Int]]
    <3>1. n[k] \in Nat /\ n[k] + 1 \in Nat /\ el[k] \in [Nat -> Int] /\ start \in Int
      BY <1>2, <1>4, <1>8, <2>3
    <3> QED BY <1>2, <1>4, <1>8, <3>1 DEF Pushed, Longer
  <2>6. \A j, x : BinId(j, x) \notin T
    BY IdsDiffer DEF MyIds
  <2> HIDE DEF T
  <2>7. Push(T, own, st, own2, st2, el, n, k, start, start)
    BY <1>2, <1>8, <2>1, <2>2, <2>3, <2>4, <2>6 DEF Push
  <2>8. Lists(own2, st2, el2, n2)' /\ head' \in [Bins -> Nat]
    BY <1>1, <1>2, <1>4, <1>8, <2>7, ListGrows
  <2>9. Frame({id0}, own, st, own2, st2)
    BY <2>2 DEF T
  <2> HIDE DEF el2, n2
  <2>10. /\ Moved({id0}, own, st, el, n, own2, st2, el2, n2, t)
         /\ LiveSlices(own2, st2)' /\ Room(own2, st2)'
    BY <2>2, <2>5, <2>8, <2>9, CarveMoved
  <2> QED BY <1>8, <2>2, <2>8, <2>10 DEF Carved
<1> QED BY <1>7, <1>8

\* A piece below WORD.
LEMMA PieceFacts ==
  ASSUME SafeUse, NEW end \in Nat, NEW len \in Nat, len < end, end <= heap_end,
         end % MIN_ALIGN = 0, largest_carvable(end, len).size # 0
  PROVE  LET piece == largest_carvable(end, len)
         IN /\ piece.size \in Nat /\ piece.size <= len /\ piece.bin \in Bins
            /\ Valid(end - piece.size, piece.size) /\ bin_index(piece.size) = piece.bin
<1>1. /\ WORD \in Nat /\ heap_end \in Nat /\ heap_end < WORD /\ EXP_CEIL \in Nat
      /\ heap_end + 2 * EXP_CEIL <= WORD
  BY HeapBounds, GeoConstants, CadAssumption DEF SafeUse
<1>2. end > 0 /\ end < WORD /\ (end - len) + EXP_CEIL <= WORD
  BY <1>1
<1> QED BY <1>2, CarveFacts, CadAssumption

\* The piece that CarveGap cuts off.
LEMMA GapCut ==
  ASSUME SafeUse, NEW own, NEW st, NEW el, NEW n, HInv(own, st, el, n), LInv,
         NEW t \in Threads, CarveGap(t)
  PROVE  \E lo, hi, piece, size, k, start :
           /\ lo = r[t].lo /\ hi = r[t].end
           /\ piece = largest_carvable(hi, hi - lo) /\ size = piece.size /\ k = piece.bin
           /\ start = hi - size
           /\ Held(own, st, GapId(t), lo, hi) /\ lo < hi
           /\ lo \in Nat \ {0} /\ hi \in Nat /\ hi <= heap_end /\ hi % MIN_ALIGN = 0 /\ lo % MIN_ALIGN = 0
           /\ size \in Nat /\ size <= hi - lo /\ k \in Bins /\ Valid(start, size) /\ bin_index(size) = k
           /\ start \in Nat /\ lo <= start /\ start <= hi /\ start % MIN_ALIGN = 0
           /\ k # oversize_bin => k \in FixedBins
<1> USE DEF Goto, control, memory, client, setup
<1>1. /\ pc[t] \in Labels /\ Typed(r[t])
      /\ Hands(own, st, t) /\ Moving(own, st, t) /\ Place(t)
      /\ JobInPlace(t) /\ FixedBinOnly(t)
      /\ pc \in [Threads -> Labels] /\ DOMAIN r = Threads
      /\ head \in [Bins -> Nat]
      /\ word0 \in [Granules -> Int] /\ word1 \in [Granules -> Int]
  BY Here
<1>2. /\ pc[t] = "gap" /\ Carving(t) /\ r[t].job \in {"slow", "over"}
      /\ Found(t) /\ Serving(t) /\ r[t].blk # 0 /\ r[t].size \in Requests
      /\ r[t].lo <= r[t].end /\ r[t].end <= r[t].blk /\ r[t].iter = 0
      /\ r[t].lo % MIN_ALIGN = 0 /\ r[t].end % MIN_ALIGN = 0 /\ r[t].lo \in Nat
  <2>1. pc[t] = "gap" /\ Carving(t) /\ r[t].job \in {"slow", "over"}
    BY <1>1 DEF CarveGap, Carving, JobInPlace
  <2>2. Found(t) /\ r[t].lo <= r[t].end /\ r[t].end <= r[t].blk /\ r[t].iter = 0
        /\ r[t].lo % MIN_ALIGN = 0 /\ r[t].end % MIN_ALIGN = 0 /\ r[t].lo \in Nat
    BY <1>1, <2>1 DEF Place
  <2> QED BY <2>1, <2>2 DEF Found, Serving
<1>3. PICK lo, hi, piece, size, k, start :
        /\ lo = r[t].lo /\ hi = r[t].end
        /\ piece = largest_carvable(hi, hi - lo) /\ size = piece.size /\ k = piece.bin
        /\ start = hi - size
  OBVIOUS
<1>4. gap_goes_on(lo, hi)
  BY <1>3 DEF CarveGap, GapLeft
<1>5. Held(own, st, GapId(t), lo, hi) /\ lo < hi
  <2>1. lo < hi
    <3>1. MIN_ALIGN \in Nat \ {0} /\ lo \in Int /\ hi \in Int
      BY <1>1, <1>3, HeapBounds DEF Typed
    <3> QED BY <1>4, <3>1 DEF gap_goes_on
  <2> QED BY <1>1, <1>2, <1>3, <2>1 DEF Hands
<1>6. /\ lo \in Nat \ {0} /\ hi \in Nat /\ hi <= heap_end /\ hi % MIN_ALIGN = 0 /\ lo % MIN_ALIGN = 0
  BY <1>5, HeldFacts
<1>7. /\ size \in Nat /\ size <= hi - lo /\ k \in Bins /\ Valid(start, size) /\ bin_index(size) = k
      /\ start \in Nat /\ lo <= start /\ start <= hi /\ start % MIN_ALIGN = 0
      /\ k # oversize_bin => k \in FixedBins
  <2>1. hi - lo \in Nat /\ hi - lo < hi /\ largest_carvable(hi, hi - lo).size # 0
    BY <1>4, <1>5, <1>6 DEF gap_goes_on
  <2>2. /\ size \in Nat /\ size <= hi - lo /\ k \in Bins /\ Valid(start, size) /\ bin_index(size) = k
    BY <1>3, <1>6, <2>1, PieceFacts
  <2>3. start \in Nat /\ lo <= start /\ start <= hi
    BY <1>3, <1>6, <2>2
  <2> QED BY <2>2, <2>3, ValidFacts, CadAssumption
<1> QED BY <1>3, <1>5, <1>6, <1>7

\* CarveGap: the top of the gap becomes a free block.
LEMMA HCarveGap ==
  ASSUME SafeUse, NEW own, NEW st, NEW el, NEW n, HInv(own, st, el, n), booted, LInv,
         NEW t \in Threads, CarveGap(t)
  PROVE  \E own2, st2, el2, n2 : HInv(own2, st2, el2, n2)'
<1> USE DEF Goto, control, memory, client, setup
<1>1. /\ pc[t] \in Labels /\ Typed(r[t])
      /\ Hands(own, st, t) /\ Moving(own, st, t) /\ Place(t)
      /\ JobInPlace(t) /\ FixedBinOnly(t)
      /\ pc \in [Threads -> Labels] /\ DOMAIN r = Threads
      /\ head \in [Bins -> Nat]
      /\ word0 \in [Granules -> Int] /\ word1 \in [Granules -> Int]
  BY Here
<1>2. /\ pc[t] = "gap" /\ Carving(t) /\ r[t].job \in {"slow", "over"}
      /\ Found(t) /\ Serving(t) /\ r[t].blk # 0 /\ r[t].size \in Requests
      /\ r[t].lo <= r[t].end /\ r[t].end <= r[t].blk /\ r[t].iter = 0
      /\ r[t].lo % MIN_ALIGN = 0 /\ r[t].end % MIN_ALIGN = 0 /\ r[t].lo \in Nat
  <2>1. pc[t] = "gap" /\ Carving(t) /\ r[t].job \in {"slow", "over"}
    BY <1>1 DEF CarveGap, Carving, JobInPlace
  <2>2. Found(t) /\ r[t].lo <= r[t].end /\ r[t].end <= r[t].blk /\ r[t].iter = 0
        /\ r[t].lo % MIN_ALIGN = 0 /\ r[t].end % MIN_ALIGN = 0 /\ r[t].lo \in Nat
    BY <1>1, <2>1 DEF Place
  <2> QED BY <2>1, <2>2 DEF Found, Serving
<1>3. PICK lo, hi, piece, size, k, start :
        /\ lo = r[t].lo /\ hi = r[t].end
        /\ piece = largest_carvable(hi, hi - lo) /\ size = piece.size /\ k = piece.bin
        /\ start = hi - size
        /\ Held(own, st, GapId(t), lo, hi) /\ lo < hi
        /\ lo \in Nat \ {0} /\ hi \in Nat /\ hi <= heap_end /\ hi % MIN_ALIGN = 0 /\ lo % MIN_ALIGN = 0
        /\ size \in Nat /\ size <= hi - lo /\ k \in Bins /\ Valid(start, size) /\ bin_index(size) = k
        /\ start \in Nat /\ lo <= start /\ start <= hi /\ start % MIN_ALIGN = 0
        /\ k # oversize_bin => k \in FixedBins
  BY GapCut
<1>5. Held(own, st, GapId(t), lo, hi) /\ lo < hi
  BY <1>3
<1>6. /\ lo \in Nat \ {0} /\ hi \in Nat /\ hi <= heap_end /\ hi % MIN_ALIGN = 0 /\ lo % MIN_ALIGN = 0
  BY <1>3
<1>7. /\ size \in Nat /\ size <= hi - lo /\ k \in Bins /\ Valid(start, size) /\ bin_index(size) = k
      /\ start \in Nat /\ lo <= start /\ start <= hi /\ start % MIN_ALIGN = 0
      /\ k # oversize_bin => k \in FixedBins
  BY <1>3
<1>8. /\ r' = [r EXCEPT ![t].end = start, ![t].bin = k] /\ Release(t, start, piece)
      /\ bump' = bump /\ live' = live
  BY <1>3 DEF CarveGap
<1>9. /\ Typed(r'[t]) /\ SameCall(t)
      /\ r'[t].blk = r[t].blk /\ r'[t].top = r[t].top /\ r'[t].lo = lo /\ r'[t].end = start
      /\ r'[t].bin = k /\ r'[t].old = r[t].old /\ r'[t].nxt = r[t].nxt
      /\ r'[t].prev = r[t].prev /\ r'[t].cur = r[t].cur /\ r'[t].iter = r[t].iter
  <2>1. k \in Int /\ start \in Int
    BY <1>7, GeoConstants, CadAssumption
  <2> QED BY <1>1, <1>3, <1>8, <2>1, Fields DEF Typed, Jobs, SameCall
<1>10. /\ pc' = IF k = oversize_bin THEN pc ELSE [pc EXCEPT ![t] = "push_load"]
       /\ pc'[t] = IF k = oversize_bin THEN "gap" ELSE "push_load"
  BY <1>1, <1>2, <1>3, <1>8 DEF Release
<1>11. Carving(t)'
  BY <1>2, <1>9, <1>10 DEF Carving, Pushing, SameCall
<1>12. Cuts(GapId(t), own, st, t, lo, hi, size, k, start)
  <2>1. word0' = [word0 EXCEPT ![start] = pack(size, FREE)]
    BY <1>3, <1>8 DEF Release
  <2>2. \/ /\ k # oversize_bin /\ k \in Bins
           /\ word1' = word1 /\ head' = head /\ pc' = [pc EXCEPT ![t] = "push_load"]
        \/ /\ k = oversize_bin
           /\ word1' = [word1 EXCEPT ![start] = head[oversize_bin]]
           /\ head' = [head EXCEPT ![oversize_bin] = start] /\ pc' = pc
    BY <1>3, <1>7, <1>8 DEF Release
  <2> QED BY <1>2, <1>3, <1>5, <1>7, <1>8, <1>9, <1>11, <2>1, <2>2 DEF Cuts
<1>13. PICK own2, st2, el2, n2 :
         Carved(GapId(t), own, st, el, n, own2, st2, el2, n2, t, lo, start, k)
  BY <1>12, CarveStep
<1>14. /\ Moved({GapId(t)}, own, st, el, n, own2, st2, el2, n2, t)
       /\ Lists(own2, st2, el2, n2)' /\ LiveSlices(own2, st2)' /\ Room(own2, st2)'
       /\ lo < start => Held(own2, st2, GapId(t), lo, start)
       /\ k # oversize_bin => FreeBlock(own2, st2, PieceId(t), k, start)'
       /\ Frame({GapId(t)}, own, st, own2, st2)
  BY <1>13 DEF Carved, Moved
<1>15. Hands(own2, st2, t)'
  <2> DEFINE T == {GapId(t)}
  <2>1. SrcId(t) \notin T /\ DstId(t) \notin T /\ BlockId(t) \notin T /\ Frame(T, own, st, own2, st2)
    BY <1>14, IdsDiffer
  <2> HIDE DEF T
  <2>2. HoldsSrc(t)' => HoldsSrc(t)
    BY <1>9 DEF HoldsSrc, SameCall
  <2>3. (HoldsSrc(t) => SliceHeld(own2, st2, SrcId(t), r[t].src))'
    BY <1>1, <1>9, <2>1, <2>2, KeepHands DEF SameCall
  <2>4. (IF r[t].dst.ptr = 0 THEN r[t].dst = NullSlice ELSE SliceHeld(own2, st2, DstId(t), r[t].dst))'
    BY <1>1, <1>9, <2>1, KeepHands DEF SameCall
  <2>5. (r[t].blk # 0 => Block(own2, st2, BlockId(t), r[t].blk, r[t].top))'
    BY <1>1, <1>9, <2>1, KeepHands
  <2>6. (IF Carving(t) THEN r[t].lo < r[t].end => Held(own2, st2, GapId(t), r[t].lo, r[t].end)
                       ELSE r[t].lo = 0 /\ r[t].end = 0)'
    BY <1>9, <1>11, <1>14
  <2> QED BY <2>3, <2>4, <2>5, <2>6 DEF Hands
<1>16. Moving(own2, st2, t)'
  <2>1. CASE k = oversize_bin
    BY <1>10, <2>1 DEF Moving, Pushing
  <2>2. CASE k # oversize_bin
    <3>1. PushId(t)' = PieceId(t) /\ Piece(t)' = start
      BY <1>2, <1>9 DEF PushId, Piece, SameCall
    <3>2. FreeBlock(own2, st2, PushId(t), r[t].bin, Piece(t))' /\ r'[t].bin \in FixedBins
      BY <1>7, <1>9, <1>14, <2>2, <3>1 DEF FreeBlock
    <3> QED BY <1>10, <2>2, <3>2 DEF Moving, Pushing
  <2> QED BY <2>1, <2>2
<1>17. Place(t)'
  <2>1. start <= r[t].blk
    <3>1. r[t].blk \in Int
      BY <1>1 DEF Typed
    <3> QED BY <1>2, <1>3, <1>6, <1>7, <3>1
  <2>2. Found(t)' /\ Serving(t)'
    BY <1>2, <1>9 DEF Found, Serving, SameCall, Target
  <2>3. r'[t].prev = 0 /\ (r'[t].dst.ptr # 0 => r'[t].size <= r'[t].dst.len)
        /\ (r'[t].op = "realloc" => r'[t].src.ptr # 0) /\ (r'[t].op = "alloc" => r'[t].src.ptr = 0)
    BY <1>1, <1>2, <1>9 DEF Place, SameCall
  <2>4. r'[t].op # "free"
    BY <2>2 DEF Serving
  <2>5. r'[t].job \in {"slow", "over"}
    BY <1>2, <1>9 DEF SameCall
  <2>6. pc'[t] \in {"gap", "push_load"}
    BY <1>10
  <2>7. r'[t].lo <= r'[t].end /\ r'[t].end <= r'[t].blk /\ r'[t].iter = 0
        /\ r'[t].lo % MIN_ALIGN = 0 /\ r'[t].end % MIN_ALIGN = 0 /\ r'[t].lo \in Nat
    BY <1>2, <1>6, <1>7, <1>9, <2>1
  <2> QED BY <2>2, <2>3, <2>4, <2>5, <2>6, <2>7 DEF Place, Initialising, AskingAt, Carving, Pushing
<1>18. Fitting(el2, n2, t)' /\ Failing(el2, n2, t)'
  BY <1>10 DEF Fitting, Failing
<1>19. HInv(own2, st2, el2, n2)'
  BY <1>14, <1>15, <1>16, <1>17, <1>18, Busy DEF Step
<1> QED BY <1>19

\* The piece that SplitCarve cuts off.
LEMMA SplitCut ==
  ASSUME SafeUse, NEW own, NEW st, NEW el, NEW n, HInv(own, st, el, n), LInv,
         NEW t \in Threads, SplitCarve(t)
  PROVE  \E lo, hi, piece, size, need, k, start, iter :
           /\ lo = r[t].blk /\ hi = r[t].top /\ need = Target(t) /\ iter = r[t].iter
           /\ piece = largest_carvable(hi, (hi - lo) - need) /\ size = piece.size /\ k = piece.bin
           /\ start = hi - size
           /\ Held(own, st, BlockId(t), lo, hi) /\ lo \in st
           /\ lo \in Nat \ {0} /\ hi \in Nat /\ lo < hi /\ hi <= heap_end /\ hi % MIN_ALIGN = 0
           /\ lo % MIN_ALIGN = 0
           /\ need \in Nat /\ need > 0 /\ need <= hi - lo /\ lo % align_of_bin(bin_index(hi - lo)) = 0
           /\ size \in Nat /\ size <= (hi - lo) - need /\ k \in Bins /\ Valid(start, size)
           /\ bin_index(size) = k
           /\ start \in Nat /\ lo < start /\ start <= hi /\ need <= start - lo
           /\ k # oversize_bin => k \in FixedBins
<1> USE DEF Goto, control, memory, client, setup
<1>1. /\ pc[t] \in Labels /\ Typed(r[t])
      /\ Hands(own, st, t) /\ Moving(own, st, t) /\ Place(t)
      /\ JobInPlace(t) /\ FixedBinOnly(t)
      /\ pc \in [Threads -> Labels] /\ DOMAIN r = Threads
      /\ head \in [Bins -> Nat]
      /\ word0 \in [Granules -> Int] /\ word1 \in [Granules -> Int]
  BY Here
<1>2. /\ pc[t] = "split" /\ ~Carving(t) /\ r[t].job \in {"fit", "shrink"}
      /\ SplitBlock(t) /\ r[t].blk # 0 /\ r[t].size \in Requests
  <2>1. pc[t] = "split" /\ r[t].job \in {"fit", "shrink"}
    BY <1>1 DEF SplitCarve, JobInPlace
  <2>2. SplitBlock(t) /\ ~Carving(t)
    BY <1>1, <2>1 DEF Place, Carving, Pushing
  <2> QED BY <2>1, <2>2 DEF SplitBlock
<1>3. PICK lo, hi, piece, size, need, k, start, iter :
        /\ lo = r[t].blk /\ hi = r[t].top /\ need = Target(t) /\ iter = r[t].iter
        /\ piece = largest_carvable(hi, (hi - lo) - need) /\ size = piece.size /\ k = piece.bin
        /\ start = hi - size
  OBVIOUS
<1>4. split_goes_on(hi, hi - lo, need, iter)
  BY <1>3 DEF SplitCarve, SplitOn, InHand
<1>5. /\ Held(own, st, BlockId(t), lo, hi) /\ lo \in st
      /\ lo \in Nat \ {0} /\ hi \in Nat /\ lo < hi /\ hi <= heap_end /\ hi % MIN_ALIGN = 0
      /\ lo % MIN_ALIGN = 0
  <2>1. Held(own, st, BlockId(t), lo, hi) /\ lo \in st
    BY <1>1, <1>2, <1>3 DEF Hands, Block
  <2> QED BY <2>1, HeldFacts
<1>6. /\ need \in Nat /\ need > 0 /\ need <= hi - lo /\ lo % align_of_bin(bin_index(hi - lo)) = 0
  <2>1. need \in Nat /\ need >= LNR_FLOOR
    BY <1>2, <1>3, RequestOk DEF Target
  <2>2. LNR_FLOOR \in Nat \ {0}
    BY GeoConstants, CadAssumption
  <2>3. InHand(t) = hi - lo
    BY <1>3 DEF InHand
  <2>4. InHand(t) >= need /\ lo % align_of_bin(bin_index(InHand(t))) = 0
    BY <1>2, <1>3 DEF SplitBlock
  <2>5. need > 0 /\ need <= hi - lo
    BY <1>5, <2>1, <2>2, <2>3, <2>4
  <2> QED BY <2>1, <2>3, <2>4, <2>5
<1>7. /\ size \in Nat /\ size <= (hi - lo) - need /\ k \in Bins /\ Valid(start, size)
      /\ bin_index(size) = k
      /\ start \in Nat /\ lo < start /\ start <= hi /\ need <= start - lo
      /\ k # oversize_bin => k \in FixedBins
  <2>1. PICK len : len = (hi - lo) - need
    OBVIOUS
  <2>2. len \in Nat /\ len < hi /\ len < hi - lo
    BY <1>5, <1>6, <2>1
  <2>3. largest_carvable(hi, len).size # 0 /\ piece = largest_carvable(hi, len)
    BY <1>3, <1>4, <2>1 DEF split_goes_on
  <2>4. /\ size \in Nat /\ size <= len /\ k \in Bins /\ Valid(start, size) /\ bin_index(size) = k
    BY <1>3, <1>5, <2>2, <2>3, PieceFacts
  <2>5. start \in Nat /\ lo < start /\ start <= hi /\ need <= start - lo
    BY <1>3, <1>5, <1>6, <2>1, <2>2, <2>4
  <2>6. k # oversize_bin => k \in FixedBins
    BY <2>4, <2>5, ValidFacts, CadAssumption
  <2> QED BY <2>1, <2>4, <2>5, <2>6
<1> QED BY <1>3, <1>5, <1>6, <1>7

\* SplitCarve: the top of the block becomes a free block.
LEMMA HSplitCarve ==
  ASSUME SafeUse, NEW own, NEW st, NEW el, NEW n, HInv(own, st, el, n), booted, LInv,
         NEW t \in Threads, SplitCarve(t)
  PROVE  \E own2, st2, el2, n2 : HInv(own2, st2, el2, n2)'
<1> USE DEF Goto, control, memory, client, setup
<1>1. /\ pc[t] \in Labels /\ Typed(r[t])
      /\ Hands(own, st, t) /\ Moving(own, st, t) /\ Place(t)
      /\ JobInPlace(t) /\ FixedBinOnly(t)
      /\ pc \in [Threads -> Labels] /\ DOMAIN r = Threads
      /\ head \in [Bins -> Nat]
      /\ word0 \in [Granules -> Int] /\ word1 \in [Granules -> Int]
  BY Here
<1>2. /\ pc[t] = "split" /\ ~Carving(t) /\ r[t].job \in {"fit", "shrink"}
      /\ SplitBlock(t) /\ r[t].blk # 0 /\ r[t].size \in Requests
  <2>1. pc[t] = "split" /\ r[t].job \in {"fit", "shrink"}
    BY <1>1 DEF SplitCarve, JobInPlace
  <2>2. SplitBlock(t) /\ ~Carving(t)
    BY <1>1, <2>1 DEF Place, Carving, Pushing
  <2> QED BY <2>1, <2>2 DEF SplitBlock
<1>3. PICK lo, hi, piece, size, need, k, start, iter :
        /\ lo = r[t].blk /\ hi = r[t].top /\ need = Target(t) /\ iter = r[t].iter
        /\ piece = largest_carvable(hi, (hi - lo) - need) /\ size = piece.size /\ k = piece.bin
        /\ start = hi - size
        /\ Held(own, st, BlockId(t), lo, hi) /\ lo \in st
        /\ lo \in Nat \ {0} /\ hi \in Nat /\ lo < hi /\ hi <= heap_end /\ hi % MIN_ALIGN = 0
        /\ lo % MIN_ALIGN = 0
        /\ need \in Nat /\ need > 0 /\ need <= hi - lo /\ lo % align_of_bin(bin_index(hi - lo)) = 0
        /\ size \in Nat /\ size <= (hi - lo) - need /\ k \in Bins /\ Valid(start, size)
        /\ bin_index(size) = k
        /\ start \in Nat /\ lo < start /\ start <= hi /\ need <= start - lo
        /\ k # oversize_bin => k \in FixedBins
  BY SplitCut
<1>5. /\ Held(own, st, BlockId(t), lo, hi) /\ lo \in st
      /\ lo \in Nat \ {0} /\ hi \in Nat /\ lo < hi /\ hi <= heap_end /\ hi % MIN_ALIGN = 0
      /\ lo % MIN_ALIGN = 0
  BY <1>3
<1>6. /\ need \in Nat /\ need > 0 /\ need <= hi - lo /\ lo % align_of_bin(bin_index(hi - lo)) = 0
  BY <1>3
<1>7. /\ size \in Nat /\ size <= (hi - lo) - need /\ k \in Bins /\ Valid(start, size)
      /\ bin_index(size) = k
      /\ start \in Nat /\ lo < start /\ start <= hi /\ need <= start - lo
      /\ k # oversize_bin => k \in FixedBins
  BY <1>3
<1>8. /\ r' = [r EXCEPT ![t].top = start, ![t].iter = iter + 1, ![t].bin = k]
      /\ Release(t, start, piece) /\ bump' = bump /\ live' = live
  BY <1>3 DEF SplitCarve, InHand
<1>9. /\ Typed(r'[t]) /\ SameCall(t)
      /\ r'[t].blk = lo /\ r'[t].top = start /\ r'[t].lo = r[t].lo /\ r'[t].end = r[t].end
      /\ r'[t].bin = k /\ r'[t].old = r[t].old /\ r'[t].nxt = r[t].nxt
      /\ r'[t].prev = r[t].prev /\ r'[t].cur = r[t].cur /\ r'[t].iter # 0
  <2>1. k \in Int /\ start \in Int
    BY <1>7, GeoConstants, CadAssumption
  <2>2. iter \in Nat
    BY <1>1, <1>3 DEF Typed
  <2>3. iter + 1 \in Nat /\ iter + 1 # 0
    BY <2>2
  <2>4. r' = [r EXCEPT ![t].top = start, ![t].iter = iter + 1, ![t].bin = k]
    BY <1>8
  <2>5. r[t].blk = lo /\ Typed(r[t]) /\ DOMAIN r = Threads
    BY <1>1, <1>3
  <2>6. PICK i : i = iter + 1
    OBVIOUS
  <2> QED BY <2>1, <2>3, <2>4, <2>5, <2>6, Fields, SMTT(30) DEF Typed, Jobs, SameCall
<1>10. /\ pc' = IF k = oversize_bin THEN pc ELSE [pc EXCEPT ![t] = "push_load"]
       /\ pc'[t] = IF k = oversize_bin THEN "split" ELSE "push_load"
  BY <1>1, <1>2, <1>3, <1>8 DEF Release
<1>11. ~Carving(t)'
  BY <1>2, <1>9, <1>10 DEF Carving, Pushing, SameCall
<1>12. Cuts(BlockId(t), own, st, t, lo, hi, size, k, start)
  <2>1. word0' = [word0 EXCEPT ![start] = pack(size, FREE)]
    BY <1>3, <1>8 DEF Release
  <2>2. \/ /\ k # oversize_bin /\ k \in Bins
           /\ word1' = word1 /\ head' = head /\ pc' = [pc EXCEPT ![t] = "push_load"]
        \/ /\ k = oversize_bin
           /\ word1' = [word1 EXCEPT ![start] = head[oversize_bin]]
           /\ head' = [head EXCEPT ![oversize_bin] = start] /\ pc' = pc
    BY <1>3, <1>7, <1>8 DEF Release
  <2>3. size <= hi - lo
    BY <1>5, <1>6, <1>7
  <2> QED BY <1>2, <1>3, <1>5, <1>7, <1>8, <1>9, <1>11, <2>1, <2>2, <2>3 DEF Cuts
<1>13. PICK own2, st2, el2, n2 :
         Carved(BlockId(t), own, st, el, n, own2, st2, el2, n2, t, lo, start, k)
  BY <1>12, CarveStep
<1>14. /\ Moved({BlockId(t)}, own, st, el, n, own2, st2, el2, n2, t)
       /\ Lists(own2, st2, el2, n2)' /\ LiveSlices(own2, st2)' /\ Room(own2, st2)'
       /\ Block(own2, st2, BlockId(t), lo, start)
       /\ k # oversize_bin => FreeBlock(own2, st2, PieceId(t), k, start)'
       /\ Frame({BlockId(t)}, own, st, own2, st2)
  BY <1>5, <1>7, <1>13 DEF Carved, Moved, Block
<1>15. Hands(own2, st2, t)'
  <2> DEFINE T == {BlockId(t)}
  <2>1. SrcId(t) \notin T /\ DstId(t) \notin T /\ Frame(T, own, st, own2, st2)
    BY <1>14, IdsDiffer
  <2> HIDE DEF T
  <2>2. HoldsSrc(t)' => HoldsSrc(t)
    BY <1>9 DEF HoldsSrc, SameCall
  <2>3. (HoldsSrc(t) => SliceHeld(own2, st2, SrcId(t), r[t].src))'
    BY <1>1, <1>9, <2>1, <2>2, KeepHands DEF SameCall
  <2>4. (IF r[t].dst.ptr = 0 THEN r[t].dst = NullSlice ELSE SliceHeld(own2, st2, DstId(t), r[t].dst))'
    BY <1>1, <1>9, <2>1, KeepHands DEF SameCall
  <2>5. r'[t].blk # 0 => Block(own2, st2, BlockId(t), r'[t].blk, r'[t].top)
    BY <1>9, <1>14
  <2>6. (IF Carving(t) THEN r[t].lo < r[t].end => Held(own2, st2, GapId(t), r[t].lo, r[t].end)
                       ELSE r[t].lo = 0 /\ r[t].end = 0)'
    BY <1>1, <1>2, <1>9, <1>11 DEF Hands
  <2> QED BY <2>3, <2>4, <2>5, <2>6 DEF Hands
<1>16. Moving(own2, st2, t)'
  <2>1. CASE k = oversize_bin
    BY <1>10, <2>1 DEF Moving, Pushing
  <2>2. CASE k # oversize_bin
    <3>1. PushId(t)' = PieceId(t) /\ Piece(t)' = start
      BY <1>2, <1>9 DEF PushId, Piece, SameCall
    <3>2. FreeBlock(own2, st2, PushId(t), r[t].bin, Piece(t))' /\ r'[t].bin \in FixedBins
      BY <1>7, <1>9, <1>14, <2>2, <3>1 DEF FreeBlock
    <3> QED BY <1>10, <2>2, <3>2 DEF Moving, Pushing
  <2> QED BY <2>1, <2>2
<1>17. Place(t)'
  <2>1. lo % align_of_bin(bin_index(start - lo)) = 0
    <3>1. start - lo \in Nat /\ hi - lo \in Nat /\ start - lo <= hi - lo /\ lo \in Int
      BY <1>5, <1>7
    <3> QED BY <1>6, <3>1, AlignSmaller, CadAssumption
  <2>2. InHand(t)' = start - lo /\ Target(t)' = need
    BY <1>3, <1>9 DEF InHand, Target, SameCall
  <2>3. SplitBlock(t)'
    <3>1. InHand(t)' >= Target(t)' /\ lo % align_of_bin(bin_index(InHand(t)')) = 0
      BY <1>5, <1>6, <1>7, <2>1, <2>2
    <3>2. /\ r'[t].op \in {"alloc", "realloc"} /\ r'[t].size \in Requests /\ r'[t].blk # 0
          /\ r'[t].dst = NullSlice /\ InPlace(t)'
      BY <1>2, <1>3, <1>9 DEF SplitBlock, SameCall, InPlace
    <3> QED BY <1>9, <3>1, <3>2 DEF SplitBlock
  <2>4. r'[t].prev = 0 /\ (r'[t].dst.ptr # 0 => r'[t].size <= r'[t].dst.len)
        /\ (r'[t].op = "realloc" => r'[t].src.ptr # 0) /\ (r'[t].op = "alloc" => r'[t].src.ptr = 0)
    BY <1>1, <1>2, <1>9 DEF Place, SameCall
  <2>5. r'[t].op # "free"
    BY <2>3 DEF SplitBlock
  <2>6. r'[t].job \in {"fit", "shrink"}
    BY <1>2, <1>9 DEF SameCall
  <2>7. pc'[t] \in {"split", "push_load"}
    BY <1>10
  <2> QED BY <2>3, <2>4, <2>5, <2>6, <2>7 DEF Place, Initialising, AskingAt, Carving, Pushing
<1>18. Fitting(el2, n2, t)' /\ Failing(el2, n2, t)'
  BY <1>10 DEF Fitting, Failing
<1>19. HInv(own2, st2, el2, n2)'
  BY <1>14, <1>15, <1>16, <1>17, <1>18, Busy DEF Step
<1> QED BY <1>19

-----------------------------------------------------------------------------
(* The removal from the middle of the oversized list.                       *)

-----------------------------------------------------------------------------
(* A block taken out of the oversized list.                                *)

Without(el, k, j) ==
  [el EXCEPT ![k] = [i \in Nat |-> IF i < j THEN el[k][i] ELSE el[k][i + 1]]]

Listed(el, n, k, j) ==
  el \in [Bins -> [Nat -> Int]] /\ n \in [Bins -> Nat] /\ k \in Bins /\ j \in 1 .. n[k]

(* The list without its block j, element by element.                        *)
LEMMA WithoutIs ==
  ASSUME NEW el, NEW n, NEW k, NEW j, Listed(el, n, k, j)
  PROVE  /\ Without(el, k, j) \in [Bins -> [Nat -> Int]] /\ Shorter(n, k) \in [Bins -> Nat]
         /\ Shorter(n, k)[k] = n[k] - 1
         /\ \A i \in Nat : Without(el, k, j)[k][i] = IF i < j THEN el[k][i] ELSE el[k][i + 1]
         /\ \A b \in Bins \ {k} : Shorter(n, k)[b] = n[b] /\ Without(el, k, j)[b] = el[b]
<1>0. el \in [Bins -> [Nat -> Int]] /\ n \in [Bins -> Nat] /\ k \in Bins /\ j \in 1 .. n[k]
  BY DEF Listed
<1>1. n[k] \in Nat /\ n[k] - 1 \in Nat /\ j \in Nat
  BY <1>0
<1>2. [i \in Nat |-> IF i < j THEN el[k][i] ELSE el[k][i + 1]] \in [Nat -> Int]
  <2>1. \A i \in Nat : i + 1 \in Nat /\ el[k][i] \in Int /\ el[k][i + 1] \in Int
    BY <1>0
  <2> QED BY <2>1
<1>3. Shorter(n, k) \in [Bins -> Nat] /\ Shorter(n, k)[k] = n[k] - 1
      /\ \A b \in Bins \ {k} : Shorter(n, k)[b] = n[b]
  BY <1>0, <1>1 DEF Shorter
<1>4. PICK f : f = [i \in Nat |-> IF i < j THEN el[k][i] ELSE el[k][i + 1]]
  OBVIOUS
<1>5. Without(el, k, j) = [el EXCEPT ![k] = f]
  BY <1>4 DEF Without
<1>6. /\ Without(el, k, j) \in [Bins -> [Nat -> Int]] /\ Without(el, k, j)[k] = f
      /\ \A b \in Bins \ {k} : Without(el, k, j)[b] = el[b]
  BY <1>0, <1>2, <1>4, <1>5
<1> QED BY <1>3, <1>4, <1>6

\* The word that pointed to the block points to the one below it.
Unlinked(own, own2, st, el, n, k, j) ==
  /\ Listed(el, n, k, j) /\ head \in [Bins -> Nat] /\ word1 \in [Granules -> Int]
  /\ \A a \in Granules : own[a] # BinId(k, el[k][j]) => own2[a] = own[a]
  /\ Lists(own, st, el, n) /\ k = oversize_bin /\ j \in 1 .. n[k]
  /\ word0' = word0
  /\ IF j = n[k]
     THEN head' = [head EXCEPT ![k] = el[k][j - 1]] /\ word1' = word1
     ELSE word1' = [word1 EXCEPT ![el[k][j + 1]] = el[k][j - 1]] /\ head' = head

(* The lists after block j has been unlinked.                               *)
LEMMA ListCuts ==
  ASSUME NEW own, NEW own2, NEW st, NEW el, NEW n, NEW k, NEW j, Unlinked(own, own2, st, el, n, k, j)
  PROVE  /\ Lists(own2, st, Without(el, k, j), Shorter(n, k))'
         /\ head' \in [Bins -> Nat] /\ word1' \in [Granules -> Int]
         /\ j # n[k] => \A a \in Granules : a # el[k][j + 1] => word1'[a] = word1[a]
         /\ j = n[k] => word1' = word1
<1> DEFINE el2 == Without(el, k, j)
           n2 == Shorter(n, k)
<1>0. /\ el \in [Bins -> [Nat -> Int]] /\ n \in [Bins -> Nat] /\ k \in Bins
      /\ head \in [Bins -> Nat] /\ word1 \in [Granules -> Int]
      /\ \A a \in Granules : own[a] # BinId(k, el[k][j]) => own2[a] = own[a]
      /\ Listed(el, n, k, j)
  BY DEF Unlinked, Listed
<1>1. /\ Lists(own, st, el, n) /\ k = oversize_bin /\ j \in 1 .. n[k] /\ word0' = word0
      /\ j = n[k] => head' = [head EXCEPT ![k] = el[k][j - 1]] /\ word1' = word1
      /\ j # n[k] => word1' = [word1 EXCEPT ![el[k][j + 1]] = el[k][j - 1]] /\ head' = head
  BY DEF Unlinked
<1>2. ASSUME NEW b \in Bins, NEW i \in 1 .. n[b]
      PROVE  /\ el[b][i] \in Granules /\ el[b][i] \in Nat /\ el[b][i] % MIN_ALIGN = 0
             /\ own[el[b][i]] = BinId(b, el[b][i])
             /\ FreeBlock(own, st, BinId(b, el[b][i]), b, el[b][i])
             /\ word1[el[b][i]] = el[b][i - 1]
  BY <1>0, <1>1, ListBlock
<1>3. /\ \A b \in Bins : el[b][0] = 0 /\ AddrOf(head[b]) = el[b][n[b]]
      /\ head[k] = el[k][n[k]]
      /\ \A b \in Bins : \A i, m \in 1 .. n[b] : el[b][i] = el[b][m] => i = m
  BY <1>0, <1>1 DEF Lists
<1>4. n[k] \in Nat /\ j \in Nat /\ j >= 1 /\ j <= n[k] /\ j - 1 \in Nat /\ n[k] - 1 \in Nat
  BY <1>0, <1>1
<1>q. PICK q \in Nat : q = n[k] /\ j <= q /\ j \in Nat \ {0} /\ q - 1 \in Nat
  BY <1>0, <1>4
<1>5. /\ el2 \in [Bins -> [Nat -> Int]] /\ n2 \in [Bins -> Nat] /\ n2[k] = n[k] - 1
      /\ \A i \in Nat : el2[k][i] = IF i < j THEN el[k][i] ELSE el[k][i + 1]
      /\ \A b \in Bins \ {k} : n2[b] = n[b] /\ el2[b] = el[b]
  <2>1. PICK f, g : f = Without(el, k, j) /\ g = Shorter(n, k)
    OBVIOUS
  <2>2. /\ f \in [Bins -> [Nat -> Int]] /\ g \in [Bins -> Nat] /\ g[k] = n[k] - 1
        /\ \A i \in Nat : f[k][i] = IF i < j THEN el[k][i] ELSE el[k][i + 1]
        /\ \A b \in Bins \ {k} : g[b] = n[b] /\ f[b] = el[b]
    <3>1. Listed(el, n, k, j)
      BY <1>0
    <3> QED BY <2>1, <3>1, WithoutIs
  <2> QED BY <1>0, <2>1, <2>2
<1>6. el[k][j - 1] \in Nat /\ AddrOf(el[k][j - 1]) = el[k][j - 1]
  <2>1. CASE j = 1
    <3>1. el[k][j - 1] = 0
      BY <1>0, <1>3, <2>1
    <3>2. 0 % MIN_ALIGN = 0
      BY HeapBounds
    <3> QED BY <1>0, <3>1, <3>2 DEF AddrOf
  <2>2. CASE j # 1
    <3>1. j - 1 \in 1 .. n[k]
      BY <1>0, <1>4, <2>2
    <3>2. PICK x : x = el[k][j - 1]
      OBVIOUS
    <3>3. x \in Nat /\ x % MIN_ALIGN = 0
      BY <1>0, <1>2, <3>1, <3>2
    <3>4. AddrOf(x) = x
      BY <1>0, <3>3 DEF AddrOf
    <3> QED BY <1>0, <3>2, <3>3, <3>4
  <2> QED BY <1>0, <2>1, <2>2
<1> HIDE DEF el2, n2
<1>7. head' \in [Bins -> Nat]
  BY <1>0, <1>1, <1>6
<1>8. /\ j # n[k] => j + 1 \in 1 .. n[k] /\ el[k][j + 1] \in Granules
      /\ word1' \in [Granules -> Int]
      /\ j # n[k] => word1'[el[k][j + 1]] = el[k][j - 1]
      /\ j # n[k] => \A a \in Granules : a # el[k][j + 1] => word1'[a] = word1[a]
  <2>1. CASE j = n[k]
    BY <1>0, <1>1, <2>1
  <2>2. CASE j # n[k]
    <3>1. j + 1 \in 1 .. n[k]
      BY <1>0, <1>4, <2>2
    <3>2. el[k][j + 1] \in Granules /\ el[k][j - 1] \in Int
      BY <1>0, <1>2, <1>6, <3>1
    <3> QED BY <1>0, <1>1, <2>2, <3>1, <3>2
  <2> QED BY <1>0, <2>1, <2>2
<1>9. ASSUME NEW b \in Bins, NEW i \in 1 .. n[b], b # k \/ i # j + 1
      PROVE  word1'[el[b][i]] = el[b][i - 1]
  <2>1. word1'[el[b][i]] = word1[el[b][i]]
    <3>1. CASE j = n[k]
      BY <1>0, <1>1, <3>1
    <3>2. CASE j # n[k]
      <4>1. el[b][i] # el[k][j + 1]
        <5>1. CASE b # k
          <6>1. own[el[b][i]] = BinId(b, el[b][i]) /\ own[el[k][j + 1]] = BinId(k, el[k][j + 1])
            BY <1>0, <1>2, <1>8, <3>2
          <6> QED BY <1>0, <5>1, <6>1, IdsDiffer
        <5>2. CASE b = k
          BY <1>0, <1>3, <1>8, <1>9, <3>2, <5>2
        <5> QED BY <1>0, <5>1, <5>2
      <4> QED BY <1>0, <1>2, <1>8, <3>2, <4>1
    <3> QED BY <1>0, <3>1, <3>2
  <2> QED BY <1>0, <1>2, <2>1
<1>10. ASSUME NEW b \in Bins, NEW i \in 1 .. n[b], b # k \/ i # j
       PROVE  FreeBlock(own2, st, BinId(b, el[b][i]), b, el[b][i])'
  <2>1. PICK x, id, size : x = el[b][i] /\ id = BinId(b, x) /\ size = header_size(word0[x])
    OBVIOUS
  <2>2. id # BinId(k, el[k][j])
    <3>1. b = k => x # el[k][j]
      BY <1>0, <1>1, <1>3, <1>10, <2>1
    <3> QED BY <1>0, <2>1, <3>1, IdsDiffer
  <2>3. FreeBlock(own, st, id, b, x)
    BY <1>0, <1>2, <2>1
  <2>4. Held(own, st, id, x, x + size) /\ x \in st
    BY <1>0, <2>1, <2>3 DEF FreeBlock, Block
  <2>5. Held(own2, st, id, x, x + size)
    BY <1>0, <2>2, <2>4 DEF Held
  <2>6. header_size(word0'[x]) = size /\ word0'[x] = word0[x]
    BY <1>0, <1>1, <2>1
  <2>7. FreeBlock(own2, st, id, b, x)'
    BY <1>0, <2>1, <2>3, <2>4, <2>5, <2>6 DEF FreeBlock, Block
  <2> QED BY <1>0, <2>1, <2>7
<1>11. ASSUME NEW b \in Bins
       PROVE  el2[b][0] = 0 /\ AddrOf(head'[b]) = el2[b][n2[b]]
  <2>1. CASE b # k
    BY <1>0, <1>1, <1>3, <1>5, <1>7, <2>1
  <2>2. CASE b = k /\ j = n[k]
    <3>1. el2[k][0] = el[k][0] /\ el2[k][n[k] - 1] = el[k][j - 1]
      <4>1. 0 < j /\ q - 1 < j /\ q = j
        BY <1>0, <1>q, <2>2
      <4> QED BY <1>0, <1>q, <1>5, <4>1
    <3> QED BY <1>0, <1>1, <1>3, <1>5, <1>6, <2>2, <3>1
  <2>3. CASE b = k /\ j # n[k]
    <3>1. el2[k][0] = el[k][0] /\ el2[k][n[k] - 1] = el[k][n[k]]
      <4>1. 0 < j /\ ~(q - 1 < j) /\ (q - 1) + 1 = q
        BY <1>0, <1>q, <2>3
      <4> QED BY <1>0, <1>q, <1>5, <4>1
    <3> QED BY <1>0, <1>1, <1>3, <1>5, <2>3, <3>1
  <2> QED BY <1>0, <2>1, <2>2, <2>3
<1>12. head'[oversize_bin] = el2[oversize_bin][n2[oversize_bin]]
  <2>1. CASE j = n[k]
    <3>1. el2[k][n[k] - 1] = el[k][j - 1]
      BY <1>0, <1>4, <1>5, <2>1
    <3> QED BY <1>0, <1>1, <1>5, <2>1, <3>1
  <2>2. CASE j # n[k]
    <3>1. el2[k][n[k] - 1] = el[k][n[k]]
      <4>1. ~(n[k] - 1 < j) /\ (n[k] - 1) + 1 = n[k]
        BY <1>0, <1>4, <2>2
      <4> QED BY <1>0, <1>4, <1>5, <4>1
    <3> QED BY <1>0, <1>1, <1>3, <1>5, <2>2, <3>1
  <2> QED BY <1>0, <2>1, <2>2
<1>13. ASSUME NEW b \in Bins, NEW i \in 1 .. n2[b]
       PROVE  /\ FreeBlock(own2, st, BinId(b, el2[b][i]), b, el2[b][i])'
              /\ word1'[el2[b][i]] = el2[b][i - 1]
              /\ \A m \in 1 .. n2[b] : el2[b][i] = el2[b][m] => i = m
  <2>1. CASE b # k
    <3>1. n2[b] = n[b] /\ el2[b] = el[b]
      BY <1>0, <1>5, <2>1
    <3> QED BY <1>0, <1>3, <1>9, <1>10, <1>13, <2>1, <3>1
  <2>2. CASE b = k
    <3>1. i \in Nat /\ i >= 1 /\ i <= n[k] - 1
      BY <1>0, <1>4, <1>5, <2>2
    <3>2. PICK m : m = IF i < j THEN i ELSE i + 1
      OBVIOUS
    <3>3. m \in 1 .. n[k] /\ m # j /\ el2[k][i] = el[k][m]
      BY <1>0, <1>4, <1>5, <3>1, <3>2
    <3>4. FreeBlock(own2, st, BinId(k, el[k][m]), k, el[k][m])'
      BY <1>0, <1>10, <3>3
    <3>5. word1'[el[k][m]] = el2[k][i - 1]
      <4>1. i - 1 \in Nat
        BY <1>0, <3>1
      <4>2. CASE m # j + 1
        <5>1. el2[k][i - 1] = el[k][m - 1]
          <6>1. CASE i < j
            BY <1>0, <1>4, <1>5, <3>1, <3>2, <4>1, <6>1
          <6>2. CASE ~(i < j)
            <7>1. ~(i - 1 < j) /\ (i - 1) + 1 = m - 1
              BY <1>0, <1>4, <3>1, <3>2, <4>2, <6>2
            <7> QED BY <1>0, <1>5, <4>1, <7>1
          <6> QED BY <1>0, <6>1, <6>2
        <5> QED BY <1>0, <1>9, <3>3, <4>2, <5>1
      <4>3. CASE m = j + 1
        <5>1. i = j /\ j # n[k] /\ i - 1 < j
          <6>1. i \in Nat /\ i <= q - 1 /\ m = j + 1 /\ m \in 1 .. q
            BY <1>0, <1>q, <3>1, <3>3, <4>3
          <6>2. i = j
            BY <1>q, <3>2, <6>1
          <6> QED BY <1>0, <1>q, <6>1, <6>2
        <5>2. el2[k][i - 1] = el[k][j - 1]
          BY <1>0, <1>5, <4>1, <5>1
        <5> QED BY <1>0, <1>8, <4>3, <5>1, <5>2
      <4> QED BY <1>0, <4>2, <4>3
    <3>6. ASSUME NEW i2 \in 1 .. n2[k], el2[k][i] = el2[k][i2] PROVE i = i2
      <4>1. i2 \in Nat /\ i2 >= 1 /\ i2 <= n[k] - 1
        BY <1>0, <1>4, <1>5
      <4>2. PICK m2 : m2 = IF i2 < j THEN i2 ELSE i2 + 1
        OBVIOUS
      <4>3. m2 \in 1 .. n[k] /\ el2[k][i2] = el[k][m2]
        BY <1>0, <1>4, <1>5, <4>1, <4>2
      <4>4. m = m2
        <5>1. el[k][m] = el[k][m2]
          BY <1>0, <3>3, <3>6, <4>3
        <5>2. \A x, y \in 1 .. n[k] : el[k][x] = el[k][y] => x = y
          BY <1>0, <1>3
        <5> QED BY <1>0, <3>3, <4>3, <5>1, <5>2
      <4> QED BY <1>0, <1>4, <3>1, <3>2, <4>1, <4>2, <4>4
    <3> QED BY <1>0, <2>2, <3>3, <3>4, <3>5, <3>6
  <2> QED BY <1>0, <2>1, <2>2
<1>14. Lists(own2, st, el2, n2)'
  BY <1>0, <1>11, <1>12, <1>13 DEF Lists
<1> QED BY <1>0, <1>1, <1>7, <1>8, <1>14 DEF el2, n2

\* FitTake: the block first fit stopped at is in the hand of the call.
LEMMA HFitTake ==
  ASSUME SafeUse, NEW own, NEW st, NEW el, NEW n, HInv(own, st, el, n), booted, LInv,
         NEW t \in Threads, FitTake(t)
  PROVE  \E own2, el2, n2 : HInv(own2, st, el2, n2)'
<1> USE DEF Goto, control, memory, client, setup
<1>1. /\ pc[t] \in Labels /\ Typed(r[t])
      /\ Hands(own, st, t) /\ Moving(own, st, t) /\ Place(t)
      /\ JobInPlace(t) /\ FixedBinOnly(t)
      /\ pc \in [Threads -> Labels] /\ DOMAIN r = Threads
      /\ head \in [Bins -> Nat]
      /\ word0 \in [Granules -> Int] /\ word1 \in [Granules -> Int]
  BY Here
<1>2. /\ pc[t] = "fit" /\ Asking(t) /\ Serving(t) /\ Critical(t) /\ ~Carving(t)
      /\ r[t].job = "over" /\ r[t].iter = 0 /\ r[t].cur # 0
  <2>1. pc[t] = "fit" /\ Critical(t) /\ ~Carving(t) /\ r[t].job = "over" /\ r[t].cur # 0
    BY <1>1 DEF FitTake, Critical, Carving, Pushing, JobInPlace
  <2>2. Asking(t)
    BY <1>1, <2>1 DEF Place, AskingAt
  <2> QED BY <2>1, <2>2 DEF Asking
<1>3. PICK k : k = oversize_bin
  OBVIOUS
<1>4. /\ k \in Bins
      /\ Types(own, st, el, n) /\ Lists(own, st, el, n) /\ LiveSlices(own, st) /\ Room(own, st)
      /\ n \in [Bins -> Nat] /\ el \in [Bins -> [Nat -> Int]]
      /\ live \subseteq SliceSet /\ st \subseteq Granules \ {0}
  BY <1>3, OversizeIsABin DEF HInv, Types
<1>5. PICK j \in 0 .. n[k] :
        /\ r[t].cur = el[k][j]
        /\ r[t].prev = IF j = n[k] THEN 0 ELSE el[k][j + 1]
  <2>1. Fitting(el, n, t)
    BY Here
  <2> QED BY <1>2, <1>3, <2>1 DEF Fitting
<1>6. j \in 1 .. n[k] /\ n[k] \in Nat
  <2>1. j # 0
    BY <1>2, <1>4, <1>5 DEF Lists
  <2>2. n[k] \in Nat
    BY <1>4
  <2> QED BY <1>5, <2>1, <2>2
<1>7. PICK c, p, d, size : /\ c = el[k][j] /\ p = el[k][j + 1] /\ d = el[k][j - 1]
                           /\ size = header_size(word0[c])
  OBVIOUS
<1>8. /\ c \in Granules /\ c \in Nat \ {0} /\ c \in st /\ own[c] = BinId(k, c)
      /\ FreeBlock(own, st, BinId(k, c), k, c) /\ word1[c] = d
  BY <1>4, <1>6, <1>7, ListBlock
<1>9. /\ At(word1, c) = d /\ At(word0, c) = word0[c]
      /\ Block(own, st, BinId(k, c), c, c + size) /\ Valid(c, size) /\ size \in Nat
  BY <1>7, <1>8 DEF At, FreeBlock, Valid
<1>10. j # n[k] => /\ j + 1 \in 1 .. n[k] /\ p # 0 /\ p \in Granules /\ own[p] = BinId(k, p)
  <2>1. j # n[k] => j + 1 \in 1 .. n[k]
    <3>1. PICK q \in Nat : q = n[k]
      BY <1>6
    <3> QED BY <1>6, <3>1
  <2> QED BY <1>4, <1>7, <2>1, ListBlock
<1>12. /\ pc'[t] = "split" /\ pc' = [pc EXCEPT ![t] = pc'[t]] /\ pc'[t] \in Labels
       /\ Typed(r'[t])
       /\ r'[t].op = r[t].op /\ r'[t].job = "fit" /\ r'[t].size = r[t].size
       /\ r'[t].src = r[t].src /\ r'[t].dst = r[t].dst
       /\ r'[t].blk = c /\ r'[t].top = c + size /\ r'[t].lo = r[t].lo /\ r'[t].end = r[t].end
       /\ r'[t].prev = 0 /\ r'[t].iter = r[t].iter
  <2>1. PICK top : top = c + size
    OBVIOUS
  <2>2. top \in Int /\ c \in Int
    BY <1>8, <1>9, <2>1
  <2>3. r' = [r EXCEPT ![t].blk = c, ![t].top = top, ![t].prev = 0, ![t].cur = 0, ![t].job = "fit"]
    BY <1>5, <1>7, <1>9, <2>1, SMTT(60) DEF FitTake
  <2> QED BY <1>1, <2>1, <2>2, <2>3, Fields, SMTT(60) DEF FitTake, Typed, Jobs, Labels
<1>13. /\ bump' = bump /\ live' = live /\ word0' = word0 /\ ~Carving(t)'
       /\ Target(t) <= size
  BY <1>5, <1>7, <1>9, <1>12, RequestOk DEF FitTake, Carving, Pushing
<1> DEFINE T == {BinId(k, c), BinId(k, p)}
           own2 == Rename(own, BinId(k, c), BlockId(t))
           el2 == Without(el, k, j)
           n2 == Shorter(n, k)
<1>14. \A a \in Granules : own[a] # BinId(k, c) => own2[a] = own[a]
  BY RenameFacts
<1>15. Block(own2, st, BlockId(t), c, c + size)
  BY <1>9, RenameFacts
<1> HIDE DEF own2
<1>11. Unlinked(own, own2, st, el, n, k, j)
  <2>1. r[t].prev = 0 <=> j = n[k]
    BY <1>5, <1>7, <1>10
  <2>2. /\ IF r[t].prev = 0
           THEN head' = [head EXCEPT ![k] = d] /\ word1' = word1
           ELSE word1' = [word1 EXCEPT ![r[t].prev] = d] /\ head' = head
        /\ word0' = word0
    BY <1>3, <1>5, <1>7, <1>9 DEF FitTake
  <2> HIDE DEF own2
  <2> QED BY <1>1, <1>14, <1>3, <1>4, <1>5, <1>6, <1>7, <2>1, <2>2 DEF Unlinked, Listed
<1>16. /\ Lists(own2, st, el2, n2)'
       /\ head' \in [Bins -> Nat] /\ word1' \in [Granules -> Int]
       /\ j # n[k] => \A a \in Granules : a # p => word1'[a] = word1[a]
       /\ j = n[k] => word1' = word1
  BY <1>7, <1>11, ListCuts
<1>17. Frame(T, own, st, own2, st)
  <2>1. ASSUME NEW a \in Granules, own[a] \notin T
        PROVE  own2[a] = own[a] /\ word1'[a] = word1[a]
    <3>1. own[a] # BinId(k, c) /\ (j # n[k] => a # p)
      BY <1>10, <2>1
    <3> QED BY <1>14, <1>16, <3>1
  <2> QED BY <1>13, <2>1 DEF Frame
<1>18. /\ BumpId \notin T /\ (\A x : LiveId(x) \notin T)
       /\ \A u \in Threads \ {t} : MyIds(u) \cap T = {}
       /\ SrcId(t) \notin T /\ DstId(t) \notin T
  BY IdsDiffer DEF MyIds
<1>19. n2 \in [Bins -> Nat] /\ el2 \in [Bins -> [Nat -> Int]]
  <2>1. Listed(el, n, k, j)
    BY <1>4, <1>6 DEF Listed
  <2> QED BY <2>1, WithoutIs
<1> HIDE DEF T, el2, n2
<1>20. LiveSlices(own2, st)'
  BY <1>4, <1>13, <1>17, <1>18, KeepLive
<1>21. Room(own2, st)'
  <2>1. Alone(t)
    BY StepAlone DEF LInv, Step
  <2> QED BY <1>2, <1>4, <1>13, <1>17, <1>18, <2>1, KeepRoom
<1>22. Hands(own2, st, t)'
  <2>1. HoldsSrc(t)' => HoldsSrc(t)
    BY <1>2, <1>12 DEF HoldsSrc
  <2>2. (HoldsSrc(t) => SliceHeld(own2, st, SrcId(t), r[t].src))'
    BY <1>1, <1>12, <1>17, <1>18, <2>1, KeepHands
  <2>3. (IF r[t].dst.ptr = 0 THEN r[t].dst = NullSlice ELSE SliceHeld(own2, st, DstId(t), r[t].dst))'
    BY <1>1, <1>12, <1>17, <1>18, KeepHands
  <2>4. (IF Carving(t) THEN r[t].lo < r[t].end => Held(own2, st, GapId(t), r[t].lo, r[t].end)
                       ELSE r[t].lo = 0 /\ r[t].end = 0)'
    BY <1>1, <1>2, <1>12, <1>13 DEF Hands
  <2>5. r'[t].blk # 0 => Block(own2, st, BlockId(t), r'[t].blk, r'[t].top)
    BY <1>12, <1>15
  <2> QED BY <2>2, <2>3, <2>4, <2>5 DEF Hands
<1>23. Moving(own2, st, t)'
  BY <1>12 DEF Moving, Pushing
<1>24. Place(t)'
  <2>1. InHand(t)' = size /\ Target(t)' = Target(t)
    <3>1. (c + size) - c = size
      BY <1>8, <1>9
    <3> QED BY <1>12, <3>1 DEF InHand, Target
  <2>2. SplitBlock(t)'
    <3>1. /\ r[t].op \in {"alloc", "realloc"} /\ r[t].size \in Requests /\ r[t].dst = NullSlice
      BY <1>2 DEF Serving
    <3>2. InHand(t)' >= Target(t)'
      <4>1. Target(t) \in Nat
        BY <3>1, RequestOk DEF Target
      <4> QED BY <1>9, <1>13, <2>1, <4>1
    <3>3. c % align_of_bin(bin_index(size)) = 0
      BY <1>9 DEF Valid
    <3> QED BY <1>8, <1>9, <1>12, <2>1, <3>1, <3>2, <3>3 DEF SplitBlock, InPlace
  <2>3. (r'[t].dst.ptr # 0 => r'[t].size <= r'[t].dst.len)
        /\ (r'[t].op = "realloc" => r'[t].src.ptr # 0) /\ (r'[t].op = "alloc" => r'[t].src.ptr = 0)
    BY <1>1, <1>2, <1>12 DEF Place
  <2>4. r'[t].op # "free"
    BY <2>2 DEF SplitBlock
  <2> QED BY <1>12, <2>2, <2>3, <2>4 DEF Place, Initialising, AskingAt, Carving, Pushing
<1>25. Fitting(el2, n2, t)' /\ Failing(el2, n2, t)'
  BY <1>12 DEF Fitting, Failing
<1>26. Moved(T, own, st, el, n, own2, st, el2, n2, t)
  BY <1>1, <1>2, <1>4, <1>12, <1>13, <1>16, <1>17, <1>18, <1>19 DEF Moved
<1>27. HInv(own2, st, el2, n2)'
  BY <1>16, <1>20, <1>21, <1>22, <1>23, <1>24, <1>25, <1>26, Busy DEF Step
<1> QED BY <1>27

-----------------------------------------------------------------------------
(* Setup, and all the steps.                                                *)

-----------------------------------------------------------------------------
(* init, verify, and steps that change nothing.                            *)

\* The heap nobody works on.
LEMMA HStutter ==
  ASSUME NEW own, NEW st, NEW el, NEW n, HInv(own, st, el, n), UNCHANGED vars
  PROVE  HInv(own, st, el, n)'
<1>1. /\ head' = head /\ bump' = bump /\ word0' = word0 /\ word1' = word1 /\ live' = live
      /\ pc' = pc /\ r' = r
  BY DEF vars
<1>2. /\ Types(own, st, el, n) /\ Lists(own, st, el, n) /\ LiveSlices(own, st) /\ Room(own, st)
      /\ \A t \in Threads : Thread(own, st, el, n, t)
  BY DEF HInv
<1> DEFINE T == {}
<1>3. Frame(T, own, st, own, st) /\ \A i : i \notin T
  BY <1>1 DEF Frame
<1> HIDE DEF T
<1>4. Types(own, st, el, n)'
  BY <1>1, <1>2 DEF Types, Typed
<1>5. Lists(own, st, el, n)'
  BY <1>1, <1>2, <1>3, KeepLists
<1>6. LiveSlices(own, st)'
  BY <1>1, <1>2, <1>3, KeepLive
<1>7. Room(own, st)'
  BY <1>1, <1>2 DEF Room, Carving, Pushing
<1>8. ASSUME NEW t \in Threads PROVE Thread(own, st, el, n, t)'
  <2>1. n[oversize_bin] \in Nat
    BY <1>2, OversizeIsABin DEF Types
  <2>2. Fitting(el, n, t) /\ Failing(el, n, t)
    BY <1>2 DEF Thread
  <2>3. Fitting(el, n, t)'
    BY <1>1, <1>2, <1>3, <2>1, <2>2, FrameFit
  <2>4. Failing(el, n, t)'
    BY <1>1, <1>2, <1>3, <2>2, FrameFail
  <2>5. MyIds(t) \cap T = {}
    BY <1>3
  <2> QED BY <1>1, <1>2, <1>3, <2>3, <2>4, <2>5, FrameThread
<1> QED BY <1>4, <1>5, <1>6, <1>7, <1>8 DEF HInv

\* verify reads the two metadata words.
LEMMA HVerify ==
  ASSUME NEW own, NEW st, NEW el, NEW n, HInv(own, st, el, n), booted, LInv,
         NEW t \in Threads, VerifyMagic(t) \/ VerifyPrint(t)
  PROVE  HInv(own, st, el, n)'
<1> USE DEF Goto, control, memory, client, setup
<1>1. /\ pc[t] \in Labels /\ Typed(r[t])
      /\ Hands(own, st, t) /\ Moving(own, st, t) /\ Place(t)
      /\ Fitting(el, n, t) /\ Failing(el, n, t)
      /\ pc \in [Threads -> Labels] /\ DOMAIN r = Threads
  BY Here
<1>2. /\ pc[t] \in {"idle", "verify_print"} /\ pc'[t] \in {"idle", "verify_print"}
      /\ pc' = [pc EXCEPT ![t] = pc'[t]] /\ pc'[t] \in Labels
      /\ head' = head /\ bump' = bump /\ word0' = word0 /\ word1' = word1 /\ live' = live
      /\ r' = r
  BY <1>1 DEF VerifyMagic, VerifyPrint, Tell, Labels
<1>3. Alone(t) /\ DOMAIN pc' = Threads /\ DOMAIN r' = Threads
  BY <1>1, <1>2 DEF Alone
<1>4. r[t] = NoLocals
  BY <1>1, <1>2 DEF Place
<1>5. ~Carving(t) /\ ~Carving(t)'
  BY <1>2 DEF Carving, Pushing
<1>6. Hands(own, st, t)'
  <2>1. ~HoldsSrc(t)'
    BY <1>2, <1>4 DEF HoldsSrc, NoLocals, NullSlice
  <2> QED BY <1>2, <1>4, <1>5, <2>1 DEF Hands, NoLocals, NullSlice
<1>7. Moving(own, st, t)' /\ Fitting(el, n, t)' /\ Failing(el, n, t)'
  BY <1>2 DEF Moving, Pushing, Fitting, Failing
<1>8. Place(t)'
  BY <1>2, <1>4 DEF Place, Initialising, AskingAt, Carving, Pushing, NoLocals, NullSlice
<1>9. Thread(own, st, el, n, t)'
  BY <1>6, <1>7, <1>8 DEF Thread
<1> QED BY <1>1, <1>2, <1>3, <1>5, <1>9, Quiet

\* Nobody works on the heap before init has returned.
LEMMA EarlyIdle ==
  ASSUME SafeUse, Preparing, ~booted, NEW t \in Threads
  PROVE  ~Call(t) /\ ~Step(t)
<1>1. ~Allowed(t)
  BY DEF SafeUse, Allowed
<1>2. ~Call(t)
  BY <1>1 DEF Call, AllocCall, FreeCall, FreeAgain, ReallocCall, MayCall
<1>3. OffHeap(t) \/ Initialising(t)
  BY DEF Preparing
<1>4. ~Step(t)
  BY <1>3 DEF Step, Swap, OffHeap, Initialising, Lock, Unlock, PushLoad, PushStore, PushRetry,
     PopEmpty, PopLoad, PopNext, PopRetry, PushCas, PopCas, Stamp, Got, RefillFixed, CarveGap, Bump,
     FitHead, FitSkip, FitTake, RefillOversize, OverStamp, SplitCarve, SplitDone,
     ReallocKeep, ReallocShrink, ReallocGrow, Copy, FreeLoad, FreeStamp, OverPush, Return
<1> QED BY <1>2, <1>4

\* Every bin is between 0 and the oversized one, the last.
LEMMA BinRange ==
  /\ oversize_bin \in Nat /\ 0 \in Bins
  /\ \A k : k \in Bins <=> k \in Nat /\ k <= oversize_bin
BY GeoConstants, CadAssumption

(* The initial states.                                                      *)
LEMMA InitPreparing == Init => ~booted /\ Preparing
<1> SUFFICES ASSUME Init PROVE ~booted /\ Preparing
  OBVIOUS
<1>1. /\ live = {} /\ DOMAIN r = Threads /\ head = [k \in Bins |-> head[k]]
      /\ word0 \in [Granules -> Int] /\ word1 \in [Granules -> Int]
      /\ pc \in [Threads -> Labels] /\ ~booted
  BY DEF Init, Labels
<1>2. \A t \in Threads : pc[t] = "idle" /\ r[t] = NoLocals /\ NoLocals.iter = 0
  BY DEF Init, NoLocals
<1>3. NoLocals = [NoLocals EXCEPT !.iter = NoLocals.iter]
  BY DEF NoLocals
<1> QED BY <1>1, <1>2, <1>3 DEF Preparing, OffHeap

(* A step of init, but the last, goes on preparing.                         *)
LEMMA PreparingGoesOn ==
  ASSUME SafeUse, LInv, Preparing, ~booted, NEW t \in Threads, SetupStep(t), ~InitLock(t)
  PROVE  ~booted' /\ Preparing'
<1> USE DEF Goto, control, memory, client, setup
<1>1. /\ live = {} /\ pc \in [Threads -> Labels] /\ DOMAIN r = Threads /\ head = [k \in Bins |-> head[k]]
      /\ word0 \in [Granules -> Int] /\ word1 \in [Granules -> Int]
  BY DEF Preparing
<1>2. \A u \in Threads :
       /\ OffHeap(u) \/ Initialising(u)
       /\ r[u] = [NoLocals EXCEPT !.iter = r[u].iter]
       /\ pc[u] # "init_head" => r[u].iter = 0
       /\ pc[u] = "init_head" => r[u].iter \in Bins /\ \A k \in 0 .. r[u].iter - 1 : head[k] = 0
       /\ pc[u] \in {"init_bump", "init_lock"} => \A k \in Bins : head[k] = 0
       /\ pc[u] = "init_lock" => bump = HeapStart
  BY DEF Preparing
<1>3. Alone(t) /\ DOMAIN r' = Threads /\ DOMAIN pc' = Threads
  BY SetupAlone DEF Alone, LInv
<1>4. \A u \in Threads \ {t} : Initialising(t) => OffHeap(u)
  BY DEF LInv, InitAlone
<1>5. CASE InitCall(t) \/ VerifyMagic(t) \/ VerifyPrint(t)
  <2>1. /\ pc'[t] \in {"init_magic", "idle", "verify_print"} /\ pc[t] \in {"idle", "verify_print"}
        /\ pc' \in [Threads -> Labels] /\ r' = r /\ head' = head /\ bump' = bump
        /\ word0' = word0 /\ word1' = word1 /\ live' = live /\ booted' = booted
    BY <1>1, <1>5 DEF InitCall, VerifyMagic, VerifyPrint, Tell, Labels
  <2>2. \A u \in Threads \ {t} : pc'[u] = pc[u]
    BY <1>3 DEF Alone
  <2> QED BY <1>1, <1>2, <2>1, <2>2 DEF Preparing, OffHeap, Initialising
<1>6. CASE InitMagic(t) \/ InitPrint(t)
  <2>1. /\ pc[t] \in {"init_magic", "init_print"} /\ pc'[t] \in {"init_print", "init_head"}
        /\ pc' \in [Threads -> Labels] /\ r' = r /\ head' = head /\ bump' = bump
        /\ word0' = word0 /\ word1' = word1 /\ live' = live /\ booted' = booted
    BY <1>1, <1>6 DEF InitMagic, InitPrint, Labels
  <2>2. \A u \in Threads \ {t} : pc'[u] = pc[u]
    BY <1>3 DEF Alone
  <2>3. r[t].iter = 0 /\ \A k \in 0 .. r[t].iter - 1 : head[k] = 0
    <3>1. r[t].iter = 0
      BY <1>2, <2>1
    <3>2. \A k \in 0 .. 0 - 1 : head[k] = 0
      OBVIOUS
    <3> QED BY <3>1, <3>2
  <2> QED BY <1>1, <1>2, <2>1, <2>2, <2>3, BinRange, SMTT(60) DEF Preparing, OffHeap, Initialising
<1>7. CASE InitHead(t)
  <2>1. pc[t] = "init_head" /\ Initialising(t) /\ live' = live /\ booted' = booted
        /\ word0' = word0 /\ word1' = word1
    BY <1>7 DEF InitHead, Initialising
  <2>2. PICK i : i = r[t].iter
    OBVIOUS
  <2>3. i \in Bins /\ i \in Nat /\ (\A k \in 0 .. i - 1 : head[k] = 0)
        /\ head' = [head EXCEPT ![i] = 0] /\ i <= oversize_bin
    BY <1>2, <1>7, <2>1, <2>2, BinRange DEF InitHead
  <2>4. \A u \in Threads \ {t} : pc'[u] = pc[u] /\ r'[u] = r[u] /\ OffHeap(u)
    BY <1>3, <1>4, <2>1 DEF Alone
  <2>5. \A u \in Threads \ {t} : r'[u].iter = 0
    BY <1>2, <2>4 DEF OffHeap
  <2>6. \A k \in 0 .. i : head'[k] = 0
    <3>1. \A k \in 0 .. i : k \in Bins /\ (k # i => k \in 0 .. i - 1)
      BY <2>3, BinRange
    <3> QED BY <1>1, <2>3, <3>1
  <2>7. head' = [k \in Bins |-> head'[k]]
    BY <1>1, <2>3
  <2>8. CASE i = oversize_bin
    <3>1. r' = [r EXCEPT ![t].iter = 0] /\ pc' = [pc EXCEPT ![t] = "init_bump"]
      BY <1>7, <2>2, <2>8 DEF InitHead
    <3>2. r'[t] = [NoLocals EXCEPT !.iter = r'[t].iter] /\ r'[t].iter = 0
      BY <1>1, <1>2, <3>1 DEF NoLocals
    <3>3. \A k \in Bins : head'[k] = 0
      BY <2>6, <2>8, BinRange
    <3>4. pc' \in [Threads -> Labels] /\ pc'[t] = "init_bump"
      BY <1>1, <3>1 DEF Labels
    <3> QED BY <1>1, <1>2, <1>3, <2>1, <2>4, <2>5, <2>7, <3>2, <3>3, <3>4
            DEF Preparing, OffHeap, Initialising
  <2>9. CASE i # oversize_bin
    <3>1. r' = [r EXCEPT ![t].iter = i + 1] /\ pc' = pc
      BY <1>7, <2>2, <2>9 DEF InitHead
    <3>2. r'[t] = [NoLocals EXCEPT !.iter = r'[t].iter] /\ r'[t].iter = i + 1
      BY <1>1, <1>2, <3>1 DEF NoLocals
    <3>3. i + 1 \in Bins /\ \A k \in 0 .. (i + 1) - 1 : head'[k] = 0
      BY <2>3, <2>6, <2>9, BinRange
    <3> QED BY <1>1, <1>2, <1>3, <2>1, <2>4, <2>5, <2>7, <3>1, <3>2, <3>3
            DEF Preparing, OffHeap, Initialising
  <2> QED BY <2>8, <2>9
<1>8. CASE InitBump(t)
  <2>1. /\ pc[t] = "init_bump" /\ pc'[t] = "init_lock" /\ bump' = HeapStart /\ Initialising(t)
        /\ pc' \in [Threads -> Labels] /\ r' = r /\ head' = head
        /\ word0' = word0 /\ word1' = word1 /\ live' = live /\ booted' = booted
    BY <1>1, <1>8 DEF InitBump, Initialising, Labels
  <2>2. \A u \in Threads \ {t} : pc'[u] = pc[u] /\ OffHeap(u)
    BY <1>3, <1>4, <2>1 DEF Alone
  <2> QED BY <1>1, <1>2, <2>1, <2>2 DEF Preparing, OffHeap, Initialising
<1> QED BY <1>5, <1>6, <1>7, <1>8 DEF SetupStep, Prepare

\* init has prepared the heap: all of it is untouched.
LEMMA HBoots ==
  ASSUME SafeUse, LInv, Preparing, NEW t \in Threads, InitLock(t)
  PROVE  booted' /\ \E own, st, el, n : HInv(own, st, el, n)'
<1> USE DEF Goto, control, memory, client, setup
<1>1. /\ live = {} /\ pc \in [Threads -> Labels] /\ DOMAIN r = Threads /\ head = [k \in Bins |-> head[k]]
      /\ word0 \in [Granules -> Int] /\ word1 \in [Granules -> Int]
  BY DEF Preparing
<1>2. /\ pc[t] = "init_lock" /\ Initialising(t) /\ booted' /\ pc' = [pc EXCEPT ![t] = "idle"]
      /\ head' = head /\ bump' = bump /\ word0' = word0 /\ word1' = word1 /\ live' = live
      /\ r' = r
  BY DEF InitLock, Initialising
<1>3. (\A k \in Bins : head[k] = 0) /\ bump = HeapStart
  BY <1>2 DEF Preparing
<1>4. \A u \in Threads : pc'[u] \in {"idle", "verify_print"}
  BY <1>1, <1>2 DEF LInv, InitAlone, OffHeap
<1>5. \A u \in Threads : r'[u] = NoLocals
  <2>1. ASSUME NEW u \in Threads PROVE r[u] = NoLocals
    <3>1. pc[u] # "init_head"
      BY <1>1, <1>2, <1>4
    <3>2. r[u] = [NoLocals EXCEPT !.iter = 0]
      BY <3>1 DEF Preparing
    <3> QED BY <3>2 DEF NoLocals
  <2> QED BY <1>2, <2>1
<1>6. PICK own, st, el, n :
        /\ own = [a \in Granules |-> BumpId] /\ st = {}
        /\ el = [k \in Bins |-> [i \in Nat |-> 0]] /\ n = [k \in Bins |-> 0]
  OBVIOUS
<1>7. \A k \in Bins : n[k] = 0 /\ el[k][0] = 0
  BY <1>6
<1>8. n \in [Bins -> Nat] /\ el \in [Bins -> [Nat -> Int]]
  BY <1>6
<1>9. AddrOf(0) = 0
  BY HeapBounds DEF AddrOf
<1>10. Types(own, st, el, n)'
  <2>1. \A u \in Threads : Typed(r'[u])
    BY <1>5, Fields DEF Typed, NoLocals, NullSlice, SliceSet, Jobs
  <2>2. pc' \in [Threads -> Labels]
    BY <1>1, <1>2 DEF Labels
  <2>3. head' \in [Bins -> Nat]
    BY <1>1, <1>2, <1>3
  <2>4. DOMAIN r' = Threads
    BY <1>1, <1>2
  <2>5. st \subseteq Granules \ {0} /\ live' \subseteq SliceSet
    BY <1>1, <1>2, <1>6
  <2> QED BY <1>1, <1>2, <1>8, <2>1, <2>2, <2>3, <2>4, <2>5 DEF Types
<1>11. Lists(own, st, el, n)'
  <2>1. \A k \in Bins : 1 .. n[k] = {}
    BY <1>7
  <2> QED BY <1>2, <1>3, <1>7, <1>9, <2>1, OversizeIsABin DEF Lists
<1>12. LiveSlices(own, st)'
  BY <1>1, <1>2 DEF LiveSlices
<1>13. \A u \in Threads : ~Carving(u)'
  BY <1>4 DEF Carving, Pushing
<1>14. Room(own, st)'
  <2>1. bump' \in Nat /\ bump' % MIN_ALIGN = 0 /\ HeapStart <= bump' /\ bump' <= heap_end
    BY <1>2, <1>3, HeapBounds
  <2> QED BY <1>6, <1>13, <2>1 DEF Room
<1>15. ASSUME NEW u \in Threads PROVE Thread(own, st, el, n, u)'
  <2>1. Hands(own, st, u)'
    <3>1. ~HoldsSrc(u)'
      BY <1>5 DEF HoldsSrc, NoLocals, NullSlice
    <3> QED BY <1>5, <1>13, <3>1 DEF Hands, NoLocals, NullSlice
  <2>2. pc'[u] \in {"idle", "verify_print"} /\ r'[u] = NoLocals
    BY <1>4, <1>5
  <2>3. Moving(own, st, u)' /\ Fitting(el, n, u)' /\ Failing(el, n, u)'
    BY <2>2 DEF Moving, Pushing, Fitting, Failing
  <2>4. Place(u)'
    BY <2>2 DEF Place, Initialising, AskingAt, Carving, Pushing, NoLocals, NullSlice
  <2> QED BY <2>1, <2>3, <2>4 DEF Thread
<1>16. HInv(own, st, el, n)'
  BY <1>10, <1>11, <1>12, <1>14, <1>15 DEF HInv
<1> QED BY <1>2, <1>16

-----------------------------------------------------------------------------
(* Every step.                                                             *)

\* What no pop does wrong in this step.
HonestPop(t) == PopCas(t) => r[t].nxt = At(word1, AddrOf(r[t].old))

(* The entry of a call.                                                     *)
LEMMA HCall ==
  ASSUME SafeUse, NEW own, NEW st, NEW el, NEW n, HInv(own, st, el, n), booted, LInv,
         NEW t \in Threads, Call(t)
  PROVE  \E own2, st2, el2, n2 : HInv(own2, st2, el2, n2)'
<1>1. ~FreeAgain(t)
  BY DEF FreeAgain, SafeUse
<1> QED BY <1>1, HAllocCall, HFreeCall, HReallocCall DEF Call

(* A step of a call.                                                        *)
LEMMA HStep ==
  ASSUME SafeUse, NEW own, NEW st, NEW el, NEW n, HInv(own, st, el, n), booted, LInv,
         NEW t \in Threads, Step(t), HonestPop(t)
  PROVE  \E own2, st2, el2, n2 : HInv(own2, st2, el2, n2)'
<1>1. CASE Lock(t) \/ Unlock(t)
  BY <1>1, LockSteps, HUnlock, HUnlockShrunk
<1>2. CASE PushLoad(t) \/ PushStore(t) \/ PushRetry(t) \/ PushCas(t)
  BY <1>2, HPushLoad, HPushStore, HPushRetry, HPushCas
<1>3. CASE PopEmpty(t) \/ PopLoad(t) \/ PopNext(t) \/ PopRetry(t)
  BY <1>3, HPopEmpty, HPopLoad, HPopNext, HPopRetry
<1>4. CASE PopCas(t)
  BY <1>4, HPopCas DEF HonestPop
<1>5. CASE Stamp(t) \/ Got(t) \/ OverStamp(t)
  BY <1>5, HStamp, HGot, HOverStamp
<1>6. CASE RefillFixed(t) \/ RefillOversize(t)
  BY <1>6, HRefillFails, HRefillCarves
<1>7. CASE CarveGap(t) \/ Bump(t)
  BY <1>7, HCarveGap, HBump
<1>8. CASE FitHead(t) \/ FitSkip(t) \/ FitTake(t)
  BY <1>8, HFitHead, HFitSkip, HFitTake
<1>9. CASE SplitCarve(t) \/ SplitDone(t)
  BY <1>9, HSplitCarve, HSplitDone
<1>10. CASE ReallocKeep(t) \/ ReallocShrink(t) \/ ReallocGrow(t) \/ Copy(t)
  BY <1>10, HReallocKeep, HReallocShrink, HReallocGrow, HCopy
<1>11. CASE FreeLoad(t) \/ FreeStamp(t) \/ OverPush(t) \/ Return(t)
  BY <1>11, HFreeLoad, HFreeStamp, HOverPush, HReturn
<1> QED BY <1>1, <1>2, <1>3, <1>4, <1>5, <1>6, <1>7, <1>8, <1>9, <1>10, <1>11 DEF Step, Swap

(* No init runs once init has returned; verify changes nothing of the heap. *)
LEMMA HSetup ==
  ASSUME NEW own, NEW st, NEW el, NEW n, HInv(own, st, el, n), booted, LInv,
         NEW t \in Threads, SetupStep(t)
  PROVE  booted' /\ HInv(own, st, el, n)'
<1>1. ~Initialising(t)
  BY DEF LInv, InitAlone
<1>2. VerifyMagic(t) \/ VerifyPrint(t)
  BY <1>1 DEF SetupStep, InitCall, Prepare, InitMagic, InitPrint, InitHead, InitBump, InitLock,
     Initialising
<1>3. booted'
  BY <1>2 DEF VerifyMagic, VerifyPrint
<1> QED BY <1>2, <1>3, HVerify

\* The invariant is inductive.
LEMMA NextHeap ==
  ASSUME SafeUse, LInv, HeapInv, [Next]_vars,
         UNCHANGED vars \/ \A t \in Threads : HonestPop(t)
  PROVE  HeapInv'
<1>1. CASE UNCHANGED vars
  <2>1. CASE booted
    <3>1. PICK own, st, el, n : HInv(own, st, el, n)
      BY <2>1 DEF HeapInv
    <3>2. HInv(own, st, el, n)' /\ booted'
      BY <1>1, <2>1, <3>1, HStutter DEF vars
    <3> QED BY <3>2 DEF HeapInv
  <2>2. CASE ~booted
    BY <1>1, <2>2 DEF HeapInv, Preparing, vars, OffHeap, Initialising
  <2> QED BY <2>1, <2>2
<1> SUFFICES ASSUME ~UNCHANGED vars PROVE HeapInv'
  BY <1>1
<1>2. ASSUME NEW t \in Threads, SetupStep(t) PROVE HeapInv'
  <2>1. CASE booted
    <3>1. PICK own, st, el, n : HInv(own, st, el, n)
      BY <2>1 DEF HeapInv
    <3>2. booted' /\ HInv(own, st, el, n)'
      BY <1>2, <2>1, <3>1, HSetup
    <3> QED BY <3>2 DEF HeapInv
  <2>2. CASE ~booted /\ ~InitLock(t)
    <3>1. ~booted' /\ Preparing'
      BY <1>2, <2>2, PreparingGoesOn DEF HeapInv
    <3> QED BY <3>1 DEF HeapInv
  <2>3. CASE ~booted /\ InitLock(t)
    <3>1. booted' /\ \E own, st, el, n : HInv(own, st, el, n)'
      BY <1>2, <2>3, HBoots DEF HeapInv
    <3> QED BY <3>1 DEF HeapInv
  <2> QED BY <2>1, <2>2, <2>3
<1>3. ASSUME NEW t \in Threads, Call(t) \/ Step(t) PROVE HeapInv'
  <2>1. booted
    <3>1. ~booted => Preparing
      BY DEF HeapInv
    <3> QED BY <1>3, <3>1, EarlyIdle
  <2>2. booted'
    BY <1>3, <2>1, StepSetup DEF setup
  <2>3. PICK own, st, el, n : HInv(own, st, el, n)
    BY <2>1 DEF HeapInv
  <2>4. \E own2, st2, el2, n2 : HInv(own2, st2, el2, n2)'
    BY <1>3, <2>1, <2>3, HCall, HStep
  <2> QED BY <2>2, <2>4 DEF HeapInv
<1> QED BY <1>1, <1>2, <1>3 DEF Next, SetupStep

(* The inductive invariant of the heap: each granule has one owner, each free *)
(* list is a list of free blocks of its bin, and each call holds the blocks   *)
(* and words its next step uses (allocator.rs, alloc, free and realloc).      *)
THEOREM HeapInvHolds ==
  ASSUME SafeUse
  PROVE  Spec /\ HonestPops => []HeapInv
<1>1. Init => HeapInv
  BY InitPreparing DEF HeapInv
<1>2. LInv /\ HeapInv /\ [Next]_vars
        /\ [\A t \in Threads : PopCas(t) => r[t].nxt = At(word1, AddrOf(r[t].old))]_vars
      => HeapInv'
  <2> SUFFICES ASSUME LInv, HeapInv, [Next]_vars,
                      [\A t \in Threads : PopCas(t) => r[t].nxt = At(word1, AddrOf(r[t].old))]_vars
               PROVE  HeapInv'
    OBVIOUS
  <2>1. UNCHANGED vars \/ \A t \in Threads : HonestPop(t)
    BY DEF HonestPop
  <2> QED BY <2>1, NextHeap
<1> QED BY <1>1, <1>2, LInvHolds, PTL DEF Spec, HonestPops

-----------------------------------------------------------------------------
(* What follows at once.                                                    *)

-----------------------------------------------------------------------------
(* The theorems.                                                           *)

\* What the invariant says once init has returned.
LEMMA Ghosts ==
  ASSUME HeapInv, booted
  PROVE  \E own, st, el, n : HInv(own, st, el, n)
BY DEF HeapInv

\* Every block a caller owns has a header that says in use and its slice's
\* size, a size that is exactly a class or above EXP_CEIL, and its alignment:
\* free can read its bin off the header, and put it there.
THEOREM LiveBlocksAreValid ==
  ASSUME SafeUse
  PROVE  Spec /\ HonestPops => []LiveBlocksValid
<1>1. HeapInv => LiveBlocksValid
  <2> SUFFICES ASSUME HeapInv, booted, NEW s \in live
               PROVE  LET header == At(word0, BlockOf(s))
                      IN /\ ~header_is_free(header)
                         /\ header_size(header) = s.len + MIN_ALIGN
                         /\ is_block_exact(header_size(header))
                         /\ BlockOf(s) % align_of_bin(bin_index(header_size(header))) = 0
    BY DEF LiveBlocksValid
  <2>1. PICK own, st, el, n : HInv(own, st, el, n)
    BY Ghosts
  <2>2. s \in SliceSet /\ SliceHeld(own, st, LiveId(s), s)
    BY <2>1 DEF HInv, Types, LiveSlices
  <2>3. /\ Valid(BlockOf(s), s.len + MIN_ALIGN)
        /\ header_size(At(word0, BlockOf(s))) = s.len + MIN_ALIGN
        /\ ~header_is_free(At(word0, BlockOf(s)))
    BY <2>2, SliceFacts
  <2> QED BY <2>3 DEF Valid
<1> QED BY <1>1, HeapInvHolds, PTL

\* The word pop reads before its compare-and-swap is a block's link word, and
\* never payload: its address was a block's when the head was loaded, blocks
\* only ever appear, and no block starts inside another.
THEOREM SpeculativeReadsAreSafe ==
  ASSUME SafeUse
  PROVE  Spec /\ HonestPops => []SpeculativeReadSafe
<1>1. HeapInv => SpeculativeReadSafe
  <2> SUFFICES ASSUME HeapInv, booted, NEW t \in Threads, pc[t] = "pop_next", NEW s \in live,
                      s.ptr <= AddrOf(r[t].old), AddrOf(r[t].old) < s.ptr + s.len
               PROVE  FALSE
    BY DEF SpeculativeReadSafe
  <2>1. PICK own, st, el, n : HInv(own, st, el, n)
    BY Ghosts
  <2>2. PICK a : a = AddrOf(r[t].old)
    OBVIOUS
  <2>3. a \in st /\ st \subseteq Granules \ {0}
    BY <2>1, <2>2 DEF HInv, Types, Thread, Moving
  <2>4. s \in SliceSet /\ SliceHeld(own, st, LiveId(s), s)
    BY <2>1 DEF HInv, Types, LiveSlices
  <2>5. PICK b, size : b = BlockOf(s) /\ size = s.len + MIN_ALIGN
    OBVIOUS
  <2>6. /\ Block(own, st, LiveId(s), b, b + size) /\ s.ptr = b + MIN_ALIGN
        /\ b \in Nat /\ size \in Nat /\ s.len \in Nat
    BY <2>4, <2>5, SliceFacts
  <2>7. a \in Int /\ b <= a /\ a < b + size /\ a # b
    BY <2>2, <2>3, <2>5, <2>6, HeapBounds
  <2> QED BY <2>3, <2>6, <2>7 DEF Block, Held
<1> QED BY <1>1, HeapInvHolds, PTL

\* What every step but one leaves alone.
LEMMA OnlyBumpBumps ==
  ASSUME booted, LInv, NEW t \in Threads, SetupStep(t) \/ Call(t) \/ (Step(t) /\ ~Bump(t))
  PROVE  bump' = bump
<1> USE DEF Goto, control, memory, client
<1>1. CASE SetupStep(t)
  BY <1>1, SetupWords DEF LInv
<1>2. CASE Call(t)
  BY <1>2 DEF Call, AllocCall, FreeCall, FreeAgain, ReallocCall, MayCall
<1>3. CASE Step(t) /\ ~Bump(t)
  BY <1>3 DEF Step, Swap, Lock, Unlock, PushLoad, PushStore, PushRetry,
     PopEmpty, PopLoad, PopNext, PopRetry, PushCas, PopCas, Stamp, Got, RefillFixed, CarveGap,
     FitHead, FitSkip, FitTake, RefillOversize, OverStamp, SplitCarve, SplitDone,
     ReallocKeep, ReallocShrink, ReallocGrow, Copy, FreeLoad, FreeStamp, OverPush, Return
<1> QED BY <1>1, <1>2, <1>3

\* The bump pointer only moves up, and stays within the heap.
THEOREM BumpOnlyMovesUp ==
  ASSUME SafeUse
  PROVE  Spec /\ HonestPops => BumpMovesUp
<1>1. LInv /\ HeapInv /\ [Next]_vars => [booted => bump <= bump' /\ bump' <= heap_end]_vars
  <2> SUFFICES ASSUME LInv, HeapInv, booted, [Next]_vars
               PROVE  bump <= bump' /\ bump' <= heap_end
    OBVIOUS
  <2>1. PICK own, st, el, n : HInv(own, st, el, n)
    BY Ghosts
  <2>2. bump \in Nat /\ bump <= heap_end
    BY <2>1 DEF HInv, Room
  <2>3. bump' = bump \/ \E t \in Threads : Bump(t)
    BY OnlyBumpBumps DEF vars, Next, SetupStep
  <2>4. CASE bump' = bump
    BY <2>2, <2>4
  <2>5. CASE \E t \in Threads : Bump(t)
    BY <2>1, <2>5, HBump
  <2> QED BY <2>3, <2>4, <2>5
<1> QED BY <1>1, HeapInvHolds, LInvHolds, PTL DEF Spec, BumpMovesUp

-----------------------------------------------------------------------------
(* A list is not longer than MaxList.                                       *)

-----------------------------------------------------------------------------
(* The free lists, read off the links: no list is longer than the walk.    *)

\* The heap starts above the control words.
LEMMA ControlBytes == control_bytes \in Nat
<1> DEFINE x == META_BYTES + (NUM_BINS + 2) * 8
<1>1. x \in Nat /\ x + MIN_ALIGN <= WORD
  BY CadAssumption DEF META_BYTES
<1> HIDE DEF x
<1>2. align_up(x, MIN_ALIGN) \in Nat
  BY <1>1, CadAssumption, GeoConstants, AlignUp
<1> QED BY <1>2 DEF control_bytes, x

\* Numbers at least m apart have different quotients.
LEMMA QuotientsDiffer ==
  ASSUME NEW x \in Int, NEW y \in Int, NEW m \in Nat \ {0}, x + m <= y
  PROVE  x \div m # y \div m
<1>1. PICK p \in Int : p = x \div m
  BY DivMod
<1>2. PICK i \in 0 .. m - 1 : i = x % m
  BY DivMod
<1>3. PICK q \in Int : q = y \div m
  BY DivMod
<1>4. PICK j \in 0 .. m - 1 : j = y % m
  BY DivMod
<1>5. x = m * p + i /\ y = m * q + j
  BY <1>1, <1>2, <1>3, <1>4, DivMod
<1>6. m * p \in Int /\ m * q \in Int
  OBVIOUS
<1>7. p = q => m * p = m * q
  OBVIOUS
<1> QED BY <1>1, <1>3, <1>5, <1>6, <1>7

\* Two blocks of a list are at least the smallest class apart.
LEMMA ListApart ==
  ASSUME NEW own, NEW st, NEW el, NEW n, Lists(own, st, el, n), st \subseteq Granules,
         NEW k \in Bins, NEW i \in 1 .. n[k], NEW j \in 1 .. n[k], el[k][i] < el[k][j]
  PROVE  el[k][i] + LNR_FLOOR <= el[k][j]
<1>1. PICK b : b = el[k][i]
  OBVIOUS
<1>2. PICK c : c = el[k][j]
  OBVIOUS
<1>3. FreeBlock(own, st, BinId(k, b), k, b) /\ c \in st /\ c \in Granules
  BY <1>1, <1>2, ListBlock
<1>4. PICK s : s = header_size(word0[b])
  OBVIOUS
<1>5. Held(own, st, BinId(k, b), b, b + s) /\ s \in Nat /\ s >= LNR_FLOOR
  BY <1>3, <1>4 DEF FreeBlock, Block, Valid
<1>6. c >= b + s
  <2>1. c \in Int /\ b \in Int
    BY <1>3, <1>5, HeapBounds DEF Held
  <2>2. ~(b <= c /\ c < b + s) \/ c = b
    BY <1>3, <1>5 DEF Held
  <2> QED BY <1>1, <1>2, <2>1, <2>2, <1>5
<1>7. c \in Int /\ b \in Int /\ LNR_FLOOR \in Int
  BY <1>3, <1>5, HeapBounds, GeoConstants, CadAssumption DEF Held
<1> QED BY <1>1, <1>2, <1>5, <1>6, <1>7

\* No list is longer than the heap has room for blocks.
LEMMA ListFits ==
  ASSUME NEW own, NEW st, NEW el, NEW n, HInv(own, st, el, n), NEW k \in Bins
  PROVE  n[k] \in Nat /\ n[k] <= MaxList /\ MaxList \in Nat
<1>1. /\ Lists(own, st, el, n) /\ st \subseteq Granules /\ n[k] \in Nat
  BY DEF HInv, Types
<1>2. /\ LNR_FLOOR \in Nat \ {0} /\ HEAP_BASE \in Nat /\ HEAP_SIZE \in Nat
      /\ heap_end = HEAP_BASE + HEAP_SIZE /\ HEAP_BASE <= HeapStart
      /\ heap_end \in Nat /\ HeapStart \in Nat
  <2>1. HEAP_BASE \in Nat /\ HEAP_SIZE \in Nat
    BY CadAssumption
  <2>2. control_bytes \in Nat
    BY ControlBytes
  <2> QED BY <2>1, <2>2, GeoConstants, CadAssumption, HeapBounds DEF heap_end, HeapStart
<1>3. PICK e \in Nat : e = n[k]
  BY <1>1
<1> DEFINE f == [i \in 1 .. e |-> (el[k][i] - HEAP_BASE) \div LNR_FLOOR]
<1>4. ASSUME NEW i \in 1 .. e
      PROVE  /\ el[k][i] \in Nat /\ HEAP_BASE <= el[k][i]
             /\ el[k][i] + LNR_FLOOR <= heap_end
  <2>1. PICK b : b = el[k][i]
    OBVIOUS
  <2>2. PICK s \in Nat : Held(own, st, BinId(k, b), b, b + s) /\ s >= LNR_FLOOR
    BY <1>1, <1>3, <2>1, ListBlock DEF FreeBlock, Block, Valid
  <2>3. b \in Nat /\ HeapStart <= b /\ b + s <= heap_end
    BY <2>2, HeldFacts
  <2> QED BY <1>2, <2>1, <2>2, <2>3
<1>5. MaxList \in Nat
  BY <1>2, DivMod DEF MaxList
<1>6. ASSUME NEW i \in 1 .. e
      PROVE  (el[k][i] - HEAP_BASE) \div LNR_FLOOR \in 0 .. MaxList - 1
  <2>1. PICK x \in Int : x = el[k][i] - HEAP_BASE
    BY <1>2, <1>4
  <2>2. 0 <= x /\ x + LNR_FLOOR <= HEAP_SIZE
    BY <1>2, <1>4, <2>1
  <2>3. PICK p \in Int : p = x \div LNR_FLOOR
    BY <1>2, DivMod
  <2>4. PICK q \in Int : q = HEAP_SIZE \div LNR_FLOOR
    BY <1>2, DivMod
  <2>5. PICK c \in 0 .. LNR_FLOOR - 1 : c = x % LNR_FLOOR
    BY <1>2, DivMod
  <2>6. PICK d \in 0 .. LNR_FLOOR - 1 : d = HEAP_SIZE % LNR_FLOOR
    BY <1>2, DivMod
  <2>7. x = LNR_FLOOR * p + c /\ HEAP_SIZE = LNR_FLOOR * q + d /\ p >= 0
    <3>1. LNR_FLOOR \in Nat \ {0} /\ HEAP_SIZE \in Int
      BY <1>2
    <3>2. x = LNR_FLOOR * p + c /\ (x >= 0 => p >= 0)
      BY <2>3, <2>5, <3>1, DivMod
    <3>3. HEAP_SIZE = LNR_FLOOR * q + d
      BY <2>4, <2>6, <3>1, DivMod
    <3> QED BY <2>2, <3>2, <3>3
  <2>8. p < q
    <3>1. SUFFICES ASSUME q <= p PROVE FALSE
      OBVIOUS
    <3>2. q * LNR_FLOOR <= p * LNR_FLOOR /\ q * LNR_FLOOR \in Int /\ p * LNR_FLOOR \in Int
          /\ q * LNR_FLOOR = LNR_FLOOR * q /\ p * LNR_FLOOR = LNR_FLOOR * p
      BY <1>2, <3>1, Products
    <3>3. LNR_FLOOR \in Int /\ HEAP_SIZE \in Int /\ c \in Int /\ d \in Int /\ 0 <= c /\ d < LNR_FLOOR
      BY <1>2
    <3> QED BY <2>2, <2>7, <3>2, <3>3
  <2> QED BY <2>1, <2>3, <2>4, <2>7, <2>8 DEF MaxList
<1>7. f \in [1 .. e -> 0 .. MaxList - 1]
  BY <1>6
<1>8. ASSUME NEW i \in 1 .. e, NEW j \in 1 .. e, i # j
      PROVE  f[i] # f[j]
  <2>1. PICK x \in Int : x = el[k][i]
    BY <1>4
  <2>2. PICK y \in Int : y = el[k][j]
    BY <1>4
  <2>3. x # y
    BY <1>1, <1>3, <1>8, <2>1, <2>2 DEF Lists
  <2>4. x + LNR_FLOOR <= y \/ y + LNR_FLOOR <= x
    <3>1. x < y \/ y < x
      BY <2>3
    <3>2. x < y => x + LNR_FLOOR <= y
      BY <1>1, <1>3, <2>1, <2>2, ListApart
    <3>3. y < x => y + LNR_FLOOR <= x
      BY <1>1, <1>3, <2>1, <2>2, ListApart
    <3> QED BY <3>1, <3>2, <3>3
  <2>5. PICK v \in Int : v = x - HEAP_BASE
    BY <1>2
  <2>6. PICK w \in Int : w = y - HEAP_BASE
    BY <1>2
  <2>7. v + LNR_FLOOR <= w \/ w + LNR_FLOOR <= v
    BY <1>2, <2>4, <2>5, <2>6
  <2>8. v \div LNR_FLOOR # w \div LNR_FLOOR
    BY <1>2, <2>7, QuotientsDiffer
  <2> QED BY <2>1, <2>2, <2>5, <2>6, <2>8
<1> HIDE DEF f
<1>9. IsFiniteSet(1 .. e) /\ Cardinality(1 .. e) = e
  <2>1. Cardinality(1 .. e) = IF 1 > e THEN 0 ELSE e - 1 + 1
    BY FS_Interval
  <2> QED BY <2>1, FS_Interval
<1>10. IsFiniteSet(0 .. MaxList - 1) /\ Cardinality(0 .. MaxList - 1) = MaxList
  <2>1. PICK m \in Nat : m = MaxList
    BY <1>5
  <2>2. Cardinality(0 .. m - 1) = IF 0 > m - 1 THEN 0 ELSE m - 1 - 0 + 1
    BY FS_Interval
  <2>3. IsFiniteSet(0 .. m - 1)
    BY FS_Interval
  <2> QED BY <2>1, <2>2, <2>3
<1>11. e <= MaxList
  <2>1. ~(MaxList < e)
    BY <1>7, <1>8, <1>9, <1>10, FS_PigeonHole
  <2> QED BY <1>5, <2>1
<1> QED BY <1>3, <1>5, <1>11

-----------------------------------------------------------------------------
(* Walk follows the list.                                                   *)

-----------------------------------------------------------------------------
(* The free lists, read off the links: what the walk finds.                *)

\* The first i + 1 addresses of the list of bin k, and the last 0 at most.
Down(el, n, k, i) ==
  [j \in 1 .. (IF i <= n[k] THEN i ELSE n[k]) + 1 |-> el[k][n[k] + 1 - j]]

\* The steps of the walk, g being those before.
Onwards(s) == IF s[Len(s)] \in Granules \ {0} THEN Append(s, word1[s[Len(s)]]) ELSE s
Following(k, g) ==
  [i \in 0 .. MaxList |->
     IF i = 0 THEN {<<AddrOf(head[k])>>} ELSE {Onwards(s) : s \in g[i - 1]}]

(* The recursive function of Walk, and the CHOOSE that defines it.          *)
LEMMA WalkChooses ==
  ASSUME NEW k
  PROVE  Walk(k) = CHOOSE s \in (CHOOSE g : g = Following(k, g))[MaxList] : TRUE
BY DEF Walk, Following, Onwards

\* A sequence and its length.
LEMMA SeqOf ==
  ASSUME NEW m \in Nat, NEW s, DOMAIN s = 1 .. m, s = [j \in 1 .. m |-> s[j]],
         \A j \in 1 .. m : s[j] \in Int, NEW x \in Int
  PROVE  /\ s \in Seq(Int) /\ Len(s) = m
         /\ Append(s, x) = [j \in 1 .. m + 1 |-> IF j = m + 1 THEN x ELSE s[j]]
<1>1. s \in Seq(Int)
  OBVIOUS
<1>2. Len(s) = m
  BY <1>1
<1>3. Append(s, x) \in Seq(Int) /\ Len(Append(s, x)) = m + 1
      /\ Append(s, x)[m + 1] = x /\ \A j \in 1 .. m : Append(s, x)[j] = s[j]
  BY <1>1, <1>2
<1> QED BY <1>1, <1>2, <1>3

\* Every step of the walk goes one block down, or stays at the end.
LEMMA DownStep ==
  ASSUME NEW own, NEW st, NEW el, NEW n, HInv(own, st, el, n), NEW k \in Bins, NEW i \in Nat
  PROVE  Onwards(Down(el, n, k, i)) = Down(el, n, k, i + 1)
<1>1. /\ Lists(own, st, el, n) /\ n[k] \in Nat /\ el[k] \in [Nat -> Int] /\ el[k][0] = 0
      /\ word1 \in [Granules -> Int]
  BY DEF HInv, Types, Lists
<1>2. PICK e \in Nat : e = n[k]
  BY <1>1
<1>3. PICK f \in [Nat -> Int] : f = el[k]
  BY <1>1
<1>4. PICK s : s = Down(el, n, k, i)
  OBVIOUS
<1>5. CASE i < e
  <2>1. s = [j \in 1 .. i + 1 |-> f[e + 1 - j]]
    BY <1>2, <1>3, <1>4, <1>5 DEF Down
  <2>2. \A j \in 1 .. i + 1 : s[j] = f[e + 1 - j] /\ s[j] \in Int
    BY <1>5, <2>1
  <2>3. Down(el, n, k, i + 1) = [j \in 1 .. i + 2 |-> f[e + 1 - j]]
    BY <1>2, <1>3, <1>5 DEF Down
  <2>4. Len(s) = i + 1
    BY <2>1, <2>2, SeqOf
  <2>5. s[i + 1] = f[e - i] /\ e - i \in 1 .. e
    <3>1. e + 1 - (i + 1) = e - i
      OBVIOUS
    <3> QED BY <1>5, <2>2, <3>1
  <2>6. f[e - i] \in Granules \ {0} /\ word1[f[e - i]] = f[e - i - 1]
    BY <1>1, <1>2, <1>3, <2>5, ListBlock
  <2>7. PICK x \in Int : x = f[e - i - 1]
    <3>1. e - i - 1 \in Nat
      BY <1>5
    <3> QED BY <3>1
  <2>8. Onwards(s) = Append(s, x)
    BY <2>4, <2>5, <2>6, <2>7 DEF Onwards
  <2>9. Append(s, x) = [j \in 1 .. i + 2 |-> IF j = i + 2 THEN x ELSE s[j]]
    <3>1. PICK m \in Nat : m = i + 1
      OBVIOUS
    <3>2. DOMAIN s = 1 .. m /\ s = [j \in 1 .. m |-> s[j]] /\ \A j \in 1 .. m : s[j] \in Int
      BY <2>1, <2>2, <3>1
    <3>3. Append(s, x) = [j \in 1 .. m + 1 |-> IF j = m + 1 THEN x ELSE s[j]]
      BY <2>7, <3>2, SeqOf
    <3>4. m + 1 = i + 2
      BY <3>1
    <3> QED BY <3>3, <3>4
  <2>10. \A j \in 1 .. i + 2 : (IF j = i + 2 THEN x ELSE s[j]) = f[e + 1 - j]
    <3>1. e + 1 - (i + 2) = e - i - 1
      OBVIOUS
    <3> QED BY <2>2, <2>7, <3>1
  <2> QED BY <1>4, <2>3, <2>8, <2>9, <2>10
<1>6. CASE i >= e
  <2>1. s = [j \in 1 .. e + 1 |-> f[e + 1 - j]] /\ Down(el, n, k, i + 1) = s
    BY <1>2, <1>3, <1>4, <1>6 DEF Down
  <2>2. \A j \in 1 .. e + 1 : s[j] = f[e + 1 - j] /\ s[j] \in Int
    BY <2>1
  <2>3. Len(s) = e + 1 /\ s[e + 1] = 0
    <3>1. e + 1 - (e + 1) = 0 /\ e + 1 \in Nat
      OBVIOUS
    <3>2. Len(s) = e + 1
      BY <2>1, <2>2, SeqOf
    <3> QED BY <1>1, <1>3, <2>2, <3>1, <3>2
  <2>4. Onwards(s) = s
    BY <2>3 DEF Onwards
  <2> QED BY <1>4, <2>1, <2>4
<1> QED BY <1>2, <1>5, <1>6

\* The walk comes down the list to the 0 at its end.
LEMMA WalkIs ==
  ASSUME NEW own, NEW st, NEW el, NEW n, HInv(own, st, el, n), NEW k \in Bins
  PROVE  Walk(k) = [j \in 1 .. n[k] + 1 |-> el[k][n[k] + 1 - j]]
<1>1. PICK m \in Nat : m = MaxList
  BY ListFits
<1>2. PICK e \in Nat : e = n[k] /\ e <= m
  BY <1>1, ListFits
<1>3. PICK d : d = [i \in Nat |-> Down(el, n, k, i)]
  OBVIOUS
<1>4. \A i \in Nat : d[i] = Down(el, n, k, i) /\ Onwards(d[i]) = d[i + 1]
  BY <1>3, DownStep
<1>5. PICK h : h = <<AddrOf(head[k])>>
  OBVIOUS
<1>6. d[0] = h
  <2>1. AddrOf(head[k]) = el[k][e]
    BY <1>2 DEF HInv, Lists
  <2>2. d[0] = [j \in 1 .. 1 |-> el[k][e + 1 - j]]
    <3>1. (IF 0 <= n[k] THEN 0 ELSE n[k]) + 1 = 1
      BY <1>2
    <3>2. d[0] = [j \in 1 .. (IF 0 <= n[k] THEN 0 ELSE n[k]) + 1 |-> el[k][n[k] + 1 - j]]
      BY <1>4 DEF Down
    <3> QED BY <1>2, <3>1, <3>2
  <2>3. e + 1 - 1 = e /\ 1 .. 1 = {1}
    OBVIOUS
  <2>4. d[0] = [j \in 1 .. 1 |-> el[k][e]]
    BY <2>2, <2>3
  <2>5. h = [j \in 1 .. 1 |-> el[k][e]]
    BY <1>5, <2>1
  <2> QED BY <2>4, <2>5
<1>7. \A g : Following(k, g) =
        [i \in 0 .. m |-> IF i = 0 THEN {h} ELSE {Onwards(s) : s \in g[i - 1]}]
  BY <1>1, <1>5 DEF Following
<1>8. PICK f : f = [i \in 0 .. m |-> {d[i]}]
  OBVIOUS
<1>9. Following(k, f) = f
  <2>1. ASSUME NEW i \in 0 .. m
        PROVE  (IF i = 0 THEN {h} ELSE {Onwards(s) : s \in f[i - 1]}) = {d[i]}
    <3>1. CASE i = 0
      BY <1>6, <3>1
    <3>2. CASE i # 0
      <4>1. i - 1 \in 0 .. m /\ i - 1 \in Nat /\ i - 1 + 1 = i
        BY <3>2
      <4>2. f[i - 1] = {d[i - 1]} /\ Onwards(d[i - 1]) = d[i]
        BY <1>4, <1>8, <4>1
      <4> QED BY <3>2, <4>2
    <3> QED BY <3>1, <3>2
  <2>2. Following(k, f) =
          [i \in 0 .. m |-> IF i = 0 THEN {h} ELSE {Onwards(s) : s \in f[i - 1]}]
    BY <1>7
  <2> QED BY <1>8, <2>1, <2>2
<1>10. ASSUME NEW g, g = Following(k, g) PROVE g = f
  <2>1. g = [i \in 0 .. m |-> IF i = 0 THEN {h} ELSE {Onwards(s) : s \in g[i - 1]}]
    BY <1>7, <1>10
  <2> DEFINE S == {i \in Nat : i <= m => g[i] = {d[i]}}
  <2>2. 0 \in S
    BY <1>6, <2>1
  <2>3. ASSUME NEW i \in Nat, i \in S PROVE i + 1 \in S
    <3>1. SUFFICES ASSUME i + 1 <= m PROVE g[i + 1] = {d[i + 1]}
      OBVIOUS
    <3>2. i + 1 \in 0 .. m /\ i + 1 # 0 /\ i + 1 - 1 = i /\ g[i] = {d[i]}
      BY <2>3, <3>1
    <3>3. g[i + 1] = {Onwards(s) : s \in g[i]}
      BY <2>1, <3>2
    <3> QED BY <1>4, <3>2, <3>3
  <2>4. Nat \subseteq S
    <3> HIDE DEF S
    <3> QED BY <2>2, <2>3, SetInduction
  <2>5. \A i \in 0 .. m : g[i] = {d[i]}
    BY <2>4
  <2> QED BY <1>8, <2>1, <2>5
<1>11. (CHOOSE g : g = Following(k, g)) = f
  BY <1>9, <1>10
<1>12. Walk(k) = d[m]
  <2>1. f[m] = {d[m]}
    BY <1>8
  <2>2. Walk(k) = CHOOSE s \in f[m] : TRUE
    BY <1>1, <1>11, WalkChooses
  <2> QED BY <2>1, <2>2
<1>13. d[m] = [j \in 1 .. n[k] + 1 |-> el[k][n[k] + 1 - j]]
  <2>1. (IF m <= n[k] THEN m ELSE n[k]) + 1 = n[k] + 1
    BY <1>2
  <2>2. d[m] = [j \in 1 .. (IF m <= n[k] THEN m ELSE n[k]) + 1 |-> el[k][n[k] + 1 - j]]
    BY <1>4 DEF Down
  <2> QED BY <2>1, <2>2
<1> QED BY <1>12, <1>13

\* The elements of a list.
LEMMA Entries ==
  ASSUME NEW w, NEW b
  PROVE  b \in UNION {{s[i] : i \in DOMAIN s} : s \in {w}} <=> \E i \in DOMAIN w : b = w[i]
OBVIOUS

(* The blocks a walk of the list meets.                                     *)
LEMMA FreeEntries ==
  ASSUME NEW k, NEW b
  PROVE  b \in FreeSet(k) <=> b # 0 /\ \E i \in DOMAIN Walk(k) : b = Walk(k)[i]
<1>1. PICK w : w = Walk(k)
  OBVIOUS
<1>2. FreeSet(k) = (UNION {{s[i] : i \in DOMAIN s} : s \in {w}}) \ {0}
  BY <1>1, Zenon DEF FreeSet
<1>3. b \in FreeSet(k) <=> b \in UNION {{s[i] : i \in DOMAIN s} : s \in {w}} /\ b # 0
  BY <1>2, Zenon
<1> QED BY <1>1, <1>3, Entries, Zenon

\* The blocks of a list.
LEMMA FreeSetIs ==
  ASSUME NEW own, NEW st, NEW el, NEW n, HInv(own, st, el, n), NEW k \in Bins
  PROVE  /\ \A b : b \in FreeSet(k) <=> \E i \in 1 .. n[k] : b = el[k][i]
         /\ Walk(k)[Len(Walk(k))] = 0
<1>1. PICK e \in Nat : e = n[k]
  BY ListFits
<1>2. PICK w : w = Walk(k)
  OBVIOUS
<1>3. w = [j \in 1 .. e + 1 |-> el[k][e + 1 - j]]
  BY <1>1, <1>2, WalkIs
<1>4. el[k][0] = 0 /\ el[k] \in [Nat -> Int]
  BY DEF HInv, Types, Lists
<1>5. \A j \in 1 .. e + 1 : w[j] = el[k][e + 1 - j] /\ w[j] \in Int
  BY <1>3, <1>4
<1>6. w[Len(w)] = 0
  <2>1. e + 1 \in Nat /\ e + 1 \in 1 .. e + 1 /\ e + 1 - (e + 1) = 0
    OBVIOUS
  <2>2. Len(w) = e + 1
    BY <1>3, <1>5, <2>1, SeqOf
  <2> QED BY <1>4, <1>5, <2>1, <2>2
<1>7. \A b : b \in FreeSet(k) <=> b # 0 /\ \E i \in 1 .. e + 1 : b = w[i]
  <2>1. DOMAIN w = 1 .. e + 1
    BY <1>3
  <2> QED BY <1>2, <2>1, FreeEntries
<1>8. \A i \in 1 .. e : el[k][i] # 0
  BY <1>1, ListBlock DEF HInv
<1>9. ASSUME NEW b PROVE b \in FreeSet(k) <=> \E i \in 1 .. e : b = el[k][i]
  <2>1. ASSUME b \in FreeSet(k) PROVE \E i \in 1 .. e : b = el[k][i]
    <3>1. PICK j \in 1 .. e + 1 : b = w[j] /\ b # 0
      BY <1>7, <2>1
    <3>2. e + 1 - j \in 0 .. e /\ b = el[k][e + 1 - j]
      BY <1>5, <3>1
    <3>3. e + 1 - j # 0
      BY <1>4, <3>1, <3>2
    <3>4. e + 1 - j \in 1 .. e
      BY <3>2, <3>3
    <3> QED BY <3>2, <3>4
  <2>2. ASSUME NEW i \in 1 .. e, b = el[k][i] PROVE b \in FreeSet(k)
    <3>1. e + 1 - i \in 1 .. e + 1 /\ e + 1 - (e + 1 - i) = i
      OBVIOUS
    <3>2. w[e + 1 - i] = b /\ b # 0
      BY <1>5, <1>8, <2>2, <3>1
    <3> QED BY <1>7, <3>1, <3>2
  <2> QED BY <2>1, <2>2
<1> QED BY <1>1, <1>2, <1>6, <1>9

-----------------------------------------------------------------------------
(* The free lists, and failed requests.                                     *)

\* A block of the list of bin k, seen from the shared words.
LEMMA FreeBlockFacts ==
  ASSUME NEW own, NEW st, NEW el, NEW n, HInv(own, st, el, n), NEW k \in Bins, NEW b \in FreeSet(k)
  PROVE  LET size == header_size(At(word0, b))
         IN /\ Block(own, st, BinId(k, b), b, b + size) /\ Valid(b, size) /\ bin_index(size) = k
            /\ header_is_free(At(word0, b)) /\ At(word0, b) = word0[b]
            /\ b \in Nat \ {0} /\ size \in Nat
<1>1. PICK i \in 1 .. n[k] : b = el[k][i]
  BY FreeSetIs
<1>2. FreeBlock(own, st, BinId(k, b), k, b) /\ b \in Granules /\ b \in Nat \ {0}
  BY <1>1, ListBlock DEF HInv
<1>3. At(word0, b) = word0[b]
  BY <1>2 DEF At
<1>4. PICK s : s = header_size(word0[b])
  OBVIOUS
<1>5. Block(own, st, BinId(k, b), b, b + s) /\ Valid(b, s) /\ bin_index(s) = k
      /\ word0[b] = pack(s, FREE)
  BY <1>2, <1>4 DEF FreeBlock
<1>6. s \in Nat /\ s % 16 = 0
  BY <1>2, <1>5, ValidFacts, CadAssumption
<1>7. header_is_free(word0[b])
  BY <1>5, <1>6, HeaderFacts
<1> QED BY <1>2, <1>3, <1>4, <1>5, <1>6, <1>7

\* Every block on a free list is one that alloc can take: marked free, of
\* exactly the class of its bin or above EXP_CEIL, aligned for that class; and
\* every list ends.
THEOREM FreeListsAreValid ==
  ASSUME SafeUse
  PROVE  Spec /\ HonestPops => []FreeListsValid
<1>1. HeapInv => FreeListsValid
  <2> SUFFICES ASSUME HeapInv, booted, NEW k \in Bins
               PROVE  /\ \A b \in FreeSet(k) :
                           /\ header_is_free(At(word0, b))
                           /\ b % align_of_bin(k) = 0
                           /\ IF k = oversize_bin THEN header_size(At(word0, b)) > EXP_CEIL
                                                  ELSE header_size(At(word0, b)) = bin_class(k)
                      /\ Walk(k)[Len(Walk(k))] = 0
    BY DEF FreeListsValid
  <2>1. PICK own, st, el, n : HInv(own, st, el, n)
    BY Ghosts
  <2>2. ASSUME NEW b \in FreeSet(k)
        PROVE  /\ header_is_free(At(word0, b))
               /\ b % align_of_bin(k) = 0
               /\ IF k = oversize_bin THEN header_size(At(word0, b)) > EXP_CEIL
                                      ELSE header_size(At(word0, b)) = bin_class(k)
    <3>1. PICK s : s = header_size(At(word0, b))
      OBVIOUS
    <3>2. Valid(b, s) /\ bin_index(s) = k /\ header_is_free(At(word0, b)) /\ b \in Nat
      BY <2>1, <3>1, FreeBlockFacts
    <3> QED BY <3>1, <3>2, ValidFacts, CadAssumption
  <2> QED BY <2>1, <2>2, FreeSetIs
<1> QED BY <1>1, HeapInvHolds, PTL

\* A request fails under the lock only when there is no room for it above the
\* bump pointer and, for an oversized one, no block of the oversized list is
\* large enough.
THEOREM FailuresAreJustified ==
  ASSUME SafeUse
  PROVE  Spec /\ HonestPops => []FailureJustified
<1>1. HeapInv => FailureJustified
  <2> SUFFICES ASSUME HeapInv, NEW t \in Threads,
                      pc[t] = "unlock", r[t].blk = 0, r[t].job \in {"slow", "over"}
               PROVE  LET align == IF r[t].job = "over" THEN EXP_CEIL ELSE align_of_bin(r[t].bin)
                      IN /\ align_up(bump, align) + Target(t) > heap_end
                         /\ r[t].job = "over" =>
                              \A b \in FreeSet(oversize_bin) :
                                 header_size(At(word0, b)) < Target(t)
    BY DEF FailureJustified
  <2>1. booted
    <3>1. ~booted => OffHeap(t) \/ Initialising(t)
      BY DEF HeapInv, Preparing
    <3> QED BY <3>1 DEF OffHeap, Initialising
  <2>2. PICK own, st, el, n : HInv(own, st, el, n)
    BY <2>1, Ghosts
  <2>3. Failing(el, n, t)
    BY <2>2 DEF HInv, Thread
  <2>4. ASSUME r[t].job = "over", NEW b \in FreeSet(oversize_bin)
        PROVE  header_size(At(word0, b)) < Target(t)
    <3>1. PICK i \in 1 .. n[oversize_bin] : b = el[oversize_bin][i]
      BY <2>2, FreeSetIs, OversizeIsABin
    <3>2. header_size(word0[b]) < Target(t)
      BY <2>3, <2>4, <3>1 DEF Failing
    <3>3. At(word0, b) = word0[b]
      BY <2>2, <2>4, FreeBlockFacts, OversizeIsABin
    <3> QED BY <3>2, <3>3
  <2> QED BY <2>3, <2>4 DEF Failing
<1> QED BY <1>1, HeapInvHolds, PTL

-----------------------------------------------------------------------------
(* No two spans overlap.                                                    *)

-----------------------------------------------------------------------------
(* Every span of the heap is a region its owner holds.                     *)

\* Which owner a span is of.
SpanOfCall(s, id, t) ==
  \/ id = BlockId(t) /\ r[t].blk # 0 /\ s = Span(<<"block", t>>, r[t].blk, r[t].top)
  \/ id = GapId(t) /\ r[t].lo < r[t].end /\ s = Span(<<"gap", t>>, r[t].lo, r[t].end)
  \/ id = PieceId(t) /\ Pushing(t) /\ r[t].job # "free"
       /\ s = Span(<<"piece", t>>, Piece(t), Piece(t) + header_size(At(word0, Piece(t))))
  \/ id = SrcId(t) /\ HoldsSrc(t) /\ s = SliceSpan(<<"src", t>>, r[t].src)
  \/ id = DstId(t) /\ r[t].dst.ptr # 0 /\ s = SliceSpan(<<"dst", t>>, r[t].dst)

SpanOf(s, id) ==
  \/ \E k \in Bins : \E b \in FreeSet(k) :
       id = BinId(k, b) /\ s = Span(<<"bin", k>>, b, b + header_size(At(word0, b)))
  \/ \E x \in live : id = LiveId(x) /\ s = SliceSpan(<<"live", 0>>, x)
  \/ \E t \in Threads : SpanOfCall(s, id, t)
  \/ id = BumpId /\ s \in Untouched

(* Every span has an owner.                                                 *)
LEMMA SpanHasOwner ==
  ASSUME NEW s \in Spans
  PROVE  \E id : SpanOf(s, id)
<1>1. CASE s \in FreeSpans
  BY <1>1 DEF FreeSpans, SpanOf
<1>2. CASE s \in LiveSpans
  BY <1>2 DEF LiveSpans, SpanOf
<1>3. CASE s \in CallSpans
  <2>1. PICK t \in Threads : s \in InCall(t)
    BY <1>3 DEF CallSpans
  <2>2. \E id : SpanOfCall(s, id, t)
    BY <2>1 DEF InCall, SpanOfCall
  <2> QED BY <2>2 DEF SpanOf
<1>4. CASE s \in Untouched
  BY <1>4 DEF SpanOf
<1> QED BY <1>1, <1>2, <1>3, <1>4 DEF Spans

\* Nobody owns two spans.
LEMMA OneSpanEach ==
  ASSUME NEW s, NEW u, NEW id, SpanOf(s, id), SpanOf(u, id)
  PROVE  s = u
<1>1. CASE \E k \in Bins : \E b \in FreeSet(k) :
             id = BinId(k, b) /\ s = Span(<<"bin", k>>, b, b + header_size(At(word0, b)))
  <2>1. PICK k \in Bins : \E b \in FreeSet(k) :
             id = BinId(k, b) /\ s = Span(<<"bin", k>>, b, b + header_size(At(word0, b)))
    BY <1>1
  <2>2. PICK b : id = BinId(k, b) /\ s = Span(<<"bin", k>>, b, b + header_size(At(word0, b)))
    BY <2>1
  <2>3. /\ \A x : id # LiveId(x)
        /\ \A t : id # BlockId(t) /\ id # GapId(t) /\ id # PieceId(t) /\ id # SrcId(t) /\ id # DstId(t)
        /\ id # BumpId
        /\ \A j, c : id = BinId(j, c) => j = k /\ c = b
    BY <2>2 DEF BinId, LiveId, BlockId, GapId, PieceId, SrcId, DstId, BumpId
  <2>4. \E j \in Bins : \E c \in FreeSet(j) :
           id = BinId(j, c) /\ u = Span(<<"bin", j>>, c, c + header_size(At(word0, c)))
    BY <2>3 DEF SpanOf, SpanOfCall
  <2>5. PICK j, c : id = BinId(j, c) /\ u = Span(<<"bin", j>>, c, c + header_size(At(word0, c)))
    BY <2>4
  <2>6. j = k /\ c = b
    BY <2>3, <2>5
  <2> QED BY <2>2, <2>5, <2>6
<1>2. CASE \E x \in live : id = LiveId(x) /\ s = SliceSpan(<<"live", 0>>, x)
  <2>1. PICK x \in live : id = LiveId(x) /\ s = SliceSpan(<<"live", 0>>, x)
    BY <1>2
  <2>2. /\ \A j, c : id # BinId(j, c)
        /\ \A t : id # BlockId(t) /\ id # GapId(t) /\ id # PieceId(t) /\ id # SrcId(t) /\ id # DstId(t)
        /\ id # BumpId
        /\ \A y : id = LiveId(y) => y = x
    BY <2>1 DEF BinId, LiveId, BlockId, GapId, PieceId, SrcId, DstId, BumpId
  <2> QED BY <2>1, <2>2 DEF SpanOf, SpanOfCall
<1>3. CASE \E t \in Threads : SpanOfCall(s, id, t)
  <2>1. PICK t \in Threads : SpanOfCall(s, id, t)
    BY <1>3
  <2>2. /\ \A j, c : id # BinId(j, c)
        /\ \A x : id # LiveId(x)
        /\ id # BumpId
        /\ \A v : id \in {BlockId(v), GapId(v), PieceId(v), SrcId(v), DstId(v)} => v = t
    BY <2>1 DEF SpanOfCall, BinId, LiveId, BlockId, GapId, PieceId, SrcId, DstId, BumpId
  <2>3. SpanOfCall(u, id, t)
    <3>1. PICK v \in Threads : SpanOfCall(u, id, v)
      BY <2>2 DEF SpanOf
    <3>2. v = t
      BY <2>2, <3>1 DEF SpanOfCall
    <3> QED BY <3>1, <3>2
  <2>4. /\ BlockId(t) # GapId(t) /\ BlockId(t) # PieceId(t) /\ BlockId(t) # SrcId(t)
        /\ BlockId(t) # DstId(t) /\ GapId(t) # PieceId(t) /\ GapId(t) # SrcId(t)
        /\ GapId(t) # DstId(t) /\ PieceId(t) # SrcId(t) /\ PieceId(t) # DstId(t)
        /\ SrcId(t) # DstId(t)
    BY IdsDiffer
  <2> QED BY <2>1, <2>3, <2>4 DEF SpanOfCall
<1>4. CASE id = BumpId /\ s \in Untouched
  <2>1. /\ \A j, c : id # BinId(j, c)
        /\ \A x : id # LiveId(x)
        /\ \A t : id # BlockId(t) /\ id # GapId(t) /\ id # PieceId(t) /\ id # SrcId(t) /\ id # DstId(t)
    BY <1>4 DEF BinId, LiveId, BlockId, GapId, PieceId, SrcId, DstId, BumpId
  <2>2. u \in Untouched
    BY <2>1 DEF SpanOf, SpanOfCall
  <2> QED BY <1>4, <2>2 DEF Untouched
<1> QED BY <1>1, <1>2, <1>3, <1>4 DEF SpanOf

\* The region above the bump pointer.
LEMMA UntouchedHeld ==
  ASSUME NEW own, NEW st, NEW el, NEW n, HInv(own, st, el, n), booted, LInv, NEW s \in Untouched
  PROVE  Held(own, st, BumpId, s.lo, s.hi)
<1>1. /\ bump \in Nat /\ bump % MIN_ALIGN = 0 /\ HeapStart <= bump /\ bump <= heap_end
      /\ \A t \in Threads : Carving(t) => bump <= r[t].lo
      /\ \A a \in Granules :
           bump <= a /\ (\A t \in Threads : Carving(t) => r[t].top <= a)
             => own[a] = BumpId /\ a \notin st
  BY DEF HInv, Room
<1>2. \A t, u \in Threads : Carving(t) /\ Carving(u) => t = u
  <2>1. \A t \in Threads : Carving(t) => Critical(t)
    BY Here DEF Carving, Critical, Pushing
  <2> QED BY <2>1 DEF LInv, LockExcludes
<1>3. PICK lo : /\ s = Span(<<"bump", 0>>, lo, heap_end) /\ lo < heap_end
                /\ \/ lo = bump /\ \A t \in Threads : ~Carving(t)
                   \/ \E t \in Threads : Carving(t) /\ lo = r[t].top
  BY DEF Untouched
<1>4. lo \in Int /\ lo % MIN_ALIGN = 0 /\ bump <= lo /\ \A t \in Threads : Carving(t) => r[t].top = lo
  <2>1. CASE lo = bump /\ \A t \in Threads : ~Carving(t)
    BY <1>1, <2>1
  <2>2. CASE \E t \in Threads : Carving(t) /\ lo = r[t].top
    <3>1. PICK t \in Threads : Carving(t) /\ lo = r[t].top
      BY <2>2
    <3>2. /\ Typed(r[t]) /\ Hands(own, st, t) /\ Place(t)
      BY Here
    <3>3. r[t].blk # 0 /\ r[t].lo <= r[t].end /\ r[t].end <= r[t].blk
      BY <3>1, <3>2 DEF Place, Found
    <3>4. Held(own, st, BlockId(t), r[t].blk, lo)
      BY <3>1, <3>2, <3>3 DEF Hands, Block
    <3>5. lo \in Int /\ lo % MIN_ALIGN = 0 /\ r[t].blk < lo
      BY <3>4 DEF Held
    <3>6. bump <= r[t].lo /\ r[t].lo \in Int /\ r[t].end \in Int /\ r[t].blk \in Int
      BY <1>1, <3>1, <3>2 DEF Typed
    <3> QED BY <1>1, <1>2, <3>1, <3>3, <3>5, <3>6
  <2> QED BY <1>3, <2>1, <2>2
<1>5. s.lo = lo /\ s.hi = heap_end
  BY <1>3 DEF Span
<1>6. \A a \in Granules : lo <= a => own[a] = BumpId /\ a \notin st
  <2>1. \A a \in Granules : a \in Int
    BY HeapBounds
  <2>2. \A a \in Granules : lo <= a => bump <= a /\ \A t \in Threads : Carving(t) => r[t].top <= a
    BY <1>1, <1>4, <2>1
  <2> QED BY <1>1, <2>2
<1>7. HeapStart <= lo /\ heap_end \in Int /\ heap_end % MIN_ALIGN = 0
  BY <1>1, <1>4, HeapBounds
<1> QED BY <1>3, <1>4, <1>5, <1>6, <1>7 DEF Held

\* Every span is held by its owner.
LEMMA SpanIsHeld ==
  ASSUME NEW own, NEW st, NEW el, NEW n, HInv(own, st, el, n), booted, LInv,
         NEW s, NEW id, SpanOf(s, id)
  PROVE  Held(own, st, id, s.lo, s.hi)
<1> USE DEF Span, SliceSpan
<1>0. ASSUME NEW x, NEW i, NEW o, x \in SliceSet, SliceHeld(own, st, i, x), s = SliceSpan(o, x)
      PROVE  Held(own, st, i, s.lo, s.hi)
  <2>1. PICK b, size : b = BlockOf(x) /\ size = x.len + MIN_ALIGN
    OBVIOUS
  <2>2. /\ Block(own, st, i, b, b + size) /\ x.ptr = b + MIN_ALIGN /\ b \in Nat /\ x.len \in Nat
    BY <1>0, <2>1, SliceFacts
  <2>3. x.ptr + x.len = b + size /\ s.lo = b /\ s.hi = x.ptr + x.len
    BY <1>0, <2>1, <2>2, HeapBounds
  <2> QED BY <2>2, <2>3 DEF Block
<1>1. CASE \E k \in Bins : \E b \in FreeSet(k) :
             id = BinId(k, b) /\ s = Span(<<"bin", k>>, b, b + header_size(At(word0, b)))
  <2>1. PICK k \in Bins : \E b \in FreeSet(k) :
             id = BinId(k, b) /\ s = Span(<<"bin", k>>, b, b + header_size(At(word0, b)))
    BY <1>1
  <2>2. PICK b \in FreeSet(k) :
             id = BinId(k, b) /\ s = Span(<<"bin", k>>, b, b + header_size(At(word0, b)))
    BY <2>1
  <2> QED BY <2>2, FreeBlockFacts DEF Block
<1>2. CASE \E x \in live : id = LiveId(x) /\ s = SliceSpan(<<"live", 0>>, x)
  BY <1>0, <1>2 DEF HInv, Types, LiveSlices
<1>3. CASE \E t \in Threads : SpanOfCall(s, id, t)
  <2>1. PICK t \in Threads : SpanOfCall(s, id, t)
    BY <1>3
  <2>2. Typed(r[t]) /\ Hands(own, st, t) /\ Moving(own, st, t)
    BY Here
  <2>3. r[t].src \in SliceSet /\ r[t].dst \in SliceSet /\ r[t].lo \in Int /\ r[t].end \in Int
    BY <2>2 DEF Typed
  <2>4. CASE id = BlockId(t) /\ r[t].blk # 0 /\ s = Span(<<"block", t>>, r[t].blk, r[t].top)
    BY <2>2, <2>4 DEF Hands, Block
  <2>5. CASE id = GapId(t) /\ r[t].lo < r[t].end /\ s = Span(<<"gap", t>>, r[t].lo, r[t].end)
    BY <2>2, <2>3, <2>5 DEF Hands
  <2>6. CASE id = PieceId(t) /\ Pushing(t) /\ r[t].job # "free"
             /\ s = Span(<<"piece", t>>, Piece(t), Piece(t) + header_size(At(word0, Piece(t))))
    <3>1. FreeBlock(own, st, PieceId(t), r[t].bin, Piece(t))
      BY <2>2, <2>6 DEF Moving, PushId
    <3>2. PICK b : b = Piece(t)
      OBVIOUS
    <3>3. Held(own, st, PieceId(t), b, b + header_size(word0[b]))
      BY <3>1, <3>2 DEF FreeBlock, Block
    <3>4. At(word0, b) = word0[b]
      BY <3>3, HeldFacts DEF At
    <3> QED BY <2>6, <3>2, <3>3, <3>4
  <2>7. CASE id = SrcId(t) /\ HoldsSrc(t) /\ s = SliceSpan(<<"src", t>>, r[t].src)
    BY <1>0, <2>2, <2>3, <2>7 DEF Hands
  <2>8. CASE id = DstId(t) /\ r[t].dst.ptr # 0 /\ s = SliceSpan(<<"dst", t>>, r[t].dst)
    BY <1>0, <2>2, <2>3, <2>8 DEF Hands
  <2> QED BY <2>1, <2>4, <2>5, <2>6, <2>7, <2>8 DEF SpanOfCall
<1>4. CASE id = BumpId /\ s \in Untouched
  BY <1>4, UntouchedHeld
<1> QED BY <1>1, <1>2, <1>3, <1>4 DEF SpanOf

\* No two owners share a byte, and nobody reaches into the untouched region
\* above the bump pointer or into the control words below the heap.
THEOREM NothingOverlaps ==
  ASSUME SafeUse
  PROVE  Spec /\ HonestPops => []NoOverlap
<1>1. LInv /\ HeapInv => NoOverlap
  <2> SUFFICES ASSUME LInv, HeapInv, booted
               PROVE  /\ \A s, u \in Spans : s # u => ~Overlap(s, u)
                      /\ \A s \in Spans : HeapStart <= s.lo /\ s.hi <= heap_end
    BY DEF NoOverlap
  <2>1. PICK own, st, el, n : HInv(own, st, el, n)
    BY Ghosts
  <2>2. \A s \in Spans : \E id : SpanOf(s, id) /\ Held(own, st, id, s.lo, s.hi)
    BY <2>1, SpanHasOwner, SpanIsHeld
  <2>3. ASSUME NEW s \in Spans, NEW u \in Spans, Overlap(s, u) PROVE s = u
    <3>1. PICK i : SpanOf(s, i) /\ Held(own, st, i, s.lo, s.hi)
      BY <2>2
    <3>2. PICK j : SpanOf(u, j) /\ Held(own, st, j, u.lo, u.hi)
      BY <2>2
    <3>3. PICK a : a = IF s.lo <= u.lo THEN u.lo ELSE s.lo
      OBVIOUS
    <3>4. /\ s.lo \in Granules /\ s.lo \in Int /\ s.hi \in Int
          /\ u.lo \in Granules /\ u.lo \in Int /\ u.hi \in Int
      BY <3>1, <3>2, HeldFacts
    <3>5. a \in Granules /\ s.lo <= a /\ a < s.hi /\ u.lo <= a /\ a < u.hi
      <4>1. s.lo < s.hi /\ u.lo < u.hi
        BY <3>1, <3>2 DEF Held
      <4> QED BY <2>3, <3>3, <3>4, <4>1 DEF Overlap
    <3>6. own[a] = i /\ own[a] = j
      BY <3>1, <3>2, <3>5 DEF Held
    <3> QED BY <3>1, <3>2, <3>6, OneSpanEach
  <2>4. \A s \in Spans : HeapStart <= s.lo /\ s.hi <= heap_end
    BY <2>2 DEF Held
  <2> QED BY <2>3, <2>4
<1> QED BY <1>1, HeapInvHolds, LInvHolds, PTL
=============================================================================
