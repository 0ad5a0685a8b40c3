----------------------------- MODULE LockProofs ------------------------------
(***************************************************************************)
(* Proofs about the two levels of locks, for every set of threads.         *)
(*                                                                         *)
(* FutexLock, as the instance Word: its invariant IInv says that the word  *)
(* is taken exactly when somebody is in the critical section; mutual       *)
(* exclusion alone is not inductive, since a compare-and-swap of a word    *)
(* that does not tell the truth would break it.                            *)
(*                                                                         *)
(* Mutex, for every limit of the counter too: its invariant ties the word, *)
(* the field owner, the counter and the place of each thread to what the   *)
(* program has been granted.  The owner alone is not inductive, because    *)
(* who compares it with itself relies on how far the other calls have come.*)
(***************************************************************************)
EXTENDS Mutex, TLAPS

VARIABLES word, place   \* the futex and the pc of FutexLock

Word == INSTANCE FutexLock WITH futex <- word, pc <- place

-----------------------------------------------------------------------------
(* FutexLock                                                               *)

\* Initially the word is free and every thread is outside.
LEMMA WordInit == Word!Init => Word!IInv
BY DEF Word!Init, Word!IInv, Word!TypeOK, Word!PC, Word!MutualExclusion,
   Word!WordTellsHolder, Word!NoLostWakeup,
       Word!Holders

\* The steps that leave the word and the critical section alone.
LEMMA WordQuietStep ==
  ASSUME Word!IInv, UNCHANGED word, place' \in [Threads -> Word!PC],
  Word!Holders' = Word!Holders,
         Word!NoLostWakeup'
  PROVE  Word!IInv'
BY DEF Word!IInv, Word!TypeOK, Word!MutualExclusion, Word!WordTellsHolder

\* Every step of every thread, and a stuttering step, preserves IInv.
LEMMA WordNext == Word!IInv /\ [Word!Next]_(Word!vars) => Word!IInv'
<1> SUFFICES ASSUME Word!IInv, [Word!Next]_(Word!vars) PROVE Word!IInv'
  OBVIOUS
<1> USE DEF Word!Goto, Word!PC
<1>1. ASSUME NEW t \in Threads, Word!LockCall(t) PROVE Word!IInv'
  <2>1. UNCHANGED word /\ place' \in [Threads -> Word!PC] /\ Word!Holders' = Word!Holders
    BY <1>1 DEF Word!IInv, Word!TypeOK, Word!LockCall, Word!Holders
  <2>2. Word!NoLostWakeup'
    BY <1>1 DEF Word!IInv, Word!TypeOK, Word!LockCall, Word!NoLostWakeup
  <2> QED BY <2>1, <2>2, WordQuietStep
<1>2. ASSUME NEW t \in Threads, Word!TakeWord,
             Word!Goto(t, "cas", "held") \/ Word!Goto(t, "idle", "held")
      PROVE  Word!IInv'
  <2>1. Word!TypeOK'
    BY <1>2 DEF Word!IInv, Word!TypeOK, Word!TakeWord
  <2>2. Word!Holders = {} /\ Word!Holders' = {t}
    BY <1>2 DEF Word!IInv, Word!TypeOK, Word!WordTellsHolder, Word!Holders, Word!TakeWord
  <2>3. word' = 1
    BY <1>2 DEF Word!TakeWord
  <2> QED BY <2>1, <2>2, <2>3
       DEF Word!IInv, Word!MutualExclusion, Word!WordTellsHolder, Word!NoLostWakeup
<1>3. ASSUME NEW t \in Threads, Word!LockCas(t) PROVE Word!IInv'
  <2>1. CASE word # 0 /\ Word!Goto(t, "cas", "wait") /\ UNCHANGED word
    <3>1. UNCHANGED word /\ place' \in [Threads -> Word!PC] /\ Word!Holders' = Word!Holders
      BY <2>1 DEF Word!IInv, Word!TypeOK, Word!Holders
    <3>2. Word!NoLostWakeup'
      BY <2>1 DEF Word!NoLostWakeup
    <3> QED BY <3>1, <3>2, WordQuietStep
  <2> QED BY <1>2, <1>3, <2>1 DEF Word!LockCas
<1>4. ASSUME NEW t \in Threads, Word!FutexWait(t) PROVE Word!IInv'
  <2>1. UNCHANGED word /\ place' \in [Threads -> Word!PC] /\ Word!Holders' = Word!Holders
    BY <1>4 DEF Word!IInv, Word!TypeOK, Word!FutexWait, Word!Holders
  <2>2. Word!NoLostWakeup'
    BY <1>4 DEF Word!IInv, Word!TypeOK, Word!FutexWait, Word!NoLostWakeup
  <2> QED BY <2>1, <2>2, WordQuietStep
<1>5. ASSUME NEW t \in Threads, Word!TryLock(t) PROVE Word!IInv'
  <2>1. CASE word # 0 /\ Word!Goto(t, "idle", "idle") /\ UNCHANGED word
    <3>1. UNCHANGED <<word, place>>
      BY <2>1 DEF Word!IInv, Word!TypeOK
    <3> QED BY <3>1, WordQuietStep DEF Word!IInv, Word!TypeOK, Word!Holders,
    Word!NoLostWakeup
  <2> QED BY <1>2, <1>5, <2>1 DEF Word!TryLock
<1>6. ASSUME NEW t \in Threads, Word!Unlock(t) PROVE Word!IInv'
  <2>1. Word!Holders = {t} /\ word = 1
    BY <1>6 DEF Word!IInv, Word!TypeOK, Word!MutualExclusion, Word!WordTellsHolder,
       Word!Holders, Word!Unlock
  <2>2. word' = 0 /\ place' = [place EXCEPT ![t] = "wake"]
    BY <1>6, <2>1 DEF Word!Unlock
  <2>3. Word!TypeOK' /\ Word!Holders' = {} /\ place'[t] = "wake"
    BY <2>1, <2>2 DEF Word!IInv, Word!TypeOK, Word!Holders
  <2> QED BY <2>2, <2>3
       DEF Word!IInv, Word!MutualExclusion, Word!WordTellsHolder, Word!NoLostWakeup
<1>7. ASSUME NEW t \in Threads, Word!FutexWake(t) PROVE Word!IInv'
  <2> DEFINE asleep == {s \in Threads : place[s] = "asleep"}
  <2>1. CASE asleep = {} /\ place' = [place EXCEPT ![t] = "idle"]
    <3>1. UNCHANGED word /\ place' \in [Threads -> Word!PC] /\ Word!Holders' = Word!Holders
      BY <1>7, <2>1 DEF Word!IInv, Word!TypeOK, Word!FutexWake, Word!Holders
    <3>2. Word!NoLostWakeup'
      BY <1>7, <2>1 DEF Word!IInv, Word!TypeOK, Word!NoLostWakeup
    <3> QED BY <3>1, <3>2, WordQuietStep
  <2>2. ASSUME NEW s \in asleep, place' = [place EXCEPT ![t] = "idle", ![s] = "cas"]
        PROVE  Word!IInv'
    <3>1. UNCHANGED word /\ place' \in [Threads -> Word!PC] /\ Word!Holders' = Word!Holders
      BY <1>7, <2>2 DEF Word!IInv, Word!TypeOK, Word!FutexWake, Word!Holders
    <3>2. place'[s] = "cas"
      BY <1>7, <2>2 DEF Word!IInv, Word!TypeOK
    <3>3. Word!NoLostWakeup'
      BY <3>2 DEF Word!NoLostWakeup
    <3> QED BY <3>1, <3>3, WordQuietStep
  <2> QED BY <1>7, <2>1, <2>2 DEF Word!FutexWake
<1>8. ASSUME NEW t \in Threads, Word!Interrupted(t) PROVE Word!IInv'
  <2>1. UNCHANGED word /\ place' \in [Threads -> Word!PC] /\ Word!Holders' = Word!Holders
    BY <1>8 DEF Word!IInv, Word!TypeOK, Word!Interrupted, Word!Holders
  <2>2. place'[t] = "cas"
    BY <1>8 DEF Word!IInv, Word!TypeOK, Word!Interrupted
  <2>3. Word!NoLostWakeup'
    BY <2>2 DEF Word!NoLostWakeup
  <2> QED BY <2>1, <2>3, WordQuietStep
<1>9. CASE UNCHANGED Word!vars
  BY <1>9, WordQuietStep DEF Word!vars, Word!IInv, Word!TypeOK, Word!Holders,
     Word!NoLostWakeup
<1> QED BY <1>1, <1>3, <1>4, <1>5, <1>6, <1>7, <1>8, <1>9 DEF Word!Next, Word!Step

\* IInv holds in every reachable state.
THEOREM WordInvariance == Word!Spec => []Word!IInv
BY WordInit, WordNext, PTL DEF Word!Spec

\* The word is 0 or 1 and every thread is at a place of the code.
THEOREM WordTypeCorrect == Word!Spec => []Word!TypeOK
<1>1. Word!IInv => Word!TypeOK
  BY DEF Word!IInv
<1> QED BY <1>1, WordInvariance, PTL

\* Two threads are never both between a successful tb_futex_lock (or trylock)
\* and their tb_futex_unlock.
THEOREM WordExclusion == Word!Spec => []Word!MutualExclusion
<1>1. Word!IInv => Word!MutualExclusion
  BY DEF Word!IInv
<1> QED BY <1>1, WordInvariance, PTL

\* A thread never sleeps on a free word without some other thread being on its
\* way to take the word or to wake a sleeper.
THEOREM WordWakeupKept == Word!Spec => []Word!NoLostWakeup
<1>1. Word!IInv => Word!NoLostWakeup
  BY DEF Word!IInv
<1> QED BY <1>1, WordInvariance, PTL

-----------------------------------------------------------------------------
\* A step of the futex lock is a step of the abstract lock or changes nothing
\* that the abstract lock shows.
LEMMA WordStepRefines == Word!IInv /\ [Word!Next]_(Word!vars) => [Word!Abs!Next]_(Word!Abs!vars)
<1> SUFFICES ASSUME Word!IInv,
[Word!Next]_(Word!vars) PROVE [Word!Abs!Next]_(Word!Abs!vars)
  OBVIOUS
<1> USE DEF Word!Goto, Word!Abs!vars
<1>1. ASSUME NEW t \in Threads, Word!LockCall(t) PROVE Word!Abs!Request(t)
  BY <1>1 DEF Word!LockCall, Word!Abs!Request, Word!Holders, Word!Waiting, Word!IInv,
     Word!TypeOK
<1>2. ASSUME Word!TakeWord PROVE Word!Holders = {}
  BY <1>2 DEF Word!TakeWord, Word!IInv, Word!TypeOK, Word!WordTellsHolder
<1>3. ASSUME NEW t \in Threads, Word!LockCas(t)
      PROVE  Word!Abs!Acquire(t) \/ UNCHANGED Word!Abs!vars
  <2>1. CASE Word!TakeWord /\ Word!Goto(t, "cas", "held")
    <3>1. Word!Holders' = {t} /\ t \in Word!Waiting /\ Word!Waiting' = Word!Waiting \ {t}
      BY <1>2, <2>1 DEF Word!Holders, Word!Waiting, Word!IInv, Word!TypeOK
    <3> QED BY <1>2, <2>1, <3>1 DEF Word!Abs!Acquire
  <2>2. CASE word # 0 /\ Word!Goto(t, "cas", "wait") /\ UNCHANGED word
    BY <2>2 DEF Word!Holders, Word!Waiting, Word!IInv, Word!TypeOK
  <2> QED BY <1>3, <2>1, <2>2 DEF Word!LockCas
<1>4. ASSUME NEW t \in Threads, Word!TryLock(t)
      PROVE  Word!Abs!TryAcquire(t) \/ UNCHANGED Word!Abs!vars
  <2>1. CASE Word!TakeWord /\ Word!Goto(t, "idle", "held")
    <3>1. Word!Holders' = {t} /\ t \notin Word!Waiting /\ Word!Waiting' = Word!Waiting
      BY <1>2, <2>1 DEF Word!Holders, Word!Waiting, Word!IInv, Word!TypeOK
    <3> QED BY <1>2, <2>1, <3>1 DEF Word!Abs!TryAcquire
  <2>2. CASE word # 0 /\ Word!Goto(t, "idle", "idle") /\ UNCHANGED word
    BY <2>2 DEF Word!Holders, Word!Waiting, Word!IInv, Word!TypeOK
  <2> QED BY <1>4, <2>1, <2>2 DEF Word!TryLock
<1>5. ASSUME NEW t \in Threads, Word!Unlock(t) PROVE Word!Abs!Release(t)
  <2>1. Word!Holders = {t}
    BY <1>5 DEF Word!Unlock, Word!IInv, Word!TypeOK, Word!MutualExclusion, Word!Holders
  <2>2. Word!Holders' = {} /\ Word!Waiting' = Word!Waiting
    BY <1>5, <2>1 DEF Word!Unlock, Word!Holders, Word!Waiting, Word!IInv, Word!TypeOK
  <2> QED BY <2>1, <2>2 DEF Word!Abs!Release
<1>6. ASSUME NEW t \in Threads,
Word!FutexWait(t) \/ Word!FutexWake(t) \/ Word!Interrupted(t)
      PROVE  UNCHANGED Word!Abs!vars
  <2>1. CASE Word!FutexWait(t)
    BY <2>1 DEF Word!FutexWait, Word!Holders, Word!Waiting, Word!IInv, Word!TypeOK
  <2>2. CASE Word!FutexWake(t)
    BY <2>2 DEF Word!FutexWake, Word!Holders, Word!Waiting, Word!IInv, Word!TypeOK
  <2>3. CASE Word!Interrupted(t)
    BY <2>3 DEF Word!Interrupted, Word!Holders, Word!Waiting, Word!IInv, Word!TypeOK
  <2> QED BY <1>6, <2>1, <2>2, <2>3
<1>7. CASE UNCHANGED Word!vars
  BY <1>7 DEF Word!vars, Word!Holders, Word!Waiting
<1>8. CASE Word!Next
  BY <1>8, <1>1, <1>3, <1>4, <1>5, <1>6 DEF Word!Next, Word!Step, Word!Abs!Next
<1> QED BY <1>7, <1>8

\* Every behaviour of the futex lock is one of the abstract lock (its safety
\* part; the progress part, Abs!FairSpec, is model-checked).
THEOREM WordRefinement == Word!Spec => Word!Abs!Spec
<1>1. Word!Init => Word!Abs!Init
  BY DEF Word!Init, Word!Abs!Init, Word!Holders, Word!Waiting
<1> QED BY <1>1, WordStepRefines, WordInvariance, PTL DEF Word!Spec, Word!Abs!Spec

-----------------------------------------------------------------------------
(* Mutex                                                                   *)

\* The mutexes whose last unlock does not follow a null owner: all but the recursive
\* one with PRIO_INHERIT, which tb_inherit_mutex_unsched crashes on.
Usable == attr.type = "recursive" => attr.protocol = "none"

\* The word is taken exactly when somebody has the mutex, and one thread has it.
WordTellsHolder ==
  /\ futex = 1 <=> Holders # {}
  /\ \A s, t \in Holders : s = t

\* From the store of owner to its removal; a recursive unlock removes it at once.
Owning(t) ==
  \/ depth[t] > 0
  \/ pc[t] = "count"
  \/ pc[t] = "disown" /\ attr.type # "recursive"

OwnerTells == \A t \in Threads : owner = t <=> Owning(t)

\* Where a thread can be with and without the mutex.
PlacesFit ==
  /\ \A t \in Threads : pc[t] # "crashed"
  /\ \A t \in Threads : pc[t] \in {"own", "free"} => attr.protocol = "none"
  /\ \A t \in Threads : pc[t] \in {"own", "disown", "free"} => depth[t] = 0
  /\ \A t \in Threads : pc[t] = "count" => attr.type = "recursive"
  /\ \A t \in Threads : attr.type = "recursive" /\ depth[t] > 0 =>
       pc[t] \in {"idle", "check", "count"}
  /\ \A t \in Waiting : depth[t] = 0
  /\ \A t \in Threads \ try : attr.type = "normal" /\ pc[t] = "check" => depth[t] = 0

\* The counter of a recursive mutex counts, that of the others is not used.
CounterTells ==
  /\ attr.type # "recursive" => \A t \in Threads : depth[t] <= 1
  /\ CounterIsDepth
  /\ attr.type = "recursive" /\ (\A t \in Threads : depth[t] = 0) => counter = 0

IInv == TypeOK /\ Usable /\ WordTellsHolder /\ OwnerTells /\ PlacesFit /\ CounterTells

\* The protocols a program can combine with a recursive mutex without the crash.
AttributesUsable == \A at \in Attributes : at.type = "recursive" => at.protocol = "none"

-----------------------------------------------------------------------------
\* The counter of a recursive mutex within its limit counts without wrapping.
LEMMA CountUp ==
  ASSUME NEW c \in Nat, NEW m \in Nat \ {0}, c < m PROVE (c + 1) % (m + 1) = c + 1
BY SMT

\* The counter's decrement, modulo its width, from a counter that is not 0.
LEMMA CountDown ==
  ASSUME NEW c \in Nat \ {0}, NEW m \in Nat \ {0}, c <= m
  PROVE  (c + m) % (m + 1) = c - 1
<1>1. c + m = (m + 1) + (c - 1)
  OBVIOUS
<1> QED BY <1>1, SMT

\* At first nobody has the mutex.
LEMMA InitIInv == ASSUME AttributesUsable PROVE Init => IInv
<1> SUFFICES ASSUME Init PROVE IInv
  OBVIOUS
<1> USE DEF Init
<1>1. TypeOK /\ Usable
  BY ConstantsAssumption DEF TypeOK, PC, Usable, AttributesUsable
<1>2. WordTellsHolder /\ PlacesFit
  BY DEF WordTellsHolder, PlacesFit, Holders, Waiting
<1>3. OwnerTells
  <2> SUFFICES ASSUME NEW t \in Threads PROVE owner # t /\ ~Owning(t)
    BY DEF OwnerTells
  <2> QED BY ConstantsAssumption DEF Owning
<1>4. CounterTells
  BY DEF CounterTells, CounterIsDepth
<1> QED BY <1>1, <1>2, <1>3, <1>4 DEF IInv

\* Every step of every thread, and a stuttering step, preserves IInv.
LEMMA NextIInv == IInv /\ [Next]_vars => IInv'
<1> SUFFICES ASSUME IInv, [Next]_vars PROVE IInv'
  OBVIOUS
<1> USE ConstantsAssumption DEF Goto, PC, IInv
<1>1. ASSUME NEW t \in Threads, Call(t) PROVE IInv'
  <2>1. TypeOK' /\ Usable'
    BY <1>1 DEF Call, TypeOK, Usable
  <2>2. WordTellsHolder'
    BY <1>1 DEF Call, TypeOK, WordTellsHolder, PlacesFit, Holders
  <2>3. OwnerTells'
    BY <1>1 DEF Call, TypeOK, OwnerTells, Owning, PlacesFit, WordTellsHolder, Holders
  <2>4. PlacesFit'
    BY <1>1 DEF Call, TypeOK, Usable, PlacesFit, OwnerTells, Owning, Waiting,
       WordTellsHolder, Holders
  <2>5. CounterTells'
    BY <1>1 DEF Call, TypeOK, CounterTells, CounterIsDepth, PlacesFit, OwnerTells,
       Owning, WordTellsHolder, Holders
  <2> QED BY <2>1, <2>2, <2>3, <2>4, <2>5 DEF IInv
<1>2. ASSUME NEW t \in Threads, Check(t) PROVE IInv'
  <2>1. TypeOK' /\ Usable'
    BY <1>2 DEF Check, Relocks, SelfDeadlock, TypeOK, Usable
  <2>2. WordTellsHolder'
    BY <1>2 DEF Check, Relocks, SelfDeadlock, TypeOK, WordTellsHolder, PlacesFit,
       Holders, OwnerTells, Owning
  <2>3. OwnerTells'
    BY <1>2 DEF Check, Relocks, SelfDeadlock, TypeOK, OwnerTells, Owning, PlacesFit,
       WordTellsHolder, Holders
  <2>4. PlacesFit'
    BY <1>2 DEF Check, Relocks, SelfDeadlock, TypeOK, Usable, PlacesFit, OwnerTells,
       Owning, Waiting, WordTellsHolder, Holders
  <2>5. CounterTells'
    BY <1>2 DEF Check, Relocks, SelfDeadlock, TypeOK, CounterTells, CounterIsDepth,
       PlacesFit, OwnerTells, Owning, WordTellsHolder, Holders
  <2> QED BY <2>1, <2>2, <2>3, <2>4, <2>5 DEF IInv
<1>3. ASSUME NEW t \in Threads, attr.protocol = "none", TakeNone(t) PROVE IInv'
  <2>0. \A s \in Threads : 
          depth[s] = 0 /\ pc[s] \notin {"own", "count", "disown", "free"}
    BY <1>3 DEF TakeNone, WordFree, TypeOK, WordTellsHolder, Holders
  <2>1. TypeOK' /\ Usable'
    BY <1>3 DEF TakeNone, WordFree, Grant, TypeOK, Usable
  <2>2. WordTellsHolder'
    BY <1>3 DEF TakeNone, WordFree, Grant, TypeOK, WordTellsHolder, PlacesFit, Holders
  <2>3. OwnerTells'
    BY <1>3 DEF TakeNone, WordFree, Grant, TypeOK, OwnerTells, Owning, PlacesFit,
       WordTellsHolder, Holders
  <2>4. PlacesFit'
    BY <1>3, <2>0 DEF TakeNone, TypeOK, Usable, PlacesFit, Waiting
  <2>5. CounterTells'
    BY <1>3 DEF TakeNone, WordFree, Grant, TypeOK, CounterTells, CounterIsDepth,
       PlacesFit, OwnerTells, Owning, WordTellsHolder, Holders
  <2> QED BY <2>1, <2>2, <2>3, <2>4, <2>5 DEF IInv
<1>4. ASSUME NEW t \in Threads, attr.protocol = "inherit", TakeInherit(t) PROVE IInv'
  <2>0. \A s \in Threads : 
          depth[s] = 0 /\ pc[s] \notin {"own", "count", "disown", "free"}
    BY <1>4 DEF TakeInherit, WordFree, TypeOK, WordTellsHolder, Holders
  <2>1. TypeOK' /\ Usable'
    BY <1>4 DEF TakeInherit, WordFree, Grant, TypeOK, Usable
  <2>2. WordTellsHolder'
    BY <1>4 DEF TakeInherit, WordFree, Grant, TypeOK, WordTellsHolder, PlacesFit, Holders
  <2>3. OwnerTells'
    BY <1>4, <2>0 DEF TakeInherit, Grant, TypeOK, Usable, OwnerTells, Owning
  <2>4. PlacesFit'
    BY <1>4 DEF TakeInherit, WordFree, Grant, TypeOK, Usable, PlacesFit, OwnerTells,
       Owning, Waiting, WordTellsHolder, Holders
  <2>5. CounterTells'
    BY <1>4 DEF TakeInherit, WordFree, Grant, TypeOK, CounterTells, CounterIsDepth,
       PlacesFit, OwnerTells, Owning, WordTellsHolder, Holders
  <2> QED BY <2>1, <2>2, <2>3, <2>4, <2>5 DEF IInv
<1>5. ASSUME NEW t \in Threads, TakeFailed(t) PROVE IInv'
  <2>1. TypeOK' /\ Usable'
    BY <1>5 DEF TakeFailed, TypeOK, Usable
  <2>2. WordTellsHolder'
    BY <1>5 DEF TakeFailed, TypeOK, WordTellsHolder, PlacesFit, Holders
  <2>3. OwnerTells'
    BY <1>5 DEF TakeFailed, TypeOK, OwnerTells, Owning, PlacesFit, WordTellsHolder,
       Holders
  <2>4. PlacesFit'
    BY <1>5 DEF TakeFailed, TypeOK, Usable, PlacesFit, OwnerTells, Owning, Waiting,
       WordTellsHolder, Holders
  <2>5. CounterTells'
    BY <1>5 DEF TakeFailed, TypeOK, CounterTells, CounterIsDepth, PlacesFit, OwnerTells,
       Owning, WordTellsHolder, Holders
  <2> QED BY <2>1, <2>2, <2>3, <2>4, <2>5 DEF IInv
<1>6. ASSUME NEW t \in Threads, FutexWait(t) PROVE IInv'
  <2>1. TypeOK' /\ Usable'
    BY <1>6 DEF FutexWait, TypeOK, Usable
  <2>2. WordTellsHolder'
    BY <1>6 DEF FutexWait, TypeOK, WordTellsHolder, PlacesFit, Holders
  <2>3. OwnerTells'
    BY <1>6 DEF FutexWait, TypeOK, OwnerTells, Owning, PlacesFit, WordTellsHolder, Holders
  <2>4. PlacesFit'
    BY <1>6 DEF FutexWait, TypeOK, Usable, PlacesFit, OwnerTells, Owning, Waiting,
       WordTellsHolder, Holders
  <2>5. CounterTells'
    BY <1>6 DEF FutexWait, TypeOK, CounterTells, CounterIsDepth, PlacesFit, OwnerTells,
       Owning, WordTellsHolder, Holders
  <2> QED BY <2>1, <2>2, <2>3, <2>4, <2>5 DEF IInv
<1>7. ASSUME NEW t \in Threads, Interrupted(t) PROVE IInv'
  <2>1. TypeOK' /\ Usable'
    BY <1>7 DEF Interrupted, TypeOK, Usable
  <2>2. WordTellsHolder'
    BY <1>7 DEF Interrupted, TypeOK, WordTellsHolder, PlacesFit, Holders
  <2>3. OwnerTells'
    BY <1>7 DEF Interrupted, TypeOK, OwnerTells, Owning, PlacesFit, WordTellsHolder,
       Holders
  <2>4. PlacesFit'
    BY <1>7 DEF Interrupted, TypeOK, Usable, PlacesFit, OwnerTells, Owning, Waiting,
       WordTellsHolder, Holders
  <2>5. CounterTells'
    BY <1>7 DEF Interrupted, TypeOK, CounterTells, CounterIsDepth, PlacesFit,
       OwnerTells, Owning, WordTellsHolder, Holders
  <2> QED BY <2>1, <2>2, <2>3, <2>4, <2>5 DEF IInv
<1>8. ASSUME NEW t \in Threads, Own(t) PROVE IInv'
  <2>1. TypeOK' /\ Usable'
    BY <1>8 DEF Own, Grant, TypeOK, Usable
  <2>2. WordTellsHolder'
    BY <1>8 DEF Own, Grant, TypeOK, WordTellsHolder, PlacesFit, Holders
  <2>3. OwnerTells'
    BY <1>8 DEF Own, Grant, TypeOK, OwnerTells, Owning, PlacesFit, WordTellsHolder,
       Holders
  <2>4. PlacesFit'
    BY <1>8 DEF Own, Grant, TypeOK, Usable, PlacesFit, OwnerTells, Owning, Waiting,
       WordTellsHolder, Holders
  <2>5. CounterTells'
    BY <1>8 DEF Own, Grant, TypeOK, CounterTells, CounterIsDepth, PlacesFit, OwnerTells,
       Owning, WordTellsHolder, Holders
  <2> QED BY <2>1, <2>2, <2>3, <2>4, <2>5 DEF IInv
<1>9. ASSUME NEW t \in Threads, Count(t) PROVE IInv'
  <2>1. owner = t /\ pc[t] = "count" /\ attr.type = "recursive" /\ Holders = {t}
    BY <1>9 DEF Count, TypeOK, OwnerTells, Owning, PlacesFit, WordTellsHolder, Holders
  <2>2. \A s \in Threads \ {t} : 
          depth[s] = 0 /\ pc[s] \notin {"own", "count", "disown", "free"}
    BY <2>1 DEF Holders, TypeOK
  <2>3. counter = depth[t] /\ counter \in Nat /\ counter <= MaxCounter
    BY <2>1, <2>2 DEF CounterTells, CounterIsDepth, TypeOK
  <2>4. pc' = [pc EXCEPT ![t] = "idle"] /\ UNCHANGED <<attr, futex, owner, try>>
    BY <1>9 DEF Count
  <2>5. /\ counter' = depth'[t] /\ depth'[t] \in 1 .. MaxCounter
        /\ depth' = [depth EXCEPT ![t] = depth'[t]]
    <3>1. CASE Full
      <4>1. UNCHANGED <<counter, depth>> /\ depth[t] = MaxCounter
        BY <1>9, <2>3, <3>1 DEF Count, Full
      <4>2. depth = [depth EXCEPT ![t] = depth[t]]
        BY DEF TypeOK
      <4> QED BY <2>3, <4>1, <4>2
    <3>2. CASE ~Full
      <4>1. (counter + 1) % (MaxCounter + 1) = counter + 1
        BY <2>3, <3>2, CountUp DEF Full
      <4> QED BY <1>9, <2>3, <3>2, <4>1 DEF Count, Full, Grant, TypeOK
    <3> QED BY <3>1, <3>2
  <2>6. TypeOK' /\ Usable'
    BY <2>4, <2>5 DEF TypeOK, Usable
  <2>7. WordTellsHolder'
    <3>1. Holders' = {t}
      BY <2>2, <2>4, <2>5 DEF TypeOK, Holders
    <3> QED BY <2>1, <2>4, <3>1 DEF WordTellsHolder
  <2>8. OwnerTells'
    BY <2>1, <2>2, <2>4, <2>5 DEF TypeOK, OwnerTells, Owning
  <2>9. PlacesFit'
    BY <2>1, <2>2, <2>4, <2>5 DEF TypeOK, PlacesFit, Waiting
  <2>10. CounterTells'
    BY <2>1, <2>2, <2>4, <2>5 DEF TypeOK, CounterTells, CounterIsDepth
  <2> QED BY <2>6, <2>7, <2>8, <2>9, <2>10
<1>10. ASSUME NEW t \in Threads, UnlockCall(t) PROVE IInv'
  <2>1. depth[t] > 0 /\ pc[t] = "idle" /\ owner = t /\ Holders = {t}
    BY <1>10 DEF UnlockCall, Refused, TypeOK, OwnerTells, Owning, WordTellsHolder, Holders
  <2>2. \A s \in Threads \ {t} : 
          depth[s] = 0 /\ pc[s] \notin {"own", "count", "disown", "free"}
    BY <2>1 DEF Holders, TypeOK
  <2>3. /\ depth' = [depth EXCEPT ![t] = depth[t] - 1]
        /\ UNCHANGED <<attr, futex, try>>
    BY <1>10 DEF UnlockCall
  <2>4. ASSUME attr.type = "recursive" PROVE IInv'
    <3>1. counter' = depth[t] - 1 /\ counter' \in 0 .. MaxCounter
      <4>1. counter = depth[t] /\ counter \in Nat \ {0} /\ counter <= MaxCounter
        BY <2>1, <2>4 DEF CounterTells, CounterIsDepth, TypeOK
      <4>2. (counter + MaxCounter) % (MaxCounter + 1) = counter - 1
        BY <4>1, CountDown
      <4> QED BY <1>10, <2>4, <4>1, <4>2 DEF UnlockCall
    <3>2. CASE counter' = 0
      <4>1. pc' = [pc EXCEPT ![t] = "disown"] /\ owner' = NoThread /\ depth'[t] = 0
        BY <1>10, <2>1, <2>3, <2>4, <3>1, <3>2 DEF UnlockCall, TypeOK
      <4>2. TypeOK' /\ Usable'
        BY <2>1, <2>3, <3>1, <4>1 DEF TypeOK, Usable
      <4>3. Holders' = {t}
        BY <2>2, <2>3, <4>1 DEF TypeOK, Holders
      <4>4. WordTellsHolder'
        BY <2>1, <2>3, <4>3 DEF WordTellsHolder
      <4>5. OwnerTells'
        BY <2>2, <2>3, <2>4, <4>1 DEF TypeOK, OwnerTells, Owning
      <4>6. PlacesFit'
        BY <2>2, <2>3, <2>4, <4>1 DEF TypeOK, Usable, PlacesFit, Waiting
      <4>7. CounterTells'
        BY <2>2, <2>3, <2>4, <3>2, <4>1 DEF TypeOK, CounterTells, CounterIsDepth
      <4> QED BY <4>2, <4>4, <4>5, <4>6, <4>7
    <3>3. CASE counter' # 0
      <4>1. UNCHANGED <<pc, owner>> /\ depth'[t] > 0 /\ depth'[t] = counter'
        BY <1>10, <2>1, <2>3, <2>4, <3>1, <3>3 DEF UnlockCall, TypeOK
      <4>2. TypeOK' /\ Usable'
        BY <2>1, <2>3, <3>1, <4>1 DEF TypeOK, Usable
      <4>3. Holders' = {t}
        BY <2>2, <2>3, <4>1 DEF TypeOK, Holders
      <4>4. WordTellsHolder'
        BY <2>1, <2>3, <4>3 DEF WordTellsHolder
      <4>5. OwnerTells'
        BY <2>1, <2>2, <2>3, <4>1 DEF TypeOK, OwnerTells, Owning
      <4>6. PlacesFit'
        BY <2>1, <2>2, <2>3, <2>4, <4>1 DEF TypeOK, PlacesFit, Waiting
      <4>7. CounterTells'
        BY <2>2, <2>3, <2>4, <4>1 DEF TypeOK, CounterTells, CounterIsDepth
      <4> QED BY <4>2, <4>4, <4>5, <4>6, <4>7
    <3> QED BY <3>2, <3>3
  <2>5. ASSUME attr.type # "recursive" PROVE IInv'
    <3>1. /\ pc' = [pc EXCEPT ![t] = "disown"] /\ UNCHANGED <<counter, owner>>
          /\ depth'[t] = 0
      BY <1>10, <2>1, <2>3, <2>5 DEF UnlockCall, CounterTells, TypeOK
    <3>2. TypeOK' /\ Usable'
      BY <2>1, <2>3, <3>1 DEF TypeOK, Usable
    <3>3. Holders' = {t}
      BY <2>2, <2>3, <3>1 DEF TypeOK, Holders
    <3>4. WordTellsHolder'
      BY <2>1, <2>3, <3>3 DEF WordTellsHolder
    <3>5. OwnerTells'
      BY <2>1, <2>2, <2>3, <2>5, <3>1 DEF TypeOK, OwnerTells, Owning
    <3>6. PlacesFit'
      BY <2>1, <2>2, <2>3, <2>5, <3>1 DEF TypeOK, PlacesFit, Waiting
    <3>7. CounterTells'
      BY <2>2, <2>3, <2>5, <3>1 DEF TypeOK, CounterTells, CounterIsDepth
    <3> QED BY <3>2, <3>4, <3>5, <3>6, <3>7
  <2> QED BY <2>4, <2>5
<1>11. ASSUME NEW t \in Threads, Disown(t) PROVE IInv'
  <2>1. TypeOK' /\ Usable'
    BY <1>11 DEF Disown, TypeOK, Usable
  <2>2. WordTellsHolder'
    BY <1>11 DEF Disown, TypeOK, WordTellsHolder, PlacesFit, Holders
  <2>3. OwnerTells'
    BY <1>11 DEF Disown, TypeOK, OwnerTells, Owning, PlacesFit, WordTellsHolder, Holders
  <2>4. PlacesFit'
    BY <1>11 DEF Disown, TypeOK, Usable, PlacesFit, OwnerTells, Owning, Waiting,
       WordTellsHolder, Holders
  <2>5. CounterTells'
    BY <1>11 DEF Disown, TypeOK, CounterTells, CounterIsDepth, PlacesFit, OwnerTells,
       Owning, WordTellsHolder, Holders
  <2> QED BY <2>1, <2>2, <2>3, <2>4, <2>5 DEF IInv
<1>12. ASSUME NEW t \in Threads, Free(t) PROVE IInv'
  <2>1. TypeOK' /\ Usable'
    BY <1>12 DEF Free, TypeOK, Usable
  <2>2. WordTellsHolder'
    BY <1>12 DEF Free, TypeOK, WordTellsHolder, PlacesFit, Holders
  <2>3. OwnerTells'
    BY <1>12 DEF Free, TypeOK, OwnerTells, Owning, PlacesFit, WordTellsHolder, Holders
  <2>4. PlacesFit'
    BY <1>12 DEF Free, TypeOK, Usable, PlacesFit, OwnerTells, Owning, Waiting,
       WordTellsHolder, Holders
  <2>5. CounterTells'
    BY <1>12 DEF Free, TypeOK, CounterTells, CounterIsDepth, PlacesFit, OwnerTells,
       Owning, WordTellsHolder, Holders
  <2> QED BY <2>1, <2>2, <2>3, <2>4, <2>5 DEF IInv
<1>13. ASSUME NEW t \in Threads, FreeInherit(t) PROVE IInv'
  <2>0. Holders = {t}
    BY <1>13 DEF FreeInherit, TypeOK, WordTellsHolder, Holders
  <2>1. TypeOK' /\ Usable'
    BY <1>13 DEF FreeInherit, Sleepers, TypeOK, Usable
  <2>2. WordTellsHolder'
    <3>1. \A s \in Threads : 
            depth'[s] = 0 /\ pc'[s] \notin {"own", "count", "disown", "free"}
      BY <1>13, <2>0 DEF FreeInherit, Sleepers, TypeOK, PlacesFit, Holders, OwnerTells,
         Owning, Usable
    <3>2. futex' = 0
      BY <1>13 DEF FreeInherit, OwnerTells, Owning, Usable
    <3> QED BY <3>1, <3>2 DEF WordTellsHolder, Holders
  <2>3. OwnerTells'
    BY <1>13 DEF FreeInherit, Sleepers, TypeOK, OwnerTells, Owning, PlacesFit,
       WordTellsHolder, Holders
  <2>4. PlacesFit'
    BY <1>13 DEF FreeInherit, Sleepers, TypeOK, Usable, PlacesFit, OwnerTells, Owning,
       Waiting, WordTellsHolder, Holders
  <2>5. CounterTells'
    BY <1>13 DEF FreeInherit, Sleepers, TypeOK, CounterTells, CounterIsDepth, PlacesFit,
       OwnerTells, Owning, WordTellsHolder, Holders
  <2> QED BY <2>1, <2>2, <2>3, <2>4, <2>5 DEF IInv
<1>14. CASE UNCHANGED vars
  BY <1>14 DEF vars, TypeOK, Usable, WordTellsHolder, OwnerTells, Owning, PlacesFit,
     CounterTells, CounterIsDepth, Holders, Waiting
<1> QED
  BY <1>1, <1>2, <1>3, <1>4, <1>5, <1>6, <1>7, <1>8, <1>9, <1>10, <1>11, <1>12, <1>13,
     <1>14 DEF Next, Step, Take

\* IInv holds in every reachable state.
LEMMA Invariance == ASSUME AttributesUsable PROVE Spec => []IInv
BY InitIInv, NextIInv, PTL DEF Spec

\* The word is 0 or 1, the counter within its limit, every thread at a place of the code.
THEOREM TypeCorrect == ASSUME AttributesUsable PROVE Spec => []TypeOK
<1>1. IInv => TypeOK
  BY DEF IInv
<1> QED BY <1>1, Invariance, PTL

\* The unguarded field owner names a thread that is outside the library, or about to
\* look at it, exactly when that thread has the mutex.
THEOREM OwnerTruthful == ASSUME AttributesUsable PROVE Spec => []OwnerTellsHolder
<1>1. IInv => OwnerTellsHolder
  BY DEF IInv, OwnerTells, Owning, OwnerTellsHolder
<1> QED BY <1>1, Invariance, PTL

\* The counter of a recursive mutex is the number of unlocks still owed.
THEOREM CounterTruthful == ASSUME AttributesUsable PROVE Spec => []CounterIsDepth
<1>1. IInv => CounterIsDepth
  BY DEF IInv, CounterTells
<1> QED BY <1>1, Invariance, PTL

\* tb_inherit_mutex_unsched finds an owner, whatever else happens to the mutex.
THEOREM UnschedSafe == ASSUME AttributesUsable PROVE Spec => []UnschedHasOwner
<1>1. IInv => UnschedHasOwner
  BY DEF IInv, PlacesFit, UnschedHasOwner, Crashed
<1> QED BY <1>1, Invariance, PTL

-----------------------------------------------------------------------------
\* A step of the mutex is a step of the abstract lock or changes nothing that the
\* abstract lock shows.
LEMMA StepRefines == IInv /\ [Next]_vars => [Abs!Next]_(Abs!vars)
<1> SUFFICES ASSUME IInv, [Next]_vars PROVE [Abs!Next]_(Abs!vars)
  OBVIOUS
<1> USE ConstantsAssumption DEF Goto, Abs!vars, IInv
<1>1. ASSUME NEW t \in Threads, Call(t) PROVE UNCHANGED Abs!vars
  BY <1>1 DEF Call, TypeOK, Holders, Waiting
<1>2. ASSUME NEW t \in Threads, Check(t)
      PROVE  Abs!Request(t) \/ UNCHANGED Abs!vars
  <2>1. CASE Relocks(t)
    BY <1>2, <2>1 DEF Check, Relocks, TypeOK, OwnerTells, Owning, Holders, Waiting
  <2>2. CASE ~Relocks(t) /\ (SelfDeadlock(t) \/ t \in try)
    BY <1>2, <2>2 DEF Check, SelfDeadlock, TypeOK, Holders, Waiting
  <2>3. CASE ~Relocks(t) /\ ~SelfDeadlock(t) /\ t \notin try
    <3>1. pc' = [pc EXCEPT ![t] = "take"] /\ UNCHANGED <<depth, try>> /\ pc[t] = "check"
      BY <1>2, <2>3 DEF Check
    <3>2. depth[t] = 0
      BY <1>2, <2>3, <3>1
         DEF Relocks, SelfDeadlock, TypeOK, Usable, OwnerTells, Owning, PlacesFit
    <3>3. t \notin Holders \cup Waiting /\ Holders' = Holders /\ Waiting' = Waiting \cup {t}
      BY <2>3, <3>1, <3>2 DEF TypeOK, Holders, Waiting
    <3> QED BY <3>3 DEF Abs!Request
  <2> QED BY <2>1, <2>2, <2>3
<1>3. ASSUME NEW t \in Threads, Take(t)
      PROVE  Abs!Acquire(t) \/ Abs!TryAcquire(t) \/ UNCHANGED Abs!vars
  <2>1. CASE TakeNone(t) \/ (attr.protocol = "inherit" /\ TakeInherit(t))
    <3>1. Holders = {} /\ pc[t] = "take"
      BY <2>1 DEF TakeNone, TakeInherit, WordFree, TypeOK, WordTellsHolder
    <3>2. \A s \in Threads : 
            depth[s] = 0 /\ pc[s] \notin {"own", "count", "disown", "free"}
      BY <3>1 DEF Holders, TypeOK
    <3>3. UNCHANGED try /\ pc' = [pc EXCEPT ![t] = pc'[t]]
          /\ \/ pc'[t] = "own" /\ UNCHANGED depth
             \/ pc'[t] = "idle" /\ depth' = [depth EXCEPT ![t] = 1]
      BY <2>1, <3>1, <3>2 DEF TakeNone, TakeInherit, Grant, TypeOK
    <3>4. Holders' = {t}
      BY <3>2, <3>3 DEF Holders, TypeOK
    <3>5. Waiting' = Waiting \ {t}
      BY <3>3 DEF Waiting, TypeOK
    <3>6. CASE t \in try
      BY <3>1, <3>4, <3>5, <3>6 DEF Abs!TryAcquire, Waiting
    <3>7. CASE t \notin try
      BY <3>1, <3>4, <3>5, <3>7 DEF Abs!Acquire, Waiting
    <3> QED BY <3>6, <3>7
  <2>2. CASE TakeFailed(t)
    BY <2>2 DEF TakeFailed, TypeOK, Holders, Waiting
  <2> QED BY <1>3, <2>1, <2>2 DEF Take
<1>4. ASSUME NEW t \in Threads, FutexWait(t) \/ Interrupted(t) PROVE UNCHANGED Abs!vars
  BY <1>4 DEF FutexWait, Interrupted, TypeOK, Holders, Waiting
<1>5. ASSUME NEW t \in Threads, Own(t) PROVE UNCHANGED Abs!vars
  BY <1>5 DEF Own, Grant, TypeOK, Holders, Waiting
<1>6. ASSUME NEW t \in Threads, Count(t) PROVE UNCHANGED Abs!vars
  <2>1. CASE Full
    <3>1. \E s \in Threads : depth[s] # 0
      BY <1>6, <2>1 DEF Count, Full, CounterTells, PlacesFit
    <3>2. depth[t] > 0
      BY <1>6, <3>1 DEF Count, TypeOK, Holders, WordTellsHolder
    <3> QED BY <1>6, <2>1, <3>2 DEF Count, TypeOK, Holders, Waiting
  <2>2. CASE ~Full
    BY <1>6, <2>2 DEF Count, Grant, TypeOK, Holders, Waiting
  <2> QED BY <2>1, <2>2
<1>7. ASSUME NEW t \in Threads, UnlockCall(t) PROVE UNCHANGED Abs!vars
  <2>1. depth[t] > 0 /\ pc[t] = "idle"
    BY <1>7 DEF UnlockCall, Refused, TypeOK, OwnerTells, Owning
  <2>2. CASE pc' = [pc EXCEPT ![t] = "disown"]
    BY <1>7, <2>1, <2>2 DEF UnlockCall, TypeOK, Holders, Waiting
  <2>3. CASE UNCHANGED pc /\ depth'[t] > 0
    BY <1>7, <2>1, <2>3 DEF UnlockCall, TypeOK, Holders, Waiting
  <2>4. ASSUME attr.type = "recursive", counter' # 0 PROVE depth'[t] > 0
    <3>1. counter = depth[t] /\ counter \in Nat \ {0} /\ counter <= MaxCounter
      BY <2>1, <2>4 DEF CounterTells, CounterIsDepth, TypeOK
    <3>2. counter' = counter - 1
      BY <1>7, <2>4, <3>1, CountDown DEF UnlockCall
    <3> QED BY <1>7, <2>4, <3>1, <3>2 DEF UnlockCall, TypeOK
  <2> QED BY <1>7, <2>2, <2>3, <2>4 DEF UnlockCall
<1>8. ASSUME NEW t \in Threads, Disown(t) PROVE UNCHANGED Abs!vars
  BY <1>8 DEF Disown, TypeOK, Holders, Waiting
<1>9. ASSUME NEW t \in Threads, Free(t) \/ FreeInherit(t) PROVE Abs!Release(t)
  <2>1. Holders = {t} /\ depth[t] = 0
    BY <1>9 DEF Free, FreeInherit, TypeOK, PlacesFit, WordTellsHolder, Holders
  <2>2. \A s \in Threads \ {t} : 
          depth[s] = 0 /\ pc[s] \notin {"own", "count", "disown", "free"}
    BY <2>1 DEF Holders, TypeOK
  <2>3. /\ UNCHANGED <<depth, try>> /\ pc[t] \in {"disown", "free"}
        /\ \/ pc' = [pc EXCEPT ![t] = "idle"]
           \/ \E s \in Sleepers : pc' = [pc EXCEPT ![t] = "idle", ![s] = "take"]
    BY <1>9, <2>1 DEF Free, FreeInherit, TypeOK, OwnerTells, Owning, Usable
  <2>4. Holders' = {}
    BY <2>1, <2>2, <2>3 DEF Holders, TypeOK, Sleepers
  <2>5. Waiting' = Waiting
    BY <2>3 DEF Waiting, TypeOK, Sleepers
  <2> QED BY <2>1, <2>4, <2>5 DEF Abs!Release
<1>10. CASE UNCHANGED vars
  BY <1>10 DEF vars, Holders, Waiting
<1>11. CASE Next
  BY <1>11, <1>1, <1>2, <1>3, <1>4, <1>5, <1>6, <1>7, <1>8, <1>9 DEF Next, Step, Abs!Next
<1> QED BY <1>10, <1>11

\* Every behaviour of a mutex, of any type and protocol but the recursive one with
\* PRIO_INHERIT, is one of the abstract lock (its safety part; the progress part is
\* model-checked).
THEOREM Refinement == ASSUME AttributesUsable PROVE Spec => Abs!Spec
<1>1. Init => Abs!Init
  BY DEF Init, Abs!Init, Holders, Waiting
<1> QED BY <1>1, StepRefines, Invariance, PTL DEF Spec, Abs!Spec
=============================================================================
