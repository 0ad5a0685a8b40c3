---------------------------- MODULE RwLockProofs ----------------------------
(***************************************************************************)
(* Proofs about RwLock, for every finite set of threads and any number of  *)
(* interrupted sleeps.  The three invariants only hold together: that a    *)
(* writer is alone follows from the counts the code looks at, that a       *)
(* queued writer is awake from the number of them being the number of      *)
(* threads in the queue.                                                   *)
(***************************************************************************)
EXTENDS RwLock, FiniteSetTheorems, TLAPS

IInv == TypeOK /\ Exclusion /\ CountsAgree /\ NoLostWakeup

Reading == At({"reading"})
Queue == At({"wr_retry", "wr_wait", "wr_asleep"})
WriterTold == \A t \in Threads : writer = t <=> pc[t] = "writing"

\* The fields in terms of the sets they count.
LEMMA Counts ==
  /\ CountsAgree <=> /\ readers = Cardinality(Reading)
                     /\ writers_queued = Cardinality(Queue)
                     /\ WriterTold
  /\ CountsAgree' <=> /\ readers' = Cardinality(Reading')
                      /\ writers_queued' = Cardinality(Queue')
                      /\ WriterTold'
BY DEF CountsAgree, Reading, Queue, WriterTold

\* Sets of threads are finite, and a count is 0 when its set is empty.
LEMMA Sizes ==
  /\ IsFiniteSet(Reading) /\ IsFiniteSet(Queue)
  /\ Cardinality(Reading) \in Nat /\ Cardinality(Queue) \in Nat
  /\ Cardinality(Reading) = 0 <=> Reading = {}
  /\ Cardinality(Queue) = 0 <=> Queue = {}
<1>1. IsFiniteSet(Threads)
  BY ConstantsAssumption
<1>2. Reading \in SUBSET Threads /\ Queue \in SUBSET Threads
  BY DEF Reading, Queue, At
<1>3. IsFiniteSet(Reading) /\ IsFiniteSet(Queue)
  BY <1>1, <1>2, FS_Subset
<1> QED BY <1>3, FS_CardinalityType, FS_EmptySet

\* A count follows its set when one thread joins or leaves it.
LEMMA Joined ==
  ASSUME NEW S, NEW t, IsFiniteSet(S), t \notin S
  PROVE  Cardinality(S \cup {t}) = Cardinality(S) + 1
BY FS_AddElement

\* The same for a thread that leaves.
LEMMA Left ==
  ASSUME NEW S, NEW t \in S, IsFiniteSet(S)
  PROVE  Cardinality(S \ {t}) = Cardinality(S) - 1
BY FS_RemoveElement

\* What the invariant says of a free lock.
LEMMA FreeLock ==
  ASSUME IInv
  PROVE  /\ writer = NoThread <=> \A t \in Threads : pc[t] # "writing"
         /\ readers = 0 <=> \A t \in Threads : pc[t] # "reading"
         /\ writers_queued = 0 <=> Queue = {}
<1>1. CountsAgree /\ TypeOK
  BY DEF IInv
<1>2. readers = Cardinality(Reading) /\ writers_queued = Cardinality(Queue) /\ WriterTold
  BY <1>1, Counts
<1>3. writer = NoThread <=> \A t \in Threads : pc[t] # "writing"
  BY <1>1, <1>2, ConstantsAssumption DEF TypeOK, WriterTold
<1>4. readers = 0 <=> \A t \in Threads : pc[t] # "reading"
  BY <1>2, Sizes DEF Reading, At
<1> QED BY <1>2, <1>3, <1>4, Sizes

-----------------------------------------------------------------------------
\* At first nobody is anywhere.
LEMMA InitIInv == Init => IInv
<1> SUFFICES ASSUME Init PROVE IInv
  OBVIOUS
<1> USE DEF Init
<1>1. TypeOK
  BY ConstantsAssumption DEF TypeOK, PC
<1>2. Reading = {} /\ Queue = {}
  BY DEF Reading, Queue, At
<1>3. WriterTold
  <2> SUFFICES ASSUME NEW t \in Threads PROVE writer # t /\ pc[t] # "writing"
    BY DEF WriterTold
  <2> QED BY ConstantsAssumption
<1>4. CountsAgree
  BY <1>2, <1>3, Counts, Sizes
<1>5. Exclusion /\ NoLostWakeup
  BY DEF Exclusion, NoLostWakeup, Sleeps
<1> QED BY <1>1, <1>4, <1>5 DEF IInv

\* A step that leaves the fields and the sets behind them alone.
LEMMA QuietStep ==
  ASSUME IInv, TypeOK', UNCHANGED <<writer, readers, writers_queued>>,
         Reading' = Reading, Queue' = Queue, At({"writing"})' = At({"writing"}),
         NoLostWakeup'
  PROVE  IInv'
<1>1. \A t \in Threads : /\ pc'[t] = "reading" <=> pc[t] = "reading"
                         /\ pc'[t] = "writing" <=> pc[t] = "writing"
  BY DEF Reading, At
<1>2. Exclusion'
  BY <1>1 DEF IInv, Exclusion
<1>3. CountsAgree'
  BY <1>1, Counts DEF IInv, WriterTold
<1> QED BY <1>2, <1>3 DEF IInv

\* Every step of every thread, and a stuttering step, preserves IInv.
LEMMA NextIInv == IInv /\ [Next]_vars => IInv'
<1> SUFFICES ASSUME IInv, [Next]_vars PROVE IInv'
  OBVIOUS
<1> USE DEF Goto
<1>0. /\ TypeOK /\ Exclusion /\ NoLostWakeup
      /\ readers = Cardinality(Reading) /\ writers_queued = Cardinality(Queue)
      /\ WriterTold
  BY Counts DEF IInv
<1>1. ASSUME NEW t \in Threads, ReadCall(t) \/ WriteCall(t) PROVE IInv'
  <2>1. TypeOK' /\ UNCHANGED <<writer, readers, writers_queued, current>>
    BY <1>0, <1>1 DEF ReadCall, WriteCall, TypeOK, PC
  <2>2. /\ Reading' = Reading /\ Queue' = Queue /\ At({"writing"})' = At({"writing"})
    BY <1>0, <1>1 DEF ReadCall, WriteCall, TypeOK, Reading, Queue, At
  <2>3. NoLostWakeup'
    BY <1>0, <1>1, <2>1 DEF ReadCall, WriteCall, TypeOK, NoLostWakeup, Sleeps, MayWrite
  <2> QED BY <2>1, <2>2, <2>3, QuietStep
\* Taking the lock to read, from rd_try or by a trylock.
<1>2. ASSUME NEW t \in Threads, NEW from \in {"rd_try", "idle"}, Goto(t, from, "reading"),
             MayRead, readers' = readers + 1,
             UNCHANGED <<writer, writers_queued, current, signals>>
      PROVE  IInv'
  <2>1. TypeOK'
    BY <1>0, <1>2 DEF TypeOK, PC
  <2>2. Reading' = Reading \cup {t} /\ t \notin Reading /\ Queue' = Queue
    BY <1>0, <1>2 DEF TypeOK, Reading, Queue, At
  <2>3. readers' = Cardinality(Reading')
    BY <1>0, <1>2, <2>2, Sizes, Joined
  <2>4. WriterTold'
    BY <1>0, <1>2 DEF TypeOK, WriterTold
  <2>5. CountsAgree'
    BY <1>0, <1>2, <2>2, <2>3, <2>4, Counts
  <2>6. Exclusion'
    BY <1>0, <1>2, FreeLock DEF TypeOK, Exclusion, MayRead
  <2>7. NoLostWakeup'
    BY <1>0, <1>2 DEF TypeOK, NoLostWakeup, Sleeps, MayRead, MayWrite
  <2> QED BY <2>1, <2>5, <2>6, <2>7 DEF IInv
<1>3. ASSUME NEW t \in Threads, ReadTry(t), ~MayRead PROVE IInv'
  <2>1. TypeOK' /\ UNCHANGED <<writer, readers, writers_queued>>
    BY <1>0, <1>3 DEF ReadTry, TypeOK, PC
  <2>2. /\ Reading' = Reading /\ Queue' = Queue /\ At({"writing"})' = At({"writing"})
    BY <1>0, <1>3 DEF ReadTry, TypeOK, Reading, Queue, At
  <2>3. NoLostWakeup'
    BY <1>0, <1>3 DEF ReadTry, TypeOK, NoLostWakeup, Sleeps, MayRead, MayWrite
  <2> QED BY <2>1, <2>2, <2>3, QuietStep
\* Taking the lock to write, from wrlock or by a trylock.
<1>4. ASSUME NEW t \in Threads, MayWrite, pc[t] \in {"wr_call", "wr_retry", "idle"},
             pc' = [pc EXCEPT ![t] = "writing"], writer' = t,
             writers_queued' = writers_queued - (IF pc[t] = "wr_retry" THEN 1 ELSE 0),
             UNCHANGED <<readers, current, signals>>
      PROVE  IInv'
  <2>1. /\ Reading' = Reading
        /\ Queue' = Queue \ {t} /\ (t \in Queue <=> pc[t] = "wr_retry")
    BY <1>0, <1>4 DEF TypeOK, Reading, Queue, At
  <2>2. writers_queued' = Cardinality(Queue')
    <3>1. CASE pc[t] = "wr_retry"
      BY <1>0, <1>4, <2>1, <3>1, Sizes, Left
    <3>2. CASE pc[t] # "wr_retry"
      <4>1. Queue' = Queue
        BY <2>1, <3>2
      <4> QED BY <1>0, <1>4, <3>2, <4>1, Sizes
    <3> QED BY <3>1, <3>2
  <2>3. writers_queued' \in Nat
    <3>1. IsFiniteSet(Queue')
      BY <2>1, Sizes, FS_RemoveElement
    <3> QED BY <2>2, <3>1, FS_CardinalityType
  <2>4. TypeOK'
    BY <1>0, <1>4, <2>3 DEF TypeOK, PC
  <2>5. \A s \in Threads : pc[s] \notin {"writing", "reading"}
    BY <1>4, FreeLock DEF MayWrite
  <2>6. WriterTold'
    BY <1>0, <1>4, <2>5 DEF TypeOK, WriterTold
  <2>7. CountsAgree'
    BY <1>0, <1>4, <2>1, <2>2, <2>6, Counts
  <2>8. Exclusion'
    BY <1>0, <1>4, <2>5 DEF TypeOK, Exclusion
  <2>9. NoLostWakeup'
    BY <1>4, ConstantsAssumption DEF NoLostWakeup, MayWrite
  <2> QED BY <2>4, <2>7, <2>8, <2>9 DEF IInv
<1>5. ASSUME NEW t \in Threads, WriteTry(t), ~MayWrite PROVE IInv'
  <2>1. /\ pc[t] \in {"wr_call", "wr_retry"} /\ pc' = [pc EXCEPT ![t] = "wr_wait"]
        /\ writers_queued' = Queued(t) /\ current' = current \cup {t}
        /\ UNCHANGED <<writer, readers, signals>>
    BY <1>5 DEF WriteTry
  <2>2. /\ Reading' = Reading /\ Queue' = Queue \cup {t}
        /\ (t \in Queue <=> pc[t] = "wr_retry")
    BY <1>0, <2>1 DEF TypeOK, Reading, Queue, At
  <2>3. writers_queued' = Cardinality(Queue')
    <3>1. CASE pc[t] = "wr_call"
      BY <1>0, <2>1, <2>2, <3>1, Sizes, Joined DEF Queued
    <3>2. CASE pc[t] = "wr_retry"
      <4>1. Queue' = Queue
        BY <2>2, <3>2
      <4> QED BY <1>0, <2>1, <3>2, <4>1, Sizes DEF Queued
    <3> QED BY <2>1, <3>1, <3>2
  <2>4. TypeOK'
    BY <1>0, <2>1 DEF TypeOK, PC, Queued
  <2>5. WriterTold'
    BY <1>0, <2>1 DEF TypeOK, WriterTold
  <2>6. CountsAgree'
    BY <1>0, <2>1, <2>2, <2>3, <2>5, Counts
  <2>7. Exclusion'
    BY <1>0, <2>1 DEF TypeOK, Exclusion
  <2>8. NoLostWakeup'
    BY <1>0, <1>5, <2>1 DEF TypeOK, NoLostWakeup, Sleeps, MayWrite, Queued
  <2> QED BY <2>4, <2>6, <2>7, <2>8 DEF IInv
<1>6. ASSUME NEW t \in Threads, FutexWait(t) \/ Interrupted(t) PROVE IInv'
  <2>1. TypeOK' /\ UNCHANGED <<writer, readers, writers_queued>>
    BY <1>0, <1>6, ConstantsAssumption DEF FutexWait, Interrupted, TypeOK, PC
  <2>2. /\ Reading' = Reading /\ Queue' = Queue /\ At({"writing"})' = At({"writing"})
    BY <1>0, <1>6 DEF FutexWait, Interrupted, TypeOK, Reading, Queue, At
  <2>3. NoLostWakeup'
    BY <1>0, <1>6 DEF FutexWait, Interrupted, TypeOK, NoLostWakeup, Sleeps, MayWrite
  <2> QED BY <2>1, <2>2, <2>3, QuietStep
<1>7. ASSUME NEW t \in Threads, Unlock(t), writer # NoThread PROVE IInv'
  <2>1. /\ pc[t] = "writing" /\ writer' = NoThread
        /\ UNCHANGED <<readers, writers_queued, signals>>
    <3>1. PICK w \in Threads : pc[w] = "writing"
      BY <1>7, FreeLock
    <3> QED BY <1>0, <1>7, <3>1 DEF Unlock, Exclusion
  <2>2. \A s \in Threads \ {t} : pc[s] \notin {"reading", "writing"}
    BY <1>0, <2>1 DEF Exclusion
  <2>3. CASE writers_queued > 0 /\ WakeWriter(t)
    <3>1. /\ TypeOK' /\ Reading' = Reading /\ Queue' = Queue
          /\ \A s \in Threads : pc'[s] \notin {"reading", "writing"}
      BY <1>0, <2>1, <2>2, <2>3 DEF WakeWriter, TypeOK, PC, Reading, Queue, At
    <3>2. CountsAgree' /\ Exclusion'
      BY <1>0, <2>1, <3>1, Counts, ConstantsAssumption DEF WriterTold, Exclusion
    <3>3. \E s \in Threads :
            pc'[s] = "wr_retry" \/ (pc'[s] = "wr_wait" /\ s \notin current')
      <4>1. PICK s \in Queue : TRUE
        BY <2>3, FreeLock
      <4> QED BY <1>0, <2>1, <2>3, <4>1 DEF WakeWriter, TypeOK, Queue, At
    <3>4. NoLostWakeup'
      BY <2>1, <2>3, <3>3 DEF NoLostWakeup
    <3> QED BY <3>1, <3>2, <3>4 DEF IInv
  <2>4. CASE writers_queued = 0 /\ WakeReaders(t)
    <3>1. /\ TypeOK' /\ Reading' = Reading /\ Queue' = Queue
          /\ \A s \in Threads : pc'[s] \notin {"reading", "writing"}
      BY <1>0, <2>1, <2>2, <2>4 DEF WakeReaders, TypeOK, PC, Reading, Queue, At
    <3>2. CountsAgree' /\ Exclusion'
      BY <1>0, <2>1, <3>1, Counts, ConstantsAssumption DEF WriterTold, Exclusion
    <3>3. NoLostWakeup'
      BY <1>0, <2>1, <2>4 DEF WakeReaders, TypeOK, NoLostWakeup, Sleeps, At
    <3> QED BY <3>1, <3>2, <3>3 DEF IInv
  <2> QED BY <1>0, <1>7, <2>3, <2>4 DEF Unlock, TypeOK
<1>8. ASSUME NEW t \in Threads, Unlock(t), writer = NoThread PROVE IInv'
  <2>1. pc[t] = "reading" /\ readers' = readers - 1
        /\ UNCHANGED <<writer, writers_queued, signals>>
    BY <1>7, <1>8, FreeLock DEF Unlock
  <2>2. t \in Reading /\ readers \in Nat /\ readers > 0
    BY <1>0, <2>1, Sizes DEF Reading, At
  <2>3. CASE LastReader /\ writers_queued > 0 /\ WakeWriter(t)
    <3>1. TypeOK' /\ Reading' = Reading \ {t} /\ Queue' = Queue
          /\ \A s \in Threads : pc'[s] = "writing" <=> pc[s] = "writing"
      BY <1>0, <2>1, <2>2, <2>3 DEF WakeWriter, TypeOK, PC, Reading, Queue, At
    <3>2. CountsAgree'
      BY <1>0, <2>1, <2>2, <3>1, Counts, Sizes, Left DEF WriterTold
    <3>3. Exclusion'
      BY <1>8, <3>1, FreeLock DEF Exclusion
    <3>4. \E s \in Threads :
            pc'[s] = "wr_retry" \/ (pc'[s] = "wr_wait" /\ s \notin current')
      <4>1. PICK s \in Queue : TRUE
        BY <2>3, FreeLock
      <4> QED BY <1>0, <2>1, <2>3, <4>1 DEF WakeWriter, TypeOK, Queue, At
    <3>5. NoLostWakeup'
      BY <2>1, <2>3, <3>4 DEF NoLostWakeup
    <3> QED BY <3>1, <3>2, <3>3, <3>5 DEF IInv
  <2>4. CASE /\ ~(LastReader /\ writers_queued > 0)
             /\ pc' = [pc EXCEPT ![t] = "idle"] /\ UNCHANGED current
    <3>1. TypeOK' /\ Reading' = Reading \ {t} /\ Queue' = Queue
          /\ \A s \in Threads : pc'[s] = "writing" <=> pc[s] = "writing"
      BY <1>0, <2>1, <2>2, <2>4 DEF TypeOK, PC, Reading, Queue, At
    <3>2. CountsAgree'
      BY <1>0, <2>1, <2>2, <3>1, Counts, Sizes, Left DEF WriterTold
    <3>3. Exclusion'
      BY <1>8, <3>1, FreeLock DEF Exclusion
    <3>4. NoLostWakeup'
      BY <1>0, <1>8, <2>1, <2>2, <2>4
         DEF TypeOK, NoLostWakeup, Sleeps, LastReader, MayWrite
    <3> QED BY <3>1, <3>2, <3>3, <3>4 DEF IInv
  <2> QED BY <1>8, <2>3, <2>4 DEF Unlock
<1>9. CASE UNCHANGED vars
  BY <1>0, <1>9, QuietStep
     DEF vars, TypeOK, Reading, Queue, At, NoLostWakeup, Sleeps, MayWrite
<1>10. ASSUME NEW t \in Threads, ReadTry(t) \/ TryRead(t) PROVE IInv'
  BY <1>2, <1>3, <1>10 DEF ReadTry, TryRead
<1>11. ASSUME NEW t \in Threads, WriteTry(t) \/ TryWrite(t) PROVE IInv'
  <2>1. CASE TryWrite(t)
    <3>1. /\ MayWrite /\ pc[t] = "idle" /\ pc' = [pc EXCEPT ![t] = "writing"]
          /\ writer' = t /\ UNCHANGED <<readers, writers_queued, current, signals>>
      BY <2>1 DEF TryWrite
    <3>2. writers_queued' = writers_queued - (IF pc[t] = "wr_retry" THEN 1 ELSE 0)
      BY <1>0, <3>1 DEF TypeOK
    <3> QED BY <1>4, <3>1, <3>2
  <2>2. CASE WriteTry(t) /\ MayWrite
    BY <1>0, <1>4, <2>2 DEF WriteTry, Queued, TypeOK
  <2> QED BY <1>5, <1>11, <2>1, <2>2
<1> QED
  BY <1>1, <1>6, <1>7, <1>8, <1>9, <1>10, <1>11 DEF Next, Section

\* The conjunction holds in every reachable state.
THEOREM Invariance == Spec => []IInv
BY InitIInv, NextIInv, PTL DEF Spec

\* Every variable has its type: no count goes below 0, no thread is lost.
THEOREM TypeCorrect == Spec => []TypeOK
<1>1. IInv => TypeOK
  BY DEF IInv
<1> QED BY <1>1, Invariance, PTL

\* A writer is alone, whatever the number of readers and writers.
THEOREM WriterAlone == Spec => []Exclusion
<1>1. IInv => Exclusion
  BY DEF IInv
<1> QED BY <1>1, Invariance, PTL

\* readers, writers_queued and writer say who is where.
THEOREM CountsTruthful == Spec => []CountsAgree
<1>1. IInv => CountsAgree
  BY DEF IInv
<1> QED BY <1>1, Invariance, PTL

\* No reader and no queued writer sleeps for want of a wake-up.
THEOREM WakeupKept == Spec => []NoLostWakeup
<1>1. IInv => NoLostWakeup
  BY DEF IInv
<1> QED BY <1>1, Invariance, PTL

-----------------------------------------------------------------------------
(* AbstractRwLock.  The places of the threads are its sets; IInv says that *)
(* the fields the code decides by tell the truth about them.               *)

Writing == At({"writing"})

\* What the guards of the code say about the sets.
LEMMA Guards ==
  ASSUME IInv
  PROVE  /\ MayRead <=> Writing = {} /\ Queue = {}
         /\ MayWrite <=> Reading = {} /\ Writing = {}
BY FreeLock DEF MayRead, MayWrite, Reading, Writing, At

\* The variables of the abstract lock.
LEMMA AbstractVars ==
  /\ Abs!vars = <<Reading, Writing, Queue>>
  /\ Abs!vars' = <<Reading', Writing', Queue'>>
BY DEF Abs!vars, Reading, Writing, Queue

\* A step after which everybody is where he was, as far as the abstract lock can tell.
LEMMA StutterRefines ==
  ASSUME Reading' = Reading, Writing' = Writing, Queue' = Queue
  PROVE  UNCHANGED Abs!vars
BY AbstractVars

\* Each step is a step of the abstract lock or none: an attempt that succeeds is Read
\* or Write, a writer's first that fails is Queue, an unlock is Release.
LEMMA StepRefines == IInv /\ [Next]_vars => [Abs!Next]_(Abs!vars)
<1> SUFFICES ASSUME IInv, [Next]_vars PROVE [Abs!Next]_(Abs!vars)
  OBVIOUS
<1>t. pc \in [Threads -> PC] /\ Exclusion
  BY DEF IInv, TypeOK
<1>1. ASSUME NEW t \in Threads,
             ReadCall(t) \/ WriteCall(t) \/ FutexWait(t) \/ Interrupted(t)
      PROVE  UNCHANGED Abs!vars
  <2>1. Reading' = Reading /\ Writing' = Writing /\ Queue' = Queue
    BY <1>t, <1>1
       DEF ReadCall, WriteCall, FutexWait, Interrupted, Goto, Reading, Writing, Queue, At
  <2> QED BY <2>1, StutterRefines
<1>2. ASSUME NEW t \in Threads, ReadTry(t) \/ TryRead(t) PROVE [Abs!Next]_(Abs!vars)
  <2>1. CASE MayRead /\ pc[t] \in {"idle", "rd_try"} /\ pc' = [pc EXCEPT ![t] = "reading"]
    <3>1. /\ t \notin Reading \cup Writing \cup Queue
          /\ Reading' = Reading \cup {t} /\ Writing' = Writing /\ Queue' = Queue
      BY <1>t, <2>1 DEF Reading, Writing, Queue, At
    <3>2. Writing = {} /\ Queue = {}
      BY <2>1, Guards
    <3>3. Abs!Read(t)
      BY <3>1, <3>2 DEF Abs!Read, Abs!Outside, Reading, Writing, Queue
    <3> QED BY <3>3 DEF Abs!Next
  <2>2. CASE pc[t] = "rd_try" /\ pc' = [pc EXCEPT ![t] = "rd_wait"]
    <3>1. Reading' = Reading /\ Writing' = Writing /\ Queue' = Queue
      BY <1>t, <2>2 DEF Reading, Writing, Queue, At
    <3> QED BY <3>1, StutterRefines
  <2> QED BY <1>2, <2>1, <2>2 DEF ReadTry, TryRead, Goto
<1>3. ASSUME NEW t \in Threads, WriteTry(t) \/ TryWrite(t) PROVE [Abs!Next]_(Abs!vars)
  <2>1. CASE /\ MayWrite /\ pc[t] \in {"idle", "wr_call", "wr_retry"}
             /\ pc' = [pc EXCEPT ![t] = "writing"]
    <3>1. Reading = {} /\ Writing = {}
      BY <2>1, Guards
    <3>2. /\ Reading' = Reading /\ Writing' = Writing \cup {t}
          /\ Queue' = Queue \ {t}
      BY <1>t, <2>1 DEF Reading, Writing, Queue, At
    <3>3. Abs!Write(t)
      BY <3>1, <3>2 DEF Abs!Write, Abs!Free, Reading, Writing, Queue
    <3> QED BY <3>3 DEF Abs!Next
  <2>2. CASE /\ ~MayWrite /\ pc[t] = "wr_call" /\ pc' = [pc EXCEPT ![t] = "wr_wait"]
    <3>1. Reading # {} \/ Writing # {}
      BY <2>2, Guards
    <3>2. /\ t \notin Reading \cup Writing \cup Queue
          /\ Reading' = Reading /\ Writing' = Writing /\ Queue' = Queue \cup {t}
      BY <1>t, <2>2 DEF Reading, Writing, Queue, At
    <3>3. Abs!Queue(t)
      BY <3>1, <3>2 DEF Abs!Queue, Abs!Free, Abs!Outside, Reading, Writing, Queue
    <3> QED BY <3>3 DEF Abs!Next
  <2>3. CASE pc[t] = "wr_retry" /\ pc' = [pc EXCEPT ![t] = "wr_wait"]
    <3>1. Reading' = Reading /\ Writing' = Writing /\ Queue' = Queue
      BY <1>t, <2>3 DEF Reading, Writing, Queue, At
    <3> QED BY <3>1, StutterRefines
  <2> QED BY <1>3, <2>1, <2>2, <2>3 DEF WriteTry, TryWrite, Goto
<1>4. ASSUME NEW t \in Threads, Unlock(t) PROVE [Abs!Next]_(Abs!vars)
  <2>1. t \in Reading \cup Writing
    BY <1>4 DEF Unlock, Reading, Writing, At
  <2>2. /\ Reading' = Reading \ {t} /\ Writing' = Writing \ {t}
        /\ Queue' = Queue
    <3>1. CASE WakeWriter(t)
      BY <1>t, <1>4, <3>1 DEF Unlock, WakeWriter, Reading, Writing, Queue, At
    <3>2. CASE WakeReaders(t)
      BY <1>t, <1>4, <3>2 DEF Unlock, WakeReaders, Reading, Writing, Queue, At
    <3>3. CASE pc' = [pc EXCEPT ![t] = "idle"]
      BY <1>t, <1>4, <3>3 DEF Unlock, Reading, Writing, Queue, At
    <3> QED BY <1>4, <3>1, <3>2, <3>3 DEF Unlock
  <2>3. Abs!Release(t)
    BY <2>1, <2>2 DEF Abs!Release, Reading, Writing, Queue
  <2> QED BY <2>3 DEF Abs!Next
<1>5. CASE UNCHANGED vars
  BY <1>5, StutterRefines DEF vars, Reading, Writing, Queue, At
<1> QED BY <1>1, <1>2, <1>3, <1>4, <1>5 DEF Next, Section

\* Every interleaving of critical sections, sleeps, wake-ups and signals is a behaviour
\* of the abstract lock: writers alone, and no reader past a queued writer.
THEOREM Refinement == Spec => ImplementsAbstractRwLock
<1>1. Init => Abs!Init
  <2> SUFFICES ASSUME Init PROVE Abs!Init
    OBVIOUS
  <2> QED BY DEF Init, Abs!Init, At
<1>2. Spec => Abs!Spec
  BY <1>1, StepRefines, Invariance, PTL DEF Spec, Abs!Spec
<1> QED BY <1>2 DEF ImplementsAbstractRwLock
=============================================================================
