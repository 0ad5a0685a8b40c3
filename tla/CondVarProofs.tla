---------------------------- MODULE CondVarProofs ----------------------------
(***************************************************************************)
(* Proofs about CondVar, for every finite set of threads, every set of     *)
(* mutexes and every bound.  The argument counts: waiters is the number of *)
(* threads inside the wait, the sleepers are among them, and a thread that *)
(* comes back gives up its place in the first count together with the      *)
(* signal it takes.                                                        *)
(***************************************************************************)
EXTENDS CondVar, FiniteSetTheorems, TLAPS

\* The inductive invariant.  NoLostBroadcast needs that only waiters are called, or a
\* thread could wait anew with a call left over; and OneMutex that a thread has a
\* mutex unless it is idle.
Inv ==
  /\ TypeOK
  /\ NoLostSignal
  /\ NoLostBroadcast
  /\ OneMutex
  /\ called \subseteq Waiting
  /\ \A t \in Threads : mine[t] = NoMutex <=> pc[t] = "idle"

\* Waiters are finitely many, and so are the sleepers, who are some of them.
LEMMA Counting ==
  ASSUME Inv
  PROVE  /\ IsFiniteSet(Waiting) /\ Cardinality(Waiting) \in Nat
         /\ Sleeping \subseteq Waiting
         /\ IsFiniteSet(Sleeping) /\ Cardinality(Sleeping) \in Nat
         /\ waiters = 0 <=> Waiting = {}
         /\ waiters \in Nat /\ signal_num \in Nat
<1>1. IsFiniteSet(Waiting) /\ IsFiniteSet(Sleeping)
  <2>1. Waiting \subseteq Threads /\ Sleeping \subseteq Threads
    BY DEF Waiting, At, Sleeping
  <2> QED BY <2>1, ConstantsAssumption, FS_Subset
<1>2. Cardinality(Waiting) \in Nat /\ Cardinality(Sleeping) \in Nat
  BY <1>1, FS_CardinalityType
<1>3. Sleeping \subseteq Waiting
  BY DEF Waiting, At, Sleeping
<1>4. waiters = 0 <=> Waiting = {}
  BY <1>1, FS_EmptySet DEF Inv, NoLostSignal
<1> QED BY <1>1, <1>2, <1>3, <1>4 DEF Inv, TypeOK

\* A step after which the same threads wait with the same mutexes, there are no more
\* signals, and nobody has gone to sleep, keeps the invariant.
LEMMA NobodyComesOrGoes ==
  ASSUME Inv, TypeOK', Waiting' = Waiting, Sleeping' \subseteq Sleeping,
         UNCHANGED <<mutex, waiters, signal_num, called>>,
         \A t \in Waiting : mine'[t] = mine[t],
         \A t \in Threads : mine'[t] = NoMutex <=> pc'[t] = "idle"
  PROVE  Inv'
<1>1. Cardinality(Sleeping') \in Nat /\ Cardinality(Sleeping') <= Cardinality(Sleeping)
  BY Counting, FS_Subset, FS_CardinalityType
<1>2. NoLostSignal'
  BY <1>1, Counting DEF Inv, NoLostSignal
<1> QED BY <1>2 DEF Inv, NoLostBroadcast, OneMutex

\* At first nobody waits.
LEMMA InitInv == Init => Inv
<1> SUFFICES ASSUME Init PROVE Inv
  OBVIOUS
<1>1. Waiting = {} /\ Sleeping = {}
  BY DEF Init, Waiting, At, Sleeping
<1>2. TypeOK
  BY ConstantsAssumption DEF Init, TypeOK, PC
<1>3. NoLostSignal
  BY <1>1, FS_EmptySet DEF Init, NoLostSignal
<1> QED BY <1>1, <1>2, <1>3 DEF Init, Inv, NoLostBroadcast, OneMutex

\* Every step keeps the invariant.
LEMMA NextInv == Inv /\ [Next]_vars => Inv'
<1> SUFFICES ASSUME Inv, [Next]_vars PROVE Inv'
  OBVIOUS
<1>t. TypeOK
  BY DEF Inv
<1>m. \A t \in Threads : mine[t] = NoMutex <=> pc[t] = "idle"
  BY DEF Inv
<1>1. ASSUME NEW t \in Threads, Lock(t) PROVE Inv'
  <2>1. PICK m \in Mutexes : /\ owner' = [owner EXCEPT ![m] = t]
                             /\ mine' = [mine EXCEPT ![t] = m]
                             /\ pc[t] = "idle" /\ pc' = [pc EXCEPT ![t] = "in"]
                             /\ UNCHANGED <<cond, bounds>>
    BY <1>1 DEF Lock, Goto
  <2>2. TypeOK'
    BY <1>t, <2>1 DEF TypeOK, PC, cond
  <2>3. Waiting' = Waiting /\ Sleeping' = Sleeping
    BY <1>t, <2>1 DEF TypeOK, Waiting, At, Sleeping, cond
  <2>4. \A u \in Waiting : mine'[u] = mine[u]
    BY <1>t, <2>1 DEF TypeOK, Waiting, At
  <2>5. \A u \in Threads : mine'[u] = NoMutex <=> pc'[u] = "idle"
    BY <1>t, <1>m, <2>1, ConstantsAssumption DEF TypeOK
  <2> QED BY <2>1, <2>2, <2>3, <2>4, <2>5, NobodyComesOrGoes DEF cond
<1>2. ASSUME NEW t \in Threads, Unlock(t) PROVE Inv'
  <2>1. /\ owner' = [owner EXCEPT ![mine[t]] = NoThread]
        /\ mine' = [mine EXCEPT ![t] = NoMutex]
        /\ pc[t] = "in" /\ pc' = [pc EXCEPT ![t] = "idle"]
        /\ UNCHANGED <<cond, bounds>>
    BY <1>2 DEF Unlock, Goto
  <2>2. TypeOK'
    BY <1>t, <2>1 DEF TypeOK, PC, cond
  <2>3. Waiting' = Waiting /\ Sleeping' = Sleeping
    BY <1>t, <2>1 DEF TypeOK, Waiting, At, Sleeping, cond
  <2>4. \A u \in Waiting : mine'[u] = mine[u]
    BY <1>t, <2>1 DEF TypeOK, Waiting, At
  <2>5. \A u \in Threads : mine'[u] = NoMutex <=> pc'[u] = "idle"
    BY <1>t, <1>m, <2>1 DEF TypeOK
  <2> QED BY <2>1, <2>2, <2>3, <2>4, <2>5, NobodyComesOrGoes DEF cond
<1>3. ASSUME NEW t \in Threads, Signal(t) PROVE Inv'
  <2>1. /\ bounds.posts > 0 /\ bounds' = [bounds EXCEPT !.posts = @ - 1]
        /\ signal_num' = signal_num + 1 /\ waiters # signal_num
        /\ UNCHANGED <<mutex, waiters, called, owner, mine>>
    BY <1>3 DEF Signal, AllSignalled
  <2>2. PICK S \in SUBSET At({"asleep"}) :
          /\ Wake(S)
          /\ S = {} => At({"asleep"}) = {}
    <3>1. CASE At({"asleep"}) = {}
      BY <1>3, <3>1 DEF Signal
    <3>2. CASE At({"asleep"}) # {}
      <4>1. PICK s \in At({"asleep"}) : Wake({s})
        BY <1>3, <3>2 DEF Signal
      <4> QED BY <4>1
    <3> QED BY <3>1, <3>2
  <2>3. /\ pc' = [u \in Threads |-> IF u \in S THEN "w_check" ELSE pc[u]]
        /\ fresh' = {}
        /\ \A u \in S : u \in Threads /\ pc[u] = "asleep"
    BY <2>2 DEF Wake, At
  <2>4. TypeOK'
    <3>1. bounds' \in [posts : 0 .. MaxPosts, signals : 0 .. MaxSignals]
      BY <1>t, <2>1, ConstantsAssumption DEF TypeOK
    <3>2. pc' \in [Threads -> PC]
      BY <1>t, <2>3 DEF TypeOK, PC
    <3> QED BY <1>t, <2>1, <2>3, <3>1, <3>2 DEF TypeOK
  <2>5. Waiting' = Waiting /\ Sleeping' = At({"asleep"}) \ S
    BY <1>t, <2>3 DEF TypeOK, Waiting, At, Sleeping
  <2>6. At({"asleep"}) \subseteq Sleeping
    BY DEF At, Sleeping
  <2>7. NoLostSignal'
    <3>0. /\ signal_num + Cardinality(Sleeping) <= waiters
          /\ waiters = Cardinality(Waiting)
      BY DEF Inv, NoLostSignal
    <3>1. CASE S = {}
      <4>1. Sleeping' = {}
        BY <2>2, <2>5, <3>1
      <4>2. Cardinality(Sleeping') = 0
        BY <4>1, FS_EmptySet
      <4> QED BY <2>1, <2>5, <3>0, <4>2, Counting DEF NoLostSignal
    <3>2. CASE S # {}
      <4>1. PICK s \in S : TRUE
        BY <3>2
      <4>2. s \in Sleeping /\ Sleeping' \subseteq Sleeping \ {s}
        BY <2>5, <2>6, <4>1
      <4>3. /\ IsFiniteSet(Sleeping \ {s})
            /\ Cardinality(Sleeping \ {s}) = Cardinality(Sleeping) - 1
        BY <4>2, Counting, FS_RemoveElement
      <4>4. /\ Cardinality(Sleeping') \in Nat
            /\ Cardinality(Sleeping') <= Cardinality(Sleeping) - 1
        BY <4>2, <4>3, FS_Subset, FS_CardinalityType
      <4> QED BY <2>1, <2>5, <3>0, <4>4, Counting DEF NoLostSignal
    <3> QED BY <3>1, <3>2
  <2>8. \A u \in Threads : pc'[u] = "idle" <=> pc[u] = "idle"
    BY <1>t, <2>3 DEF TypeOK
  <2> QED BY <2>1, <2>4, <2>5, <2>6, <2>7, <2>8
          DEF Inv, NoLostBroadcast, OneMutex
<1>4. ASSUME NEW t \in Threads, Broadcast(t) PROVE Inv'
  <2>1. /\ bounds.posts > 0 /\ bounds' = [bounds EXCEPT !.posts = @ - 1]
        /\ called' = Waiting /\ fresh' = {}
        /\ pc' = [u \in Threads |-> IF u \in At({"asleep"}) THEN "w_check" ELSE pc[u]]
        /\ UNCHANGED <<mutex, waiters, signal_num, owner, mine>>
    BY <1>4 DEF Broadcast, Wake
  <2>2. TypeOK'
    <3>1. bounds' \in [posts : 0 .. MaxPosts, signals : 0 .. MaxSignals]
      BY <1>t, <2>1, ConstantsAssumption DEF TypeOK
    <3>2. pc' \in [Threads -> PC]
      BY <1>t, <2>1 DEF TypeOK, PC
    <3> QED BY <1>t, <2>1, <3>1, <3>2 DEF TypeOK, Waiting, At
  <2>3. Waiting' = Waiting /\ Sleeping' = {}
    BY <1>t, <2>1 DEF TypeOK, Waiting, At, Sleeping
  <2>4. NoLostSignal'
    <3>1. Cardinality(Sleeping') = 0
      BY <2>3, FS_EmptySet
    <3> QED BY <2>1, <2>3, <3>1, Counting DEF Inv, NoLostSignal
  <2>5. \A u \in Threads : pc'[u] = "idle" <=> pc[u] = "idle"
    BY <1>t, <2>1 DEF TypeOK, At
  <2> QED BY <2>1, <2>2, <2>3, <2>4, <2>5 DEF Inv, NoLostBroadcast, OneMutex
<1>5. ASSUME NEW t \in Threads, Wait(t) PROVE Inv'
  <2>1. /\ pc[t] = "in" /\ pc' = [pc EXCEPT ![t] = "w_futex"]
        /\ mutex \in {NoMutex, mine[t]} /\ mutex' = mine[t]
        /\ owner' = [owner EXCEPT ![mine[t]] = NoThread]
        /\ waiters' = waiters + 1 /\ fresh' = fresh \cup {t}
        /\ UNCHANGED <<signal_num, called, mine, bounds>>
    BY <1>5 DEF Wait, Goto
  <2>2. TypeOK'
    <3>1. mine[t] \in Mutexes
      BY <1>t, <1>m, <2>1 DEF TypeOK
    <3>2. waiters' \in Nat /\ pc' \in [Threads -> PC] /\ fresh' \subseteq Threads
      BY <1>t, <2>1 DEF TypeOK, PC
    <3>3. owner' \in [Mutexes -> Threads \cup {NoThread}]
      BY <1>t, <2>1, <3>1 DEF TypeOK
    <3> QED BY <1>t, <2>1, <3>1, <3>2, <3>3 DEF TypeOK
  <2>3. /\ t \notin Waiting /\ t \notin Sleeping
        /\ Waiting' = Waiting \cup {t} /\ Sleeping' = Sleeping \cup {t}
    BY <1>t, <2>1 DEF TypeOK, Waiting, At, Sleeping
  <2>4. NoLostSignal'
    <3>1. /\ Cardinality(Waiting') = Cardinality(Waiting) + 1
          /\ Cardinality(Sleeping') = Cardinality(Sleeping) + 1
      BY <2>3, Counting, FS_AddElement
    <3> QED BY <2>1, <3>1, Counting DEF Inv, NoLostSignal
  <2>5. OneMutex'
    BY <1>m, <2>1, <2>3 DEF Inv, OneMutex
  <2>6. \A u \in Threads : pc'[u] = "idle" <=> pc[u] = "idle"
    BY <1>t, <2>1 DEF TypeOK
  <2> QED BY <2>1, <2>2, <2>3, <2>4, <2>5, <2>6 DEF Inv, NoLostBroadcast
<1>6. ASSUME NEW t \in Threads, NEW m \in Mutexes, WaitRefused(t, m) PROVE Inv'
  <2>1. /\ mutex' = Bound(IF mutex = NoMutex THEN m ELSE mutex, waiters)
        /\ UNCHANGED <<waiters, signal_num, fresh, called, owner, mine, pc, bounds>>
    BY <1>6 DEF WaitRefused
  <2>2. Waiting' = Waiting /\ Sleeping' = Sleeping
    BY <2>1 DEF Waiting, At, Sleeping
  <2>3. mutex' = mutex
    BY <2>1, Counting DEF Inv, OneMutex, Bound
  <2>4. TypeOK'
    BY <1>t, <2>1, <2>3 DEF TypeOK
  <2> QED BY <1>m, <2>1, <2>2, <2>3, <2>4, NobodyComesOrGoes
<1>7. ASSUME NEW t \in Threads, FutexWait(t) \/ Interrupted(t) PROVE Inv'
  <2>1. /\ pc[t] \in {"w_futex", "asleep"}
        /\ \E to \in {"w_futex", "asleep", "w_check"} : pc' = [pc EXCEPT ![t] = to]
        /\ UNCHANGED <<cond, owner, mine>>
    BY <1>7 DEF FutexWait, Interrupted, Goto
  <2>2. bounds' \in [posts : 0 .. MaxPosts, signals : 0 .. MaxSignals]
    BY <1>t, <1>7, ConstantsAssumption DEF TypeOK, FutexWait, Interrupted
  <2>3. TypeOK'
    BY <1>t, <2>1, <2>2 DEF TypeOK, PC, cond
  <2>4. Waiting' = Waiting
    BY <1>t, <2>1 DEF TypeOK, Waiting, At
  <2>5. Sleeping' \subseteq Sleeping
    <3>1. CASE FutexWait(t)
      BY <1>t, <3>1 DEF TypeOK, Sleeping, FutexWait, Goto, cond
    <3>2. CASE Interrupted(t)
      BY <1>t, <3>2 DEF TypeOK, Sleeping, Interrupted, Goto, cond
    <3> QED BY <1>7, <3>1, <3>2
  <2>6. \A u \in Threads : pc'[u] = "idle" <=> pc[u] = "idle"
    BY <1>t, <2>1 DEF TypeOK
  <2> QED BY <1>m, <2>1, <2>3, <2>4, <2>5, <2>6, NobodyComesOrGoes DEF cond
<1>8. ASSUME NEW t \in Threads, Check(t), signal_num > 0 \/ t \in called PROVE Inv'
  <2>1. /\ pc[t] = "w_check" /\ pc' = [pc EXCEPT ![t] = "relock"]
        /\ signal_num' = IF signal_num > 0 THEN signal_num - 1 ELSE 0
        /\ waiters' = waiters - 1
        /\ mutex' = Bound(mutex, waiters - 1)
        /\ fresh' = fresh \ {t} /\ called' = called \ {t}
        /\ UNCHANGED <<owner, mine, bounds>>
    BY <1>8 DEF Check, MayReturn, SignalsLeft
  <2>2. /\ t \in Waiting /\ t \notin Sleeping
        /\ Waiting' = Waiting \ {t} /\ Sleeping' = Sleeping
    BY <1>t, <2>1 DEF TypeOK, Waiting, At, Sleeping
  <2>3. /\ IsFiniteSet(Waiting')
        /\ Cardinality(Waiting') \in Nat
        /\ Cardinality(Waiting') = Cardinality(Waiting) - 1
        /\ Cardinality(Sleeping') = Cardinality(Sleeping)
    BY <2>2, Counting, FS_RemoveElement, FS_CardinalityType
  <2>4. waiters' \in Nat /\ waiters' = Cardinality(Waiting')
    BY <2>1, <2>3 DEF Inv, NoLostSignal
  <2>5. Cardinality(Sleeping') <= Cardinality(Waiting')
    BY <2>2, <2>3, Counting, FS_Subset
  <2>6. NoLostSignal'
    BY <2>1, <2>3, <2>4, <2>5, Counting DEF Inv, NoLostSignal
  <2>7. mutex' = (IF Waiting' = {} THEN NoMutex ELSE mutex)
    BY <2>1, <2>3, <2>4, FS_EmptySet DEF Bound
  <2>8. OneMutex'
    BY <2>1, <2>2, <2>7 DEF Inv, OneMutex
  <2>9. TypeOK'
    BY <1>t, <2>1, <2>4, <2>7 DEF TypeOK, PC
  <2>10. \A u \in Threads : pc'[u] = "idle" <=> pc[u] = "idle"
    BY <1>t, <2>1 DEF TypeOK
  <2> QED BY <1>m, <2>1, <2>2, <2>6, <2>8, <2>9, <2>10 DEF Inv, NoLostBroadcast
<1>9. ASSUME NEW t \in Threads, Check(t), ~ (signal_num > 0 \/ t \in called)
      PROVE  Inv'
  <2>1. /\ pc[t] = "w_check" /\ pc' = [pc EXCEPT ![t] = "w_futex"]
        /\ UNCHANGED <<cond, owner, mine, bounds>>
    BY <1>9 DEF Check, MayReturn
  <2>2. /\ Waiting' = Waiting /\ Sleeping' \subseteq Waiting'
        /\ Sleeping' \subseteq Sleeping \cup {t}
    BY <1>t, <2>1 DEF TypeOK, Waiting, At, Sleeping, cond
  <2>3. Cardinality(Sleeping') \in Nat /\ Cardinality(Sleeping') <= Cardinality(Waiting)
    BY <2>2, Counting, FS_Subset, FS_CardinalityType
  <2>4. signal_num = 0
    BY <1>9, Counting
  <2>5. NoLostSignal'
    BY <2>1, <2>2, <2>3, <2>4 DEF Inv, NoLostSignal, cond
  <2>6. NoLostBroadcast'
    BY <1>9, <2>1, <2>2 DEF Inv, NoLostBroadcast, cond
  <2>7. TypeOK'
    BY <1>t, <2>1 DEF TypeOK, PC, cond
  <2>8. \A u \in Threads : pc'[u] = "idle" <=> pc[u] = "idle"
    BY <1>t, <2>1 DEF TypeOK
  <2> QED BY <1>m, <2>1, <2>2, <2>5, <2>6, <2>7, <2>8 DEF Inv, OneMutex, cond
<1>10. ASSUME NEW t \in Threads, Relock(t) PROVE Inv'
  <2>1. /\ pc[t] = "relock" /\ pc' = [pc EXCEPT ![t] = "in"]
        /\ owner' = [owner EXCEPT ![mine[t]] = t]
        /\ UNCHANGED <<cond, mine, bounds>>
    BY <1>10 DEF Relock, Goto
  <2>2. TypeOK'
    BY <1>t, <2>1 DEF TypeOK, PC, cond
  <2>3. Waiting' = Waiting /\ Sleeping' = Sleeping
    BY <1>t, <2>1 DEF TypeOK, Waiting, At, Sleeping, cond
  <2>4. \A u \in Threads : pc'[u] = "idle" <=> pc[u] = "idle"
    BY <1>t, <2>1 DEF TypeOK
  <2> QED BY <1>m, <2>1, <2>2, <2>3, <2>4, NobodyComesOrGoes DEF cond
<1>11. CASE UNCHANGED vars
  BY <1>11 DEF vars, cond, Inv, TypeOK, NoLostSignal, NoLostBroadcast, OneMutex,
               Waiting, Sleeping, At
<1> QED
  BY <1>1, <1>2, <1>3, <1>4, <1>5, <1>6, <1>7, <1>8, <1>9, <1>10, <1>11 DEF Next

\* The invariant holds in every reachable state.
THEOREM Invariance == Spec => []Inv
<1> QED BY InitInv, NextInv, PTL DEF Spec

\* Every variable keeps its type, the counters of tbthread_cond_t included: neither is
\* ever decremented below zero.
THEOREM TypeCorrect == Spec => []TypeOK
<1>1. Inv => TypeOK
  BY DEF Inv
<1> QED BY <1>1, Invariance, PTL

\* No signal is lost: for every signal that nobody has come back on there is a waiter
\* that is awake and will look at it.
THEOREM SignalKept == Spec => []NoLostSignal
<1>1. Inv => NoLostSignal
  BY DEF Inv
<1> QED BY <1>1, Invariance, PTL

\* No broadcast is lost: none of the threads it was for sleeps on.
THEOREM BroadcastKept == Spec => []NoLostBroadcast
<1>1. Inv => NoLostBroadcast
  BY DEF Inv
<1> QED BY <1>1, Invariance, PTL

\* All waiters of a condition variable use one mutex, and the condition variable is
\* bound to it exactly as long as there is a waiter.
THEOREM MutexShared == Spec => []OneMutex
<1>1. Inv => OneMutex
  BY DEF Inv
<1> QED BY <1>1, Invariance, PTL

-----------------------------------------------------------------------------
(* AbstractCond.  Its variables are what the critical sections agree on;   *)
(* the sleeps, the futex word and the signals of the kernel are hidden.    *)

\* The instance counts as the library does.
LEMMA SameCount == \A S : Abs!Cardinality(S) = Cardinality(S)
BY DEF Abs!Cardinality, Cardinality

\* A step after which the same threads wait, with the same signals and broadcasts.
LEMMA StutterRefines ==
  ASSUME Waiting' = Waiting, UNCHANGED <<called, signal_num>>
  PROVE  UNCHANGED Abs!vars
BY DEF Abs!vars

\* Each step is a step of the abstract condition variable or none; a wait that goes
\* round its loop is none.
LEMMA StepRefines == Inv /\ [Next]_vars => [Abs!Next]_(Abs!vars)
<1> SUFFICES ASSUME Inv, [Next]_vars PROVE [Abs!Next]_(Abs!vars)
  OBVIOUS
<1>t. TypeOK
  BY DEF Inv
<1>1. ASSUME NEW t \in Threads,
             \/ Lock(t) \/ Unlock(t) \/ FutexWait(t) \/ Interrupted(t) \/ Relock(t)
             \/ \E m \in Mutexes : WaitRefused(t, m)
      PROVE  UNCHANGED Abs!vars
  <2>1. UNCHANGED <<called, signal_num>>
    BY <1>1 DEF Lock, Unlock, FutexWait, Interrupted, Relock, WaitRefused, cond
  <2>2. Waiting' = Waiting
    BY <1>t, <1>1 DEF Lock, Unlock, FutexWait, Interrupted, Relock, WaitRefused, Goto,
                      TypeOK, Waiting, At
  <2> QED BY <2>1, <2>2, StutterRefines
<1>2. ASSUME NEW t \in Threads, Signal(t) PROVE Abs!Signal
  <2>1. PICK S \in SUBSET At({"asleep"}) : Wake(S)
    <3>1. CASE At({"asleep"}) = {}
      BY <1>2, <3>1 DEF Signal
    <3>2. CASE At({"asleep"}) # {}
      <4>1. PICK s \in At({"asleep"}) : Wake({s})
        BY <1>2, <3>2 DEF Signal
      <4> QED BY <4>1
    <3> QED BY <3>1, <3>2
  <2>2. Waiting' = Waiting
    BY <1>t, <2>1 DEF Wake, TypeOK, Waiting, At
  <2>3. signal_num' = signal_num + 1 /\ UNCHANGED called /\ waiters # signal_num
    BY <1>2 DEF Signal, AllSignalled
  <2>4. signal_num < Cardinality(Waiting)
    BY <2>3, Counting DEF Inv, NoLostSignal
  <2> QED BY <2>2, <2>3, <2>4, SameCount DEF Abs!Signal
<1>3. ASSUME NEW t \in Threads, Broadcast(t) PROVE Abs!Broadcast
  <2>1. Waiting' = Waiting
    BY <1>t, <1>3 DEF Broadcast, Wake, TypeOK, Waiting, At
  <2> QED BY <1>3, <2>1 DEF Broadcast, Abs!Broadcast
<1>4. ASSUME NEW t \in Threads, Wait(t) PROVE Abs!Wait(t)
  <2>1. t \notin Waiting /\ Waiting' = Waiting \cup {t}
    BY <1>t, <1>4 DEF Wait, Goto, TypeOK, Waiting, At
  <2> QED BY <1>4, <2>1 DEF Wait, Abs!Wait
<1>5. ASSUME NEW t \in Threads, Check(t) PROVE [Abs!Next]_(Abs!vars)
  <2>1. CASE MayReturn(t)
    <3>1. t \in Waiting /\ Waiting' = Waiting \ {t}
      BY <1>t, <1>5, <2>1 DEF Check, TypeOK, Waiting, At
    <3>2. called' = called \ {t} /\ signal_num' = SignalsLeft(t)
      BY <1>5, <2>1 DEF Check
    <3>3. Abs!Return(t)
      BY <1>t, <2>1, <3>1, <3>2 DEF TypeOK, MayReturn, SignalsLeft, Abs!Return
    <3> QED BY <3>3 DEF Abs!Next
  <2>2. CASE ~MayReturn(t)
    <3>1. Waiting' = Waiting
      BY <1>t, <1>5, <2>2 DEF Check, TypeOK, Waiting, At
    <3> QED BY <1>5, <2>2, <3>1, StutterRefines DEF Check, cond
  <2> QED BY <2>1, <2>2
<1>6. CASE UNCHANGED vars
  BY <1>6, StutterRefines DEF vars, cond, Waiting, At
<1> QED BY <1>1, <1>2, <1>3, <1>4, <1>5, <1>6 DEF Next, Abs!Next

\* No wait returns but for a signal or a broadcast, each signal ends one wait, and none
\* is left over when its waiters are gone, wherever the sleeps and wake-ups fall.
THEOREM Refinement == Spec => ImplementsAbstractCond
<1>1. Init => Abs!Init
  <2> SUFFICES ASSUME Init PROVE Abs!Init
    OBVIOUS
  <2> QED BY DEF Init, Abs!Init, Waiting, At
<1>2. Spec => Abs!Spec
  BY <1>1, StepRefines, Invariance, PTL DEF Spec, Abs!Spec
<1> QED BY <1>2 DEF ImplementsAbstractCond
=============================================================================
