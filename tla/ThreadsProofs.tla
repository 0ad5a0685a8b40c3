--------------------------- MODULE ThreadsProofs ----------------------------
(***************************************************************************)
(* Proofs about the life of threads and their descriptors (module          *)
(* Threads), for any number of threads, creators and descriptors.  Nothing *)
(* is assumed of the order of steps or of what the environment does.       *)
(*                                                                         *)
(* Everything follows from one inductive invariant, AllInv, which says for *)
(* every actor what it may assume of the descriptor it works on.  What     *)
(* concerns the lists and what every place keeps in the locals holds       *)
(* always; the rest holds of the descriptors that are Sound: nothing on    *)
(* them came too early (Threads.spoiled), and what happens to the others   *)
(* does not reach them.                                                    *)
(***************************************************************************)
EXTENDS Threads, FiniteSetTheorems, SequenceTheorems, TLAPS

Sound(d) == d \notin spoiled

-----------------------------------------------------------------------------
(* What an actor is doing to the descriptor obj[a].                        *)

Waiting(a) == pc[a] \in WaitPlaces

\* It has taken the descriptor out of free_desc or malloc and waits for, or has seen,
\* the end of the thread that used it last.
Hand(a) == pc[a] = "c_add" \/ (Waiting(a) /\ after[a] = "c_add")

\* It has put it into used_desc, and no thread was cloned on it.
Fresh(a) ==
  \/ pc[a] \in {"c_init", "c_clone"}
  \/ pc[a] = "c_release" /\ after[a] = "c_add" /\ obj[a] # NoDesc

\* It owns the descriptor for writing.
Owning(a) == pc[a] = "c_add" \/ Fresh(a)

\* It has cloned the thread saved[a], which is not yet free to run.
Cloned(a) == pc[a] \in {"c_tid", "c_sched"} \/ (pc[a] = "c_wake" /\ after[a] = "c_release")

\* It could not set the scheduler of saved[a] and waits for its end.
Failed(a) == after[a] = "c_release" /\ (Waiting(a) \/ pc[a] = "c_release")

Parent(a) == Cloned(a) \/ Failed(a)

Joining(a) == after[a] = "j_release" /\ (Waiting(a) \/ pc[a] = "j_release")

Starting == {"new", "start", "start_wait", "start_asleep"}
Ended == {"exit_cs", "exit_release", "kernel_exit", "kernel_wake", "dead"}

-----------------------------------------------------------------------------
(* The inductive invariant                                                 *)

\* Where wait_for_thread returns to is where the call has to go, and who is in no call
\* holds no descriptor.
PlaceKnown(a) ==
  /\ pc[a] \notin WaitPlaces \cup {"c_wake", "c_release", "j_release", "crashed"} =>
       after[a] = "c_add"
  /\ pc[a] \in {"c_wake", "c_release"} => after[a] \in {"c_add", "c_release"}
  /\ pc[a] = "j_release" => after[a] = "j_release"
  /\ pc[a] \in ThreadPlaces => obj[a] = NoDesc

PlacesInv ==
  /\ pc[Main] \notin ThreadPlaces \ {"run"}
  /\ \A a \in Actors : PlaceKnown(a)

\* Each descriptor is in one place.
Accounted == allocated = used \cup FreeSet \cup {d \in Descs : \E a \in Actors : InHand(a, d)}

Distinct ==
  /\ used \cap FreeSet = {}
  /\ \A i, j \in DOMAIN free : free[i] = free[j] => i = j

Held(a) == obj[a] # NoDesc => obj[a] \in allocated

HandApart(a) ==
  Hand(a) => /\ obj[a] \in Descs
             /\ obj[a] \notin used \cup FreeSet
             /\ \A b \in Actors : Hand(b) /\ obj[b] = obj[a] => b = a

\* What a call still has to release is in used_desc.
Listed(a) == Sound(obj[a]) /\ (Fresh(a) \/ Failed(a) \/ Joining(a)) => obj[a] \in used

ListsInv ==
  /\ Accounted
  /\ Distinct
  /\ \A a \in Actors : Held(a) /\ HandApart(a) /\ Listed(a)

OnDescriptor(t) ==
  /\ pc[t] = "none" => self[t] = NoDesc
  /\ pc[t] # "none" => self[t] \in allocated

AloneOn(t) ==
  Alive(t) /\ Sound(self[t]) => \A u \in Tids : Alive(u) /\ self[u] = self[t] => u = t

InUse(t) == Alive(t) /\ pc[t] # "kernel_exit" /\ Sound(self[t]) => self[t] \in used

\* Its tid is there from the store of the child or that of the parent.
TidStored(t) ==
  Alive(t) /\ Sound(self[t]) =>
    \/ tid[self[t]] = t
    \/ pc[t] = "new" /\ \E a \in Actors : pc[a] = "c_tid" /\ saved[a] = t

ThreadsInv ==
  \A t \in Tids : OnDescriptor(t) /\ AloneOn(t) /\ InUse(t) /\ TidStored(t)

\* The kernel's word names a thread of the descriptor, which runs.
TidInv ==
  \A d \in Descs : tid[d] # NoTid => self[tid[d]] = d /\ (Sound(d) => Alive(tid[d]))

OwnsAlone(a) ==
  Owning(a) /\ Sound(obj[a]) => \A t \in Tids : self[t] = obj[a] => ~Alive(t)

\* wait_for_thread waits for the thread that runs there, if one does.
WaitsForLast(a) ==
  Hand(a) /\ pc[a] \in {"w_futex", "w_asleep"} /\ Sound(obj[a]) =>
    \A t \in Tids : self[t] = obj[a] /\ Alive(t) => saved[a] = t

FreshAlone(a) ==
  Fresh(a) /\ Sound(obj[a]) => \A b \in Actors : Fresh(b) /\ obj[b] = obj[a] => b = a

NoHandle(a) ==
  (Hand(a) \/ Fresh(a)) /\ Sound(obj[a]) => \A t \in handles : self[t] # obj[a]

ParentOf(a) ==
  Parent(a) => /\ saved[a] \in Tids
               /\ obj[a] \in Descs
               /\ self[saved[a]] = obj[a]

ParentAlone(a) ==
  Parent(a) /\ Sound(obj[a]) => \A b \in Actors : Parent(b) /\ saved[b] = saved[a] => b = a

\* The child does not end before its parent has stored its tid.
ChildAlive(a) == pc[a] = "c_tid" /\ Sound(obj[a]) => Alive(saved[a])

\* A child that was not started is released by nobody but its parent.
ChildKept(a) ==
  Cloned(a) /\ start_status[obj[a]] # "ok" /\ Sound(obj[a]) =>
    saved[a] \in handles /\ obj[a] \in used

ChildFailed(a) ==
  Sound(obj[a]) =>
    /\ Failed(a) => saved[a] \in handles
    /\ pc[a] = "c_release" /\ after[a] = "c_release" => ~Alive(saved[a])

CreateInv ==
  \A a \in Actors :
    /\ OwnsAlone(a) /\ WaitsForLast(a) /\ FreshAlone(a) /\ NoHandle(a)
    /\ ParentOf(a) /\ ParentAlone(a) /\ ChildAlive(a) /\ ChildKept(a) /\ ChildFailed(a)

JoinsTarget(a) ==
  Joining(a) /\ Sound(obj[a]) =>
    /\ target[a] \in handles
    /\ self[target[a]] = obj[a]
    /\ pc[target[a]] # "exit_release"

\* Nobody else joins, detaches or restarts it.
JoinFields(a) ==
  Joining(a) /\ Sound(obj[a]) =>
    /\ join_status[obj[a]] = "fixed"
    /\ joiner[obj[a]] # NoDesc
    /\ start_status[obj[a]] = "ok"

JoinsAlone(a) ==
  Joining(a) /\ Sound(obj[a]) =>
    /\ \A b \in Actors : Joining(b) /\ obj[b] = obj[a] => b = a
    /\ \A b \in Actors : Parent(b) => saved[b] # target[a]

JoinWaits(a) ==
  Joining(a) /\ Sound(obj[a]) =>
    /\ pc[a] \in {"w_futex", "w_asleep"} => saved[a] = target[a]
    /\ pc[a] = "j_release" => ~Alive(target[a])

JoinInv == \A a \in Actors : JoinsTarget(a) /\ JoinFields(a) /\ JoinsAlone(a) /\ JoinWaits(a)

HandleAlone(t) ==
  /\ pc[t] # "none"
  /\ Sound(self[t]) => /\ \A u \in handles : self[u] = self[t] => u = t
                       /\ \A u \in Tids : Alive(u) /\ self[u] = self[t] => u = t

HandleEnded(t) ==
  pc[t] \in Ended /\ Sound(self[t]) => retval[self[t]] = t \/ start_status[self[t]] = "exit"

HandleParent(t) ==
  self[t] \in used /\ start_status[self[t]] # "ok" /\ Sound(self[t]) =>
    \E a \in Actors : Parent(a) /\ saved[a] = t

HandlesInv == \A t \in handles : HandleAlone(t) /\ HandleEnded(t) /\ HandleParent(t)

CloneStatus(a) ==
  pc[a] = "c_clone" /\ Sound(obj[a]) =>
    start_status[obj[a]] = IF explicit[a] THEN "wait" ELSE "ok"

ChildStatus(a) ==
  pc[a] \in {"c_tid", "c_sched"} /\ Sound(obj[a]) =>
    IF explicit[a]
    THEN start_status[obj[a]] = "wait" /\ pc[saved[a]] \in Starting
    ELSE start_status[obj[a]] = "ok" /\ pc[a] = "c_tid"

FailedStatus(a) ==
  Sound(obj[a]) /\ (Failed(a) \/ (pc[a] = "c_wake" /\ after[a] = "c_release")) =>
    start_status[obj[a]] = "exit"

RunStatus(t) ==
  Sound(self[t]) =>
    /\ Alive(t) /\ pc[t] \notin Starting \cup {"start_check", "kernel_exit"} =>
         start_status[self[t]] = "ok"
    /\ pc[t] = "start_check" => start_status[self[t]] # "wait"

StatusInv ==
  /\ \A a \in Actors : CloneStatus(a) /\ ChildStatus(a) /\ FailedStatus(a)
  /\ \A t \in Tids : RunStatus(t)

AllInv ==
  /\ PlacesInv /\ ListsInv /\ ThreadsInv /\ TidInv
  /\ CreateInv /\ JoinInv /\ HandlesInv /\ StatusInv

-----------------------------------------------------------------------------
(* Types                                                                   *)

\* An actor that is using a descriptor has one, and a thread runs on one.
HasDescriptor(a) ==
  /\ pc[a] \in WaitPlaces \cup {"c_add", "c_init", "c_clone", "c_tid", "c_sched", "c_wake"} =>
       obj[a] \in Descs
  /\ a \in Tids /\ pc[a] # "none" => self[a] \in Descs

TypeInv == TypeOK /\ \A a \in Actors : HasDescriptor(a)

\* The initial state has the types.
LEMMA TypeInit == ASSUME Init PROVE TypeInv
<1> USE ConstantsAssumption DEF Init
<1>1. TypeOK
  BY DEF TypeOK, JoinStatus, StartStatus, Actors, Places, ThreadPlaces
<1>2. ASSUME NEW a \in Actors PROVE HasDescriptor(a)
  BY DEF HasDescriptor, WaitPlaces
<1> QED BY <1>1, <1>2 DEF TypeInv

\* A step of a library call keeps the types.
LEMMA TypeCall ==
  ASSUME TypeInv, NEW a \in Actors, CallStep(a)
  PROVE  TypeInv'
<1> USE DEF TypeInv, TypeOK, HasDescriptor, Actors, Goto, lists, fields, locals, ghosts, SpoiledIf
<1> USE DEF Places, ThreadPlaces, WaitPlaces, CreatePlaces
<1>1. CASE WaitRead(a)
  BY <1>1 DEF WaitRead
<1>2. CASE WaitFutex(a)
  <2>1. \/ pc' = [pc EXCEPT ![a] = "w_asleep"]
        \/ pc' = [pc EXCEPT ![a] = after[a]]
    BY <1>2 DEF WaitFutex
  <2>2. pc[a] = "w_futex" /\ UNCHANGED <<lists, fields, self, locals, ghosts>>
    BY <1>2 DEF WaitFutex
  <2>3. ASSUME NEW b \in Actors PROVE HasDescriptor(b)'
    BY <2>1, <2>2
  <2> QED BY <2>1, <2>2, <2>3
<1>3. CASE Release(a)
  <2>1. CASE Released(a) \in used
    <3>1. Released(a) \in Descs BY <2>1
    <3>2. Append(free, Released(a)) \in Seq(Descs) BY <3>1
    <3>3. /\ free' \in Seq(Descs)
          /\ pc' = [pc EXCEPT ![a] = IF pc[a] = "exit_release" THEN "kernel_exit" ELSE "run"]
          /\ Return(a)
          /\ used' \subseteq Descs
          /\ UNCHANGED <<allocated, fields, self, ghosts>>
      BY <1>3, <2>1, <3>2 DEF Release, Unlist
    <3>4. TypeOK'
      BY <3>3 DEF Return
    <3>5. ASSUME NEW b \in Actors PROVE HasDescriptor(b)'
      <4>1. pc[a] \in Releasing /\ self' = self /\ obj' = [obj EXCEPT ![a] = NoDesc]
        BY <1>3, <3>3 DEF Release, Return
      <4> QED BY <3>3, <4>1 DEF Releasing
    <3> QED BY <3>4, <3>5
  <2>2. CASE Released(a) \notin used
    <3>1. /\ pc' = [pc EXCEPT ![a] = "crashed"]
          /\ pc[a] # "none"
          /\ UNCHANGED <<lists, fields, self, locals, ghosts>>
      BY <1>3, <2>2 DEF Release, Releasing
    <3> QED BY <3>1
  <2> QED BY <2>1, <2>2
<1>4. CASE CreateAdd(a)
  BY <1>4 DEF CreateAdd, List
<1>5. CASE CreateInit(a)
  <2>1. PICK joinable \in {"detached", "joinable"}, e \in BOOLEAN :
          /\ join_status' = [join_status EXCEPT ![obj[a]] = joinable]
          /\ start_status' = [start_status EXCEPT ![obj[a]] = IF e THEN "wait" ELSE "ok"]
          /\ explicit' = [explicit EXCEPT ![a] = e]
    BY <1>5 DEF CreateInit
  <2>2. TypeOK'
    BY <1>5, <2>1 DEF CreateInit, JoinStatus, StartStatus
  <2>3. ASSUME NEW b \in Actors PROVE HasDescriptor(b)'
    <3>1. /\ pc[a] = "c_init" /\ pc' = [pc EXCEPT ![a] = "c_clone"]
          /\ obj' = obj /\ self' = self
      BY <1>5 DEF CreateInit
    <3> QED BY <3>1
  <2> QED BY <2>2, <2>3
<1>6. CASE CreateClone(a)
  <2>1. CASE Goto(a, "c_clone", "c_release") /\ UNCHANGED <<lists, fields, self, locals, ghosts>>
    BY <2>1
  <2>2. ASSUME NEW t \in Tids, pc[a] = "c_clone",
               pc' = [pc EXCEPT ![a] = "c_tid", ![t] = "new"],
               self' = [self EXCEPT ![t] = obj[a]],
               saved' = [saved EXCEPT ![a] = t],
               handles' = handles \cup {t},
               UNCHANGED <<lists, fields, obj, after, explicit, target, spoiled>>
        PROVE  TypeInv'
    <3>1. TypeOK'
      BY <2>2
    <3>2. ASSUME NEW b \in Actors PROVE HasDescriptor(b)'
      BY <2>2
    <3> QED BY <3>1, <3>2
  <2> QED BY <1>6, <2>1, <2>2 DEF CreateClone
<1>7. CASE CreateStoreTid(a)
  <2>1. CASE explicit[a]
    BY <1>7, <2>1 DEF CreateStoreTid
  <2>2. CASE ~explicit[a]
    <3>1. TypeOK'
      BY <1>7, <2>2 DEF CreateStoreTid, Return
    <3>2. ASSUME NEW b \in Actors PROVE HasDescriptor(b)'
      BY <1>7, <2>2 DEF CreateStoreTid, Return
    <3> QED BY <3>1, <3>2
  <2> QED BY <2>1, <2>2
<1>8. CASE CreateSched(a)
  BY <1>8 DEF CreateSched, StartStatus
<1>9. CASE CreateWake(a)
  <2> DEFINE next == IF after[a] = "c_release" THEN "w_read" ELSE "run"
  <2>1. \/ pc' = [pc EXCEPT ![a] = next]
        \/ \E s \in Tids : pc' = [pc EXCEPT ![a] = next, ![s] = "start_check"]
    BY <1>9 DEF CreateWake, WakeOne, Starters
  <2>2. /\ pc' \in [Actors -> Places]
        /\ \A b \in Actors : pc'[b] \in {pc[b], "w_read", "run", "start_check"}
        /\ \A b \in Actors \ {a} : pc'[b] \in {pc[b], "start_check"}
        /\ \A t \in Tids : pc[t] = "none" => pc'[t] = "none"
    BY <2>1, <1>9 DEF CreateWake, WakeOne, Starters
  <2>3. /\ pc[a] = "c_wake"
        /\ UNCHANGED <<lists, fields, self, handles>>
        /\ spoiled' \subseteq Descs
        /\ UNCHANGED locals \/ (Return(a) /\ after[a] # "c_release")
    BY <1>9 DEF CreateWake
  <2>4. TypeOK'
    BY <2>2, <2>3, ZenonT(60) DEF Return
  <2>5. CASE UNCHANGED locals
    <3>1. ASSUME NEW b \in Actors PROVE HasDescriptor(b)'
      BY <2>2, <2>3, <2>5
    <3> QED BY <2>4, <3>1
  <2>6. CASE Return(a) /\ after[a] # "c_release"
    <3>1. pc'[a] \in {"run", "start_check"}
      BY <2>1, <2>6
    <3>2. obj' = [obj EXCEPT ![a] = NoDesc] /\ self' = self
      BY <2>3, <2>6 DEF Return
    <3>3. ASSUME NEW b \in Actors PROVE HasDescriptor(b)'
      BY <2>2, <2>3, <3>1, <3>2
    <3> QED BY <2>4, <3>3
  <2> QED BY <2>3, <2>5, <2>6
<1> QED BY <1>1, <1>2, <1>3, <1>4, <1>5, <1>6, <1>7, <1>8, <1>9 DEF CallStep

\* A call, or a signal, keeps the types.
LEMMA TypeOptional ==
  ASSUME TypeInv, NEW a \in Actors, Optional(a)
  PROVE  TypeInv'
<1> USE DEF TypeInv, TypeOK, HasDescriptor, Actors, Goto, lists, fields, locals, ghosts, SpoiledIf
<1> USE DEF Places, ThreadPlaces, WaitPlaces, CreatePlaces
<1>1. CASE CreateCall(a)
  <2>1. CASE CreateReuse(a)
    <3>1. Head(free) \in Descs /\ Tail(free) \in Seq(Descs)
      BY <2>1 DEF CreateReuse
    <3> QED BY <2>1, <3>1 DEF CreateReuse, BeginWait, Reuse
  <2>2. CASE CreateNew(a)
    BY <2>2 DEF CreateNew, Malloc
  <2>3. CASE CreateUnguarded(a)
    BY <2>3 DEF CreateUnguarded
  <2> QED BY <1>1, <2>1, <2>2, <2>3 DEF CreateCall
<1>2. CASE WaitInterrupted(a)
  BY <1>2 DEF WaitInterrupted, OnSignal
<1>3. ASSUME NEW t \in Tids, JoinCall(a, t) PROVE TypeInv'
  BY <1>3 DEF JoinCall, MayJoin, BeginWait, JoinStatus, Self
<1>4. ASSUME NEW t \in Tids, DetachCall(a, t) PROVE TypeInv'
  BY <1>4 DEF DetachCall, JoinStatus
<1> QED BY <1>1, <1>2, <1>3, <1>4 DEF Optional

\* A step of a thread or of the kernel keeps the types.
LEMMA TypeThread ==
  ASSUME TypeInv, NEW t \in Tids, ThreadStep(t)
  PROVE  TypeInv'
<1> USE DEF TypeInv, TypeOK, HasDescriptor, Actors, Goto, lists, fields, locals, ghosts, SpoiledIf
<1> USE DEF Places, ThreadPlaces, WaitPlaces, CreatePlaces
<1>1. CASE ChildSetTid(t)
  BY <1>1 DEF ChildSetTid
<1>2. CASE StartCheck(t)
  BY <1>2 DEF StartCheck
<1>3. CASE StartWait(t)
  <2>1. /\ pc' = [pc EXCEPT ![t] = "start_asleep"] \/ pc' = [pc EXCEPT ![t] = "start_check"]
        /\ spoiled' \subseteq Descs
        /\ UNCHANGED <<lists, fields, self, locals, handles>>
        /\ pc[t] # "none"
    BY <1>3 DEF StartWait
  <2>2. TypeOK'
    BY <2>1
  <2>3. ASSUME NEW b \in Actors PROVE HasDescriptor(b)'
    BY <2>1
  <2> QED BY <2>2, <2>3
<1>4. CASE StartDecide(t)
  BY <1>4 DEF StartDecide
<1>5. CASE ExitCall(t)
  BY <1>5 DEF ExitCall
<1>6. CASE ExitFix(t)
  BY <1>6 DEF ExitFix, JoinStatus
<1>7. CASE KernelExit(t)
  <2>1. /\ pc' = [pc EXCEPT ![t] = "kernel_wake"]
        /\ tid' = [tid EXCEPT ![self[t]] = NoTid]
        /\ spoiled' \subseteq Descs
        /\ UNCHANGED <<lists, join_status, joiner, retval, start_status, self, locals, handles>>
        /\ pc[t] # "none"
    BY <1>7 DEF KernelExit
  <2>2. TypeOK'
    BY <2>1
  <2>3. ASSUME NEW b \in Actors PROVE HasDescriptor(b)'
    BY <2>1
  <2> QED BY <2>2, <2>3
<1>8. CASE KernelWake(t)
  BY <1>8, ZenonT(60) DEF KernelWake, WakeOne, WaitersOn
<1> QED BY <1>1, <1>2, <1>3, <1>4, <1>5, <1>6, <1>7, <1>8 DEF ThreadStep

\* The types, and a descriptor for whoever uses one, hold in every state.
LEMMA TypeInvariant == Spec => []TypeInv
<1>1. Init => TypeInv
  BY TypeInit
<1>2. TypeInv /\ [Next]_vars => TypeInv'
  <2> SUFFICES ASSUME TypeInv, [Next]_vars PROVE TypeInv'
    OBVIOUS
  <2>1. ASSUME NEW a \in Actors, CallStep(a) PROVE TypeInv'
    BY <2>1, TypeCall
  <2>2. ASSUME NEW a \in Actors, Optional(a) PROVE TypeInv'
    BY <2>2, TypeOptional
  <2>3. ASSUME NEW t \in Tids, ThreadStep(t) PROVE TypeInv'
    BY <2>3, TypeThread
  <2>4. CASE UNCHANGED vars
    BY <2>4 DEF vars, lists, fields, locals, ghosts, TypeInv, TypeOK, HasDescriptor
  <2> QED BY <2>1, <2>2, <2>3, <2>4 DEF Next
<1> QED BY <1>1, <1>2, PTL DEF Spec

\* Every variable has its type, whatever threads, signals and failures do.
THEOREM TypeCorrect == Spec => []TypeOK
BY TypeInvariant, PTL DEF TypeInv

-----------------------------------------------------------------------------
(* The initial state, and steps of the environment                         *)

\* The invariant holds initially.
LEMMA AllInit == ASSUME Init PROVE AllInv
<1> USE ConstantsAssumption DEF Init, Actors
<1>1. \A a \in Actors : /\ ~Waiting(a) /\ ~Hand(a) /\ ~Fresh(a) /\ ~Owning(a)
                        /\ ~Cloned(a) /\ ~Failed(a) /\ ~Parent(a) /\ ~Joining(a)
  BY DEF Waiting, Hand, Fresh, Owning, Cloned, Failed, Parent, Joining, WaitPlaces
<1>2. \A t \in Tids : pc[t] = "none" /\ ~Alive(t)
  BY DEF Alive
<1>3. PlacesInv
  BY DEF PlacesInv, PlaceKnown, ThreadPlaces, WaitPlaces
<1>4. ListsInv
  <2>1. FreeSet = {}
    BY DEF FreeSet
  <2>2. \A a \in Actors, d \in Descs : ~InHand(a, d)
    BY DEF InHand
  <2> QED BY <1>1, <2>1, <2>2 DEF ListsInv, Accounted, Distinct, Held, HandApart, Listed
<1>5. ThreadsInv
  BY <1>2 DEF ThreadsInv, OnDescriptor, AloneOn, InUse, TidStored
<1>6. TidInv
  BY DEF TidInv
<1>7. CreateInv
  BY <1>1 DEF CreateInv, OwnsAlone, WaitsForLast, FreshAlone, NoHandle, ParentOf, ParentAlone,
     ChildAlive, ChildKept, ChildFailed
<1>8. JoinInv
  BY <1>1 DEF JoinInv, JoinsTarget, JoinFields, JoinsAlone, JoinWaits
<1>9. HandlesInv
  BY DEF HandlesInv
<1>10. StatusInv
  BY <1>1, <1>2 DEF StatusInv, CloneStatus, ChildStatus, FailedStatus, RunStatus
<1> QED BY <1>3, <1>4, <1>5, <1>6, <1>7, <1>8, <1>9, <1>10 DEF AllInv

\* It is about nothing but the variables.
LEMMA AllStutters == ASSUME AllInv, UNCHANGED vars PROVE AllInv'
<1> USE DEF AllInv, ghosts, Sound, vars, lists, fields, locals
<1>1. PlacesInv' /\ TidInv'
  BY DEF PlacesInv, PlaceKnown, TidInv, Alive
<1>2. ListsInv'
  BY DEF ListsInv, Accounted, Distinct, Held, HandApart, Listed, FreeSet, InHand, Hand, Waiting,
     Fresh, Failed, Joining
<1>3. ThreadsInv'
  BY DEF ThreadsInv, OnDescriptor, AloneOn, InUse, TidStored, Alive
<1>4. CreateInv'
  BY DEF CreateInv, OwnsAlone, WaitsForLast, FreshAlone, NoHandle, ParentOf, ParentAlone, ChildAlive,
     ChildKept, ChildFailed,
     Owning, Fresh, Hand, Waiting, Parent, Cloned, Failed, Alive
<1>5. JoinInv'
  BY DEF JoinInv, JoinsTarget, JoinFields, JoinsAlone, JoinWaits, Joining, Waiting,
     Parent, Cloned, Failed, Alive
<1>6. HandlesInv'
  BY DEF HandlesInv, HandleAlone, HandleEnded, HandleParent, Parent, Cloned, Failed,
     Waiting, Alive
<1>7. StatusInv'
  BY DEF StatusInv, CloneStatus, ChildStatus, FailedStatus, RunStatus, Failed, Waiting,
     Alive
<1> QED BY <1>1, <1>2, <1>3, <1>4, <1>5, <1>6, <1>7

-----------------------------------------------------------------------------
(* Sequences                                                               *)

\* The elements of a sequence with one more at its end.
LEMMA AppendSet ==
  ASSUME NEW S, NEW s \in Seq(S), NEW e \in S
  PROVE  {Append(s, e)[i] : i \in DOMAIN Append(s, e)} = {s[i] : i \in DOMAIN s} \cup {e}
<1> DEFINE r == Append(s, e)
<1>1. DOMAIN r = DOMAIN s \cup {Len(s) + 1} /\ r[Len(s) + 1] = e /\ \A i \in DOMAIN s : r[i] = s[i]
  OBVIOUS
<1> QED BY <1>1

\* What Head and Tail leave where.
LEMMA HeadTailSet ==
  ASSUME NEW S, NEW s \in Seq(S), s # <<>>
  PROVE /\ Head(s) \in S /\ Head(s) = s[1] /\ 1 \in DOMAIN s
        /\ Tail(s) \in Seq(S)
        /\ DOMAIN Tail(s) = {i \in Nat : i + 1 \in DOMAIN s /\ i # 0}
        /\ \A i \in DOMAIN Tail(s) : i + 1 \in DOMAIN s /\ Tail(s)[i] = s[i + 1]
        /\ {s[i] : i \in DOMAIN s} = {Tail(s)[i] : i \in DOMAIN Tail(s)} \cup {Head(s)}
<1>1.   /\ Head(s) \in S /\ Head(s) = s[1] /\ 1 \in DOMAIN s
        /\ Tail(s) \in Seq(S)
  OBVIOUS
<1>2. DOMAIN Tail(s) = {i \in Nat : i + 1 \in DOMAIN s /\ i # 0}
  OBVIOUS
<1>3. \A i \in DOMAIN Tail(s) : i + 1 \in DOMAIN s /\ Tail(s)[i] = s[i + 1]
  OBVIOUS
<1>4. ASSUME NEW i \in DOMAIN s, i # 1
      PROVE  i - 1 \in DOMAIN Tail(s) /\ Tail(s)[i - 1] = s[i]
  BY <1>4
<1>5. {s[i] : i \in DOMAIN s} = {Tail(s)[i] : i \in DOMAIN Tail(s)} \cup {s[1]}
  <2> DEFINE r == Tail(s)
  <2>1. ASSUME NEW x \in {s[i] : i \in DOMAIN s}
        PROVE  x \in {r[i] : i \in DOMAIN r} \cup {s[1]}
    BY <1>4
  <2>2. ASSUME NEW x \in {r[i] : i \in DOMAIN r} PROVE x \in {s[i] : i \in DOMAIN s}
    BY <1>3
  <2> QED BY <1>1, <2>1, <2>2
<1> QED BY <1>1, <1>2, <1>3, <1>5

-----------------------------------------------------------------------------
(* wait_for_thread                                                         *)

\* What wait_for_thread called by b has found out when it returns: the thread is gone.
Over(b) ==
  /\ Hand(b) => \A t \in Tids : self[t] = obj[b] => ~Alive(t)
  /\ Failed(b) => ~Alive(saved[b])
  /\ Joining(b) => ~Alive(target[b])

\* The tid it goes to sleep with.
WaitsFor(b, x) ==
  /\ Hand(b) => \A t \in Tids : self[t] = obj[b] /\ Alive(t) => x = t
  /\ Failed(b) => x = saved[b]
  /\ Joining(b) => x = target[b]

\* The moves of waiters: some come closer to sleep with the tid of the thread they
\* wait for, some return because it is over, threads die.  Nothing else changes, and
\* on a descriptor that is not sound a waiter may do either for no reason.
LEMMA WaitersMove ==
  ASSUME TypeOK, TypeOK', AllInv,
         UNCHANGED <<lists, fields, self, obj, after, explicit, target, handles>>,
         spoiled \subseteq spoiled',
         \A b \in Actors :
           \/ pc'[b] = pc[b] /\ saved'[b] = saved[b]
           \/ b \in Tids /\ pc[b] = "kernel_wake" /\ pc'[b] = "dead" /\ saved'[b] = saved[b]
           \/ /\ Waiting(b) /\ pc'[b] \in {"w_futex", "w_asleep"}
              /\ \/ saved'[b] = saved[b]
                 \/ saved'[b] \in Tids /\ self[saved'[b]] = obj[b]
              /\ obj[b] \notin spoiled' => WaitsFor(b, saved'[b])
           \/ /\ Waiting(b) /\ pc'[b] = after[b] /\ saved'[b] = saved[b]
              /\ obj[b] \notin spoiled' => Over(b)
  PROVE  AllInv'
<1> USE DEF AllInv, Sound
<1>0. /\ allocated' = allocated /\ used' = used /\ free' = free /\ join_status' = join_status
      /\ joiner' = joiner /\ tid' = tid /\ retval' = retval /\ start_status' = start_status
      /\ self' = self /\ obj' = obj /\ after' = after /\ explicit' = explicit /\ target' = target
      /\ handles' = handles
  BY DEF lists, fields
<1>1. ASSUME NEW b \in Actors
      PROVE /\ Hand(b)' <=> Hand(b)
            /\ Fresh(b)' <=> Fresh(b)
            /\ Failed(b)' <=> Failed(b)
            /\ Joining(b)' <=> Joining(b)
            /\ Cloned(b)' <=> Cloned(b)
            /\ Parent(b)' <=> Parent(b)
            /\ ~Waiting(b) => saved'[b] = saved[b]
            /\ Parent(b) /\ obj[b] \notin spoiled' => saved'[b] = saved[b]
  BY <1>0 DEF TypeOK, Hand, Fresh, Failed, Joining, Cloned, Parent, Waiting, WaitPlaces,
     WaitsFor
<1>2. ASSUME NEW t \in Tids
      PROVE /\ Alive(t)' <=> Alive(t)
            /\ pc'[t] = "kernel_wake" => pc[t] = "kernel_wake"
            /\ pc'[t] = "none" <=> pc[t] = "none"
            /\ \A x \in ThreadPlaces \ {"kernel_wake", "dead"} : pc'[t] = x <=> pc[t] = x
  BY <1>0 DEF TypeOK, Alive, Waiting, WaitPlaces, ThreadPlaces, Actors
<1>3. ASSUME NEW b \in Actors, pc'[b] # pc[b]
      PROVE pc'[b] \notin {"c_init", "c_clone", "c_tid", "c_sched", "c_wake"}
  BY <1>0, <1>3 DEF TypeOK, Waiting
<1>a. PlacesInv'
  <2>1. (pc[Main] \notin ThreadPlaces \ {"run"})'
    BY <1>0 DEF TypeOK, PlacesInv, Waiting, WaitPlaces, ThreadPlaces, Actors
  <2>2. ASSUME NEW b \in Actors PROVE PlaceKnown(b)'
    BY <1>0 DEF TypeOK, PlacesInv, PlaceKnown, Waiting, WaitPlaces, ThreadPlaces
  <2> QED BY <2>1, <2>2 DEF PlacesInv
<1>b. ListsInv'
  BY <1>0, <1>1 DEF ListsInv, Accounted, Distinct, Held, HandApart, Listed, FreeSet, InHand,
     Hand, Waiting
<1>c. ThreadsInv'
  <2> SUFFICES ASSUME NEW t \in Tids
               PROVE (OnDescriptor(t) /\ AloneOn(t) /\ InUse(t) /\ TidStored(t))'
    BY DEF ThreadsInv
  <2>1. (OnDescriptor(t) /\ AloneOn(t))'
    BY <1>0, <1>2 DEF ThreadsInv, OnDescriptor, AloneOn
  <2>2. InUse(t)'
    BY <1>0, <1>2 DEF ThreadsInv, InUse, ThreadPlaces
  <2>3. TidStored(t)'
    <3>1. ASSUME NEW a \in Actors, pc[a] = "c_tid"
          PROVE  pc'[a] = "c_tid" /\ saved'[a] = saved[a]
      BY <3>1 DEF Waiting, WaitPlaces
    <3> QED BY <1>0, <1>2, <3>1 DEF ThreadsInv, TidStored, ThreadPlaces
  <2> QED BY <2>1, <2>2, <2>3
<1>d. TidInv'
  BY <1>0, <1>2 DEF TidInv, TypeOK
<1>e. CreateInv'
  <2> SUFFICES ASSUME NEW a \in Actors
               PROVE /\ (OwnsAlone(a) /\ WaitsForLast(a) /\ FreshAlone(a) /\ NoHandle(a))'
                     /\ (ParentOf(a) /\ ParentAlone(a))'
                     /\ (ChildAlive(a) /\ ChildKept(a) /\ ChildFailed(a))'
    BY DEF CreateInv
  <2>0. /\ OwnsAlone(a) /\ WaitsForLast(a) /\ FreshAlone(a) /\ NoHandle(a)
        /\ ParentOf(a) /\ ParentAlone(a) /\ ChildAlive(a) /\ ChildKept(a) /\ ChildFailed(a)
    BY DEF CreateInv
  <2>1. OwnsAlone(a)'
    <3> SUFFICES ASSUME Owning(a)', obj[a] \notin spoiled', NEW t \in Tids, self[t] = obj[a] PROVE ~Alive(t)
      BY <1>0, <1>2 DEF OwnsAlone
    <3>1. CASE Owning(a) BY <3>1, <2>0 DEF OwnsAlone
    <3>2. CASE ~Owning(a)
      BY <3>2, <1>1 DEF Owning, Over, Hand
    <3> QED BY <3>1, <3>2
  <2>2. WaitsForLast(a)'
    BY <2>0, <1>0, <1>1, <1>2 DEF WaitsForLast, WaitsFor, Over, Hand, Waiting, WaitPlaces
  <2>3. FreshAlone(a)' /\ NoHandle(a)'
    BY <2>0, <1>0, <1>1 DEF FreshAlone, NoHandle
  <2>4. ParentOf(a)'
    BY <2>0, <1>0, <1>1 DEF ParentOf, Parent
  <2>6. ParentAlone(a)'
    <3> SUFFICES ASSUME Parent(a)', obj[a] \notin spoiled', NEW b \in Actors, Parent(b)',
                        saved'[b] = saved'[a]
                 PROVE  b = a
      BY DEF ParentAlone
    <3>1. Parent(a) /\ Parent(b) BY <1>1
    <3>2. /\ self[saved'[a]] = obj[a]
          /\ self[saved'[b]] = obj[b]
      <4>1. ASSUME NEW c \in Actors, Parent(c) PROVE self[saved'[c]] = obj[c]
        BY <4>1, <1>1 DEF CreateInv, ParentOf
      <4> QED BY <3>1, <4>1
    <3>3. saved'[a] = saved[a] /\ saved'[b] = saved[b]
      BY <3>1, <3>2, <1>1
    <3> QED BY <2>0, <3>1, <3>3 DEF ParentAlone
  <2>7. ChildAlive(a)' /\ ChildKept(a)'
    BY <2>0, <1>0, <1>1, <1>2, <1>3 DEF ParentOf, ChildAlive, ChildKept, Parent, Cloned,
       Waiting, WaitPlaces
  <2>5. ChildFailed(a)'
    <3> SUFFICES ASSUME obj[a] \notin spoiled' PROVE ChildFailed(a)'
      BY <1>0 DEF ChildFailed
    <3>1. Failed(a)' => saved'[a] = saved[a] /\ saved[a] \in Tids
      BY <2>0, <1>1 DEF Parent, ParentOf
    <3>2. pc'[a] = "c_release" /\ after[a] = "c_release" => ~Alive(saved[a]) /\ Failed(a)
      BY <2>0, <1>1 DEF ChildFailed, Over, Failed, Waiting
    <3> QED BY <2>0, <3>1, <3>2, <1>0, <1>1, <1>2 DEF ChildFailed
  <2> QED BY <2>1, <2>2, <2>3, <2>4, <2>5, <2>6, <2>7
<1>f. JoinInv'
  <2> SUFFICES ASSUME NEW a \in Actors
               PROVE (JoinsTarget(a) /\ JoinFields(a) /\ JoinsAlone(a) /\ JoinWaits(a))'
    BY DEF JoinInv
  <2>0. JoinsTarget(a) /\ JoinFields(a) /\ JoinsAlone(a) /\ JoinWaits(a)
    BY DEF JoinInv
  <2>1. JoinsTarget(a)'
    BY <2>0, <1>0, <1>1, <1>2 DEF JoinsTarget, TypeOK, ThreadPlaces
  <2>2. JoinFields(a)'
    BY <2>0, <1>0, <1>1 DEF JoinFields
  <2>4. JoinsAlone(a)'
    <3> SUFFICES ASSUME Joining(a), obj[a] \notin spoiled',
                        NEW b \in Actors, Parent(b), saved'[b] = target[a]
                 PROVE  FALSE
      BY <2>0, <1>0, <1>1 DEF JoinsAlone
    <3>1. self[saved'[b]] = obj[b] /\ self[target[a]] = obj[a]
      BY <2>0, <1>1 DEF JoinsTarget, CreateInv, ParentOf
    <3>2. saved'[b] = saved[b]
      BY <3>1, <1>1
    <3> QED BY <2>0, <3>2 DEF JoinsAlone
  <2>3. JoinWaits(a)'
    <3> SUFFICES ASSUME Joining(a), obj[a] \notin spoiled' PROVE JoinWaits(a)'
      BY <1>0, <1>1 DEF JoinWaits
    <3>1. target[a] \in Tids BY <2>0 DEF JoinsTarget, TypeOK
    <3> QED BY <2>0, <3>1, <1>0, <1>2 DEF JoinWaits, WaitsFor, Over, Joining, Waiting,
               WaitPlaces
  <2> QED BY <2>1, <2>2, <2>3, <2>4
<1>g. HandlesInv'
  <2> SUFFICES ASSUME NEW t \in handles
               PROVE  (HandleAlone(t) /\ HandleEnded(t) /\ HandleParent(t))'
    BY <1>0 DEF HandlesInv
  <2>0. HandleAlone(t) /\ HandleEnded(t) /\ HandleParent(t) /\ t \in Tids
    BY DEF HandlesInv, TypeOK
  <2>1. HandleAlone(t)'
    BY <2>0, <1>0, <1>2 DEF HandleAlone
  <2>2. HandleEnded(t)'
    <3>1. pc'[t] \in Ended => pc[t] \in Ended
      BY <2>0, <1>2 DEF Ended, ThreadPlaces, Actors, Waiting, TypeOK
    <3> QED BY <2>0, <3>1, <1>0 DEF HandleEnded
  <2>3. HandleParent(t)'
    <3> SUFFICES ASSUME self[t] \in used, start_status[self[t]] # "ok", self[t] \notin spoiled'
                 PROVE  \E a \in Actors : Parent(a) /\ saved'[a] = t
      BY <1>0, <1>1 DEF HandleParent
    <3>1. PICK a \in Actors : Parent(a) /\ saved[a] = t
      BY <2>0 DEF HandleParent
    <3>2. obj[a] = self[t]
      BY <3>1 DEF CreateInv, ParentOf
    <3> QED BY <3>1, <3>2, <1>1
  <2> QED BY <2>1, <2>2, <2>3
<1>h. StatusInv'
  <2>1. ASSUME NEW a \in Actors PROVE (CloneStatus(a) /\ ChildStatus(a) /\ FailedStatus(a))'
    <3>0. CloneStatus(a) /\ ChildStatus(a) /\ FailedStatus(a) /\ ParentOf(a)
      BY DEF StatusInv, CreateInv
    <3>1. CloneStatus(a)' BY <3>0, <1>0, <1>3 DEF CloneStatus
    <3>2. ChildStatus(a)'
      <4> SUFFICES ASSUME pc'[a] \in {"c_tid", "c_sched"} PROVE ChildStatus(a)'
        BY DEF ChildStatus
      <4>1. pc'[a] = pc[a] /\ saved'[a] = saved[a] /\ saved[a] \in Tids
        BY <3>0, <1>1, <1>3 DEF ParentOf, Parent, Cloned, Waiting, WaitPlaces
      <4>2. pc[saved[a]] \in Starting => pc'[saved[a]] \in Starting
        BY <4>1, <1>2 DEF Starting, ThreadPlaces
      <4> QED BY <3>0, <4>1, <4>2, <1>0 DEF ChildStatus
    <3>3. FailedStatus(a)' BY <3>0, <1>0, <1>1, <1>3 DEF FailedStatus
    <3> QED BY <3>1, <3>2, <3>3
  <2>2. ASSUME NEW t \in Tids PROVE RunStatus(t)'
    BY <1>0, <1>2 DEF StatusInv, RunStatus, Starting, ThreadPlaces
  <2> QED BY <2>1, <2>2 DEF StatusInv
<1> QED BY <1>a, <1>b, <1>c, <1>d, <1>e, <1>f, <1>g, <1>h

\* The tid the word holds is that of a thread on the descriptor; when it holds none,
\* the wait is over.
LEMMA WaitReadFacts ==
  ASSUME TypeOK, TypeOK', AllInv, NEW a \in Actors, HasDescriptor(a), WaitRead(a)
  PROVE  \/ /\ pc' = [pc EXCEPT ![a] = "w_futex"]
            /\ saved' = [saved EXCEPT ![a] = tid[obj[a]]]
            /\ tid[obj[a]] \in Tids
            /\ self[tid[obj[a]]] = obj[a]
            /\ Sound(obj[a]) => Alive(tid[obj[a]])
         \/ /\ pc' = [pc EXCEPT ![a] = after[a]]
            /\ saved' = saved
            /\ Sound(obj[a]) => Over(a)
<1> USE DEF AllInv, ghosts, Sound
<1>1. pc[a] = "w_read" /\ obj[a] \in Descs
  BY DEF WaitRead, HasDescriptor, WaitPlaces
<1>2. CASE tid[obj[a]] = NoTid
  <2>0. pc' = [pc EXCEPT ![a] = after[a]] /\ saved' = saved BY <1>2 DEF WaitRead, Goto
  <2> SUFFICES ASSUME Sound(obj[a]) PROVE Over(a) BY <2>0
  <2>1. ASSUME NEW t \in Tids, Alive(t), self[t] = obj[a]
        PROVE pc[t] = "new" /\ \E b \in Actors : pc[b] = "c_tid" /\ saved[b] = t
    BY <1>1, <1>2, <2>1, ConstantsAssumption DEF ThreadsInv, TidStored
  <2>2. ASSUME Hand(a), NEW t \in Tids, self[t] = obj[a]
        PROVE  ~Alive(t)
    BY <1>1, <2>1, <2>2 DEF ThreadsInv, InUse, ListsInv, HandApart
  <2>3. ASSUME Failed(a) PROVE ~Alive(saved[a])
    BY <1>1, <2>1, <2>3 DEF CreateInv, ParentOf, ParentAlone, Parent, Cloned
  <2>4. ASSUME Joining(a) PROVE ~Alive(target[a])
    BY <1>1, <2>1, <2>4 DEF JoinInv, JoinsTarget, JoinsAlone, Parent, Cloned, TypeOK
  <2> QED BY <1>1, <2>0, <2>2, <2>3, <2>4 DEF Over
<1>3. CASE tid[obj[a]] # NoTid
  BY <1>1, <1>3 DEF WaitRead, Goto, TidInv, TypeOK
<1> QED BY <1>2, <1>3

\* Reading the word keeps the invariant.
LEMMA WaitReadKeeps ==
  ASSUME TypeOK, TypeOK', AllInv, NEW a \in Actors, HasDescriptor(a), WaitRead(a)
  PROVE  AllInv'
<1>1. \/ /\ pc' = [pc EXCEPT ![a] = "w_futex"]
         /\ saved' = [saved EXCEPT ![a] = tid[obj[a]]]
         /\ tid[obj[a]] \in Tids /\ self[tid[obj[a]]] = obj[a]
         /\ Sound(obj[a]) => WaitsFor(a, tid[obj[a]])
      \/ pc' = [pc EXCEPT ![a] = after[a]] /\ saved' = saved /\ (Sound(obj[a]) => Over(a))
  <2>0. \/ /\ pc' = [pc EXCEPT ![a] = "w_futex"]
           /\ saved' = [saved EXCEPT ![a] = tid[obj[a]]]
           /\ tid[obj[a]] \in Tids
           /\ self[tid[obj[a]]] = obj[a]
           /\ Sound(obj[a]) => Alive(tid[obj[a]])
        \/ /\ pc' = [pc EXCEPT ![a] = after[a]]
           /\ saved' = saved
           /\ Sound(obj[a]) => Over(a)
    BY WaitReadFacts
  <2>1. ASSUME tid[obj[a]] \in Tids, self[tid[obj[a]]] = obj[a], Alive(tid[obj[a]]),
               Sound(obj[a])
        PROVE  WaitsFor(a, tid[obj[a]])
    <3> DEFINE u == tid[obj[a]]
    <3>1. ASSUME NEW t \in Tids, Alive(t), self[t] = obj[a] PROVE t = u
      BY <2>1, <3>1 DEF AllInv, ThreadsInv, AloneOn
    <3>2. Failed(a) => u = saved[a]
      BY <2>1 DEF AllInv, CreateInv, ParentOf, ChildFailed, Parent, HandlesInv, HandleAlone
    <3>3. Joining(a) => u = target[a]
      BY <2>1 DEF AllInv, JoinInv, JoinsTarget, HandlesInv, HandleAlone
    <3> QED BY <3>1, <3>2, <3>3 DEF WaitsFor
  <2> QED BY <2>0, <2>1
<1>2. Waiting(a) BY DEF WaitRead, Waiting, WaitPlaces
<1>3. ASSUME NEW b \in Actors
      PROVE \/ pc'[b] = pc[b] /\ saved'[b] = saved[b]
            \/ /\ Waiting(b) /\ pc'[b] \in {"w_futex", "w_asleep"}
               /\ saved'[b] \in Tids /\ self[saved'[b]] = obj[b]
               /\ Sound(obj[b]) => WaitsFor(b, saved'[b])
            \/ /\ Waiting(b) /\ pc'[b] = after[b] /\ saved'[b] = saved[b]
               /\ Sound(obj[b]) => Over(b)
  BY <1>1, <1>2 DEF TypeOK
<1> QED BY <1>3, WaitersMove DEF WaitRead, ghosts, Sound

\* FUTEX_WAIT puts the waiter to sleep, unless the wait is over.
LEMMA WaitFutexFacts ==
  ASSUME TypeOK, TypeOK', AllInv, NEW a \in Actors, WaitFutex(a)
  PROVE  \/ pc' = [pc EXCEPT ![a] = "w_asleep"]
         \/ pc' = [pc EXCEPT ![a] = after[a]] /\ (Sound(obj[a]) => Over(a))
<1> USE DEF AllInv, ghosts, Sound
<1>1. pc[a] = "w_futex"
  BY DEF WaitFutex
<1> SUFFICES ASSUME tid[obj[a]] # saved[a], Sound(obj[a]) PROVE Over(a)
  BY DEF WaitFutex, Goto
<1>5. ASSUME NEW t \in Tids, Alive(t), self[t] = obj[a], saved[a] = t
      PROVE  pc[t] = "new" /\ \E b \in Actors : pc[b] = "c_tid" /\ saved[b] = t
  BY <1>1, <1>5 DEF ThreadsInv, TidStored
<1>2. ASSUME Hand(a), NEW t \in Tids, self[t] = obj[a] PROVE ~Alive(t)
  BY <1>1, <1>5, <1>2 DEF ThreadsInv, InUse, ListsInv, HandApart, CreateInv, WaitsForLast
<1>3. ASSUME Failed(a) PROVE ~Alive(saved[a])
  BY <1>1, <1>5, <1>3 DEF CreateInv, ParentOf, ParentAlone, Parent, Cloned
<1>4. ASSUME Joining(a) PROVE ~Alive(target[a])
  BY <1>1, <1>5, <1>4 DEF JoinInv, JoinsTarget, JoinsAlone, JoinWaits, Parent, Cloned,
     TypeOK
<1> QED BY <1>1, <1>2, <1>3, <1>4 DEF Over

\* FUTEX_WAIT keeps the invariant.
LEMMA WaitFutexKeeps ==
  ASSUME TypeOK, TypeOK', AllInv, NEW a \in Actors, WaitFutex(a)
  PROVE  AllInv'
<1>1. Waiting(a) /\ (Sound(obj[a]) => WaitsFor(a, saved[a])) /\ saved' = saved
  BY DEF WaitFutex, Goto, Waiting, WaitPlaces, WaitsFor, AllInv, CreateInv, WaitsForLast,
     JoinInv, JoinWaits, locals
<1>2. ASSUME NEW b \in Actors
      PROVE \/ pc'[b] = pc[b] /\ saved'[b] = saved[b]
            \/ /\ Waiting(b) /\ pc'[b] \in {"w_futex", "w_asleep"} /\ saved'[b] = saved[b]
               /\ Sound(obj[b]) => WaitsFor(b, saved'[b])
            \/ /\ Waiting(b) /\ pc'[b] = after[b] /\ saved'[b] = saved[b]
               /\ Sound(obj[b]) => Over(b)
  BY <1>1, WaitFutexFacts DEF TypeOK
<1> QED BY <1>2, WaitersMove DEF WaitFutex, locals, ghosts, Sound

\* A signal keeps the invariant: the waiter goes round with the same tid.
LEMMA WaitInterruptedKeeps ==
  ASSUME TypeOK, TypeOK', AllInv, NEW a \in Actors, WaitInterrupted(a)
  PROVE  AllInv'
<1>1. Waiting(a) /\ (Sound(obj[a]) => WaitsFor(a, saved[a]))
  BY DEF WaitInterrupted, Goto, Waiting, WaitPlaces, WaitsFor, AllInv, CreateInv,
     WaitsForLast, JoinInv, JoinWaits
<1>2. ASSUME NEW b \in Actors
      PROVE \/ pc'[b] = pc[b] /\ saved'[b] = saved[b]
            \/ /\ Waiting(b) /\ pc'[b] \in {"w_futex", "w_asleep"} /\ saved'[b] = saved[b]
               /\ Sound(obj[b]) => WaitsFor(b, saved'[b])
  BY <1>1 DEF WaitInterrupted, OnSignal, Goto, locals, TypeOK
<1> QED BY <1>2, WaitersMove DEF WaitInterrupted, locals, ghosts, Sound

\* The kernel's wake-up keeps the invariant: the waiter it wakes waited for a thread
\* that is gone, or the descriptor is no longer sound.
LEMMA KernelWakeKeeps ==
  ASSUME TypeOK, TypeOK', AllInv, NEW t \in Tids, KernelWake(t)
  PROVE  AllInv'
<1>1. ASSUME NEW s \in WaitersOn(self[t])
      PROVE  s # t /\ Waiting(s) /\ (obj[s] \notin spoiled' => Over(s))
  <2>1. /\ s \in Actors /\ pc[s] = "w_asleep" /\ obj[s] = self[t] /\ pc[t] = "kernel_wake"
    BY DEF WaitersOn, KernelWake
  <2>2. ASSUME obj[s] \notin spoiled' PROVE ~Alive(saved[s]) /\ Sound(obj[s])
    BY <2>1, <2>2 DEF KernelWake, SpoiledIf, Sound
  <2>3. ASSUME obj[s] \notin spoiled', Hand(s), NEW u \in Tids, self[u] = obj[s]
        PROVE  ~Alive(u)
    BY <2>1, <2>2, <2>3 DEF AllInv, CreateInv, WaitsForLast
  <2>4. obj[s] \notin spoiled' /\ Joining(s) => saved[s] = target[s]
    BY <2>1, <2>2 DEF AllInv, JoinInv, JoinWaits
  <2> QED BY <2>1, <2>2, <2>3, <2>4 DEF Over, Waiting, WaitPlaces
<1>2. /\ saved' = saved /\ pc[t] = "kernel_wake" /\ t \in Actors
      /\ \/ pc' = [pc EXCEPT ![t] = "dead"]
         \/ \E s \in WaitersOn(self[t]) : pc' = [pc EXCEPT ![t] = "dead", ![s] = after[s]]
  BY DEF KernelWake, WakeOne, locals, Actors
<1>3. ASSUME NEW b \in Actors
      PROVE \/ pc'[b] = pc[b] /\ saved'[b] = saved[b]
            \/ b \in Tids /\ pc[b] = "kernel_wake" /\ pc'[b] = "dead" /\ saved'[b] = saved[b]
            \/ /\ Waiting(b) /\ pc'[b] = after[b] /\ saved'[b] = saved[b]
               /\ obj[b] \notin spoiled' => Over(b)
  <2>1. CASE pc' = [pc EXCEPT ![t] = "dead"] BY <1>2, <2>1 DEF TypeOK
  <2>2. CASE \E s \in WaitersOn(self[t]) : pc' = [pc EXCEPT ![t] = "dead", ![s] = after[s]]
    <3>1. PICK s \in WaitersOn(self[t]) : pc' = [pc EXCEPT ![t] = "dead", ![s] = after[s]]
      BY <2>2
    <3>2. s # t /\ s \in Actors BY <1>1 DEF WaitersOn
    <3>3. pc'[t] = "dead" /\ pc'[s] = after[s] BY <3>1, <3>2, <1>2 DEF TypeOK
    <3> QED BY <1>1, <1>2, <3>1, <3>2, <3>3 DEF TypeOK
  <2> QED BY <1>2, <2>1, <2>2
<1>4. spoiled \subseteq spoiled'
  BY DEF KernelWake, SpoiledIf
<1> QED BY <1>3, <1>4, WaitersMove DEF KernelWake, locals

-----------------------------------------------------------------------------
(* tbthread_create                                                         *)

\* Taking the oldest free descriptor keeps the invariant: nobody else works on it.
LEMMA CreateReuseKeeps ==
  ASSUME TypeOK, TypeOK', AllInv, NEW a \in Actors, CreateReuse(a)
  PROVE  AllInv'
<1> USE DEF AllInv, ghosts, Sound, TypeOK, CreateReuse, Goto, Reuse, BeginWait, Actors, fields
<1>1. PlacesInv'
  BY SMTT(20) DEF PlacesInv, PlaceKnown, ThreadPlaces, WaitPlaces
<1>2. ListsInv'
  <2>1. Accounted'
    <3>1. /\ FreeSet = FreeSet' \cup {Head(free)}
          /\ Head(free) \in Descs
      <4>1. free \in Seq(Descs)
        OBVIOUS
      <4>2. {free[i] : i \in DOMAIN free}
              = {Tail(free)[i] : i \in DOMAIN Tail(free)} \cup {Head(free)}
        BY <4>1, HeadTailSet
      <4>3. FreeSet = FreeSet' \cup {Head(free)}
        <5>1. free' = Tail(free)
          OBVIOUS
        <5>2. FreeSet' = {free'[i] : i \in DOMAIN free'}
          BY ZenonT(20) DEF FreeSet
        <5>3. FreeSet' = {Tail(free)[i] : i \in DOMAIN Tail(free)}
          BY ONLY <5>1, <5>2
        <5> QED BY ONLY <4>2, <5>3 DEF FreeSet
      <4>4. Head(free) \in Descs
        BY <4>1, HeadTailSet
      <4> QED BY <4>3, <4>4
    <3>2. Head(free) \notin FreeSet'
      <4>1. /\ 1 \in DOMAIN free /\ Head(free) = free[1]
            /\ \A i \in DOMAIN free' :
                 i \in Nat /\ i # 0 /\ i + 1 \in DOMAIN free /\ free'[i] = free[i + 1]
        BY HeadTailSet
      <4>2. ASSUME NEW i \in DOMAIN free', free'[i] = Head(free) PROVE FALSE
        BY <4>1, <4>2 DEF ListsInv, Distinct
      <4> QED BY <4>2 DEF FreeSet
    <3>3. ASSUME NEW c \in Actors, NEW d \in Descs
          PROVE InHand(c, d)' <=> InHand(c, d) \/ (c = a /\ d = Head(free))
      BY SMTT(20) DEF InHand, WaitPlaces
    <3> QED BY <3>1, <3>2, <3>3 DEF ListsInv, Accounted
  <2>2. Distinct'
    BY SMTT(20) DEF ListsInv, Distinct, FreeSet
  <2>3. ASSUME NEW b \in Actors PROVE HandApart(b)'
    BY SMTT(20) DEF ListsInv, HandApart, Distinct, Hand, Waiting, WaitPlaces, FreeSet
  <2>4. ASSUME NEW b \in Actors PROVE Listed(b)'
    BY SMTT(20) DEF ListsInv, Listed, Fresh, Failed, Waiting, WaitPlaces, Joining
  <2>5. ASSUME NEW b \in Actors PROVE Held(b)'
    BY SMTT(20) DEF ListsInv, Accounted, FreeSet, Held
  <2> QED BY <2>1, <2>2, <2>3, <2>4, <2>5 DEF ListsInv
<1>3. ThreadsInv'
  <2>1. ASSUME NEW u \in Tids PROVE OnDescriptor(u)'
    BY SMTT(20) DEF ThreadsInv, OnDescriptor
  <2>2. ASSUME NEW u \in Tids PROVE AloneOn(u)'
    BY SMTT(20) DEF ThreadsInv, AloneOn, Alive
  <2>3. ASSUME NEW u \in Tids PROVE InUse(u)'
    BY SMTT(20) DEF ThreadsInv, InUse, Alive
  <2>4. ASSUME NEW u \in Tids PROVE TidStored(u)'
    BY SMTT(20) DEF ThreadsInv, TidStored, Alive
  <2> QED BY <2>1, <2>2, <2>3, <2>4 DEF ThreadsInv
<1>4. TidInv'
  BY SMTT(20) DEF TidInv, Alive
<1>5. CreateInv'
  <2>1. ASSUME NEW b \in Actors PROVE OwnsAlone(b)'
    BY SMTT(20) DEF CreateInv, OwnsAlone, Owning, Fresh, Alive
  <2>2. ASSUME NEW b \in Actors PROVE WaitsForLast(b)'
    BY SMTT(20) DEF CreateInv, WaitsForLast, Hand, Waiting, WaitPlaces, Alive
  <2>3. ASSUME NEW b \in Actors PROVE FreshAlone(b)'
    BY SMTT(20) DEF CreateInv, FreshAlone, Fresh
  <2>4. ASSUME NEW b \in Actors PROVE NoHandle(b)'
    BY SMTT(20) DEF CreateInv, NoHandle, Hand, Waiting, WaitPlaces, Fresh
  <2>5. ASSUME NEW b \in Actors PROVE ParentOf(b)'
    BY SMTT(20) DEF CreateInv, ParentOf, Parent, Cloned, Failed, Waiting, WaitPlaces
  <2>6. ASSUME NEW b \in Actors PROVE ChildAlive(b)'
    BY SMTT(20) DEF CreateInv, ChildAlive, Cloned, Alive
  <2>7. ASSUME NEW b \in Actors PROVE ChildKept(b)'
    BY SMTT(20) DEF CreateInv, ListsInv, ChildKept, ParentOf, Distinct, Cloned, Parent,
         Failed, Waiting, WaitPlaces, FreeSet
  <2>8. ASSUME NEW b \in Actors PROVE ChildFailed(b)'
    BY SMTT(20) DEF CreateInv, ListsInv, ChildFailed, ParentOf, Listed, Distinct, Failed,
         Waiting, WaitPlaces, Alive, Parent, Cloned, Fresh, Joining, FreeSet
  <2>9. ASSUME NEW b \in Actors PROVE ParentAlone(b)'
    BY SMTT(20) DEF CreateInv, ParentOf, ParentAlone, Parent, Cloned, Failed, Waiting,
         WaitPlaces
  <2> QED BY <2>1, <2>2, <2>3, <2>4, <2>5, <2>6, <2>7, <2>8, <2>9 DEF CreateInv
<1>6. JoinInv'
  <2>1. ASSUME NEW b \in Actors PROVE JoinsTarget(b)'
    BY SMTT(20) DEF JoinInv, ListsInv, JoinsTarget, Listed, Distinct, Joining, Waiting,
         WaitPlaces, Fresh, Failed, FreeSet
  <2>2. ASSUME NEW b \in Actors PROVE JoinFields(b)'
    BY SMTT(20) DEF JoinInv, JoinFields, Joining, Waiting, WaitPlaces
  <2>3. ASSUME NEW b \in Actors PROVE JoinsAlone(b)'
    BY SMTT(20) DEF JoinInv, JoinsAlone, Joining, Waiting, WaitPlaces, Parent, Cloned,
         Failed
  <2>4. ASSUME NEW b \in Actors PROVE JoinWaits(b)'
    BY SMTT(20) DEF JoinInv, JoinWaits, JoinsTarget, Joining, Waiting, WaitPlaces, Alive
  <2> QED BY <2>1, <2>2, <2>3, <2>4 DEF JoinInv
<1>7. HandlesInv'
  <2>1. ASSUME NEW u \in handles' PROVE HandleAlone(u)'
    BY SMTT(20) DEF HandlesInv, HandleAlone, Alive
  <2>2. ASSUME NEW u \in handles' PROVE HandleEnded(u)'
    <3>1. u \in handles /\ u \in Tids
      OBVIOUS
    <3>2. HandleEnded(u) /\ pc'[u] \in Ended => pc[u] \in Ended
      BY <3>1 DEF HandlesInv, Ended
    <3> QED BY <3>1, <3>2 DEF HandlesInv, HandleEnded
  <2>3. ASSUME NEW u \in handles' PROVE HandleParent(u)'
    BY SMTT(20) DEF HandlesInv, CreateInv, ListsInv, HandleParent, ParentOf, HandleAlone,
         Listed, Parent, Cloned, Failed, Waiting, WaitPlaces, Alive, Fresh, Joining
  <2> QED BY <2>1, <2>2, <2>3 DEF HandlesInv
<1>8. StatusInv'
  <2>1. ASSUME NEW b \in Actors PROVE CloneStatus(b)'
    BY SMTT(20) DEF StatusInv, CloneStatus
  <2>2. ASSUME NEW b \in Actors PROVE ChildStatus(b)'
    BY SMTT(20) DEF StatusInv, CreateInv, ChildStatus, ChildAlive, Starting, Cloned, Alive
  <2>3. ASSUME NEW b \in Actors PROVE FailedStatus(b)'
    BY SMTT(20) DEF StatusInv, FailedStatus, Failed, Waiting, WaitPlaces
  <2>4. ASSUME NEW u \in Tids PROVE RunStatus(u)'
    BY SMTT(20) DEF StatusInv, RunStatus, Alive, Starting
  <2> QED BY <2>1, <2>2, <2>3, <2>4 DEF StatusInv
<1> QED BY <1>1, <1>2, <1>3, <1>4, <1>5, <1>6, <1>7, <1>8

\* So does a new descriptor.
LEMMA CreateNewKeeps ==
  ASSUME TypeOK, TypeOK', AllInv, NEW a \in Actors, CreateNew(a)
  PROVE  AllInv'
<1> USE DEF AllInv, ghosts, Sound, TypeOK, CreateNew, Goto, Malloc, Actors, fields
<1>1. PlacesInv'
  BY SMTT(20) DEF PlacesInv, PlaceKnown, ThreadPlaces, WaitPlaces
<1>2. ListsInv'
  BY SMTT(20) DEF ListsInv, Accounted, Distinct, Held, HandApart, Listed, FreeSet, InHand,
       WaitPlaces, Hand, Waiting, Fresh, Failed, Joining
<1>3. ThreadsInv'
  BY SMTT(20) DEF ThreadsInv, OnDescriptor, AloneOn, InUse, TidStored, Alive
<1>4. TidInv'
  BY SMTT(20) DEF TidInv, Alive
<1>5. CreateInv'
  <2>1. ASSUME NEW b \in Actors PROVE OwnsAlone(b)'
    BY SMTT(20) DEF CreateInv, ThreadsInv, OwnsAlone, OnDescriptor, Owning, Fresh, Alive
  <2>2. ASSUME NEW b \in Actors PROVE WaitsForLast(b)'
    BY SMTT(20) DEF CreateInv, WaitsForLast, Hand, Waiting, WaitPlaces, Alive
  <2>3. ASSUME NEW b \in Actors PROVE FreshAlone(b)'
    BY SMTT(20) DEF CreateInv, FreshAlone, Fresh
  <2>4. ASSUME NEW b \in Actors PROVE NoHandle(b)'
    BY SMTT(20) DEF CreateInv, ThreadsInv, HandlesInv, NoHandle, OnDescriptor, HandleAlone,
         Hand, Waiting, WaitPlaces, Fresh, Alive
  <2>5. ASSUME NEW b \in Actors PROVE ParentOf(b)'
    BY SMTT(20) DEF CreateInv, ParentOf, Parent, Cloned, Failed, Waiting, WaitPlaces
  <2>6. ASSUME NEW b \in Actors PROVE ChildAlive(b)'
    BY SMTT(20) DEF CreateInv, ChildAlive, Cloned, Alive
  <2>7. ASSUME NEW b \in Actors PROVE ChildKept(b)'
    BY SMTT(20) DEF CreateInv, ChildKept, Cloned
  <2>8. ASSUME NEW b \in Actors PROVE ChildFailed(b)'
    BY SMTT(20) DEF CreateInv, ChildFailed, Failed, Waiting, WaitPlaces, Alive
  <2>9. ASSUME NEW b \in Actors PROVE ParentAlone(b)'
    BY SMTT(20) DEF CreateInv, ParentOf, ParentAlone, Parent, Cloned, Failed, Waiting,
         WaitPlaces
  <2> QED BY <2>1, <2>2, <2>3, <2>4, <2>5, <2>6, <2>7, <2>8, <2>9 DEF CreateInv
<1>6. JoinInv'
  BY SMTT(20) DEF JoinInv, JoinsTarget, JoinFields, JoinsAlone, JoinWaits, Joining, Waiting,
       WaitPlaces, Parent, Cloned, Failed, Alive
<1>7. HandlesInv'
  BY SMTT(20) DEF HandlesInv, HandleAlone, HandleEnded, HandleParent, Alive, Ended, Parent,
       Cloned, Failed, Waiting, WaitPlaces
<1>8. StatusInv'
  BY SMTT(20) DEF StatusInv, CloneStatus, ChildStatus, FailedStatus, RunStatus, Starting,
       Failed, Waiting, WaitPlaces, Alive
<1> QED BY <1>1, <1>2, <1>3, <1>4, <1>5, <1>6, <1>7, <1>8

\* So does a stack without a guard page: the creator holds no descriptor.
LEMMA CreateUnguardedKeeps ==
  ASSUME TypeOK, TypeOK', AllInv, NEW a \in Actors, CreateUnguarded(a)
  PROVE  AllInv'
<1> USE DEF AllInv, ghosts, Sound, TypeOK, CreateUnguarded, Goto, Actors, lists, fields, locals
<1>0. pc[a] = "run" /\ obj[a] = NoDesc /\ after[a] = "c_add"
  BY DEF PlacesInv, PlaceKnown, ThreadPlaces, WaitPlaces
<1>00. ASSUME NEW b \in Actors
       PROVE /\ Fresh(b)' <=> Fresh(b)
             /\ Hand(b)' <=> Hand(b)
             /\ Waiting(b)' <=> Waiting(b)
             /\ Failed(b)' <=> Failed(b)
             /\ Cloned(b)' <=> Cloned(b)
             /\ Joining(b)' <=> Joining(b)
             /\ Parent(b)' <=> Parent(b)
             /\ Owning(b)' <=> Owning(b)
             /\ b = a \/ pc'[b] = pc[b]
  BY <1>0 DEF Fresh, Hand, Waiting, Failed, Cloned, Joining, Parent, Owning, WaitPlaces
<1>01. ASSUME NEW t \in Tids
       PROVE  (Alive(t)' <=> Alive(t)) /\ (t = a \/ pc'[t] = pc[t])
  BY <1>0 DEF Alive
<1>02. pc'[a] = "c_release"
  OBVIOUS
<1>1. PlacesInv'
  BY <1>0 DEF PlacesInv, PlaceKnown, ThreadPlaces, WaitPlaces
<1>2. ListsInv'
  <2>1. Accounted' /\ Distinct'
    BY <1>0 DEF ListsInv, Accounted, Distinct, FreeSet, InHand, WaitPlaces
  <2>2. ASSUME NEW b \in Actors PROVE Held(b)' /\ HandApart(b)' /\ Listed(b)'
    BY <1>00 DEF ListsInv, Held, HandApart, Listed, FreeSet
  <2> QED BY <2>1, <2>2 DEF ListsInv
<1>3. ThreadsInv'
  BY <1>0, <1>01, <1>02 DEF ThreadsInv, OnDescriptor, AloneOn, InUse, TidStored
<1>4. TidInv'
  BY <1>01 DEF TidInv
<1>5. CreateInv'
  <2>1. ASSUME NEW b \in Actors
        PROVE  (OwnsAlone(b) /\ WaitsForLast(b) /\ FreshAlone(b) /\ NoHandle(b))'
    BY <1>0, <1>00, <1>01, <1>02 DEF CreateInv, OwnsAlone, WaitsForLast, FreshAlone, NoHandle
  <2>2. ASSUME NEW b \in Actors PROVE (ParentOf(b) /\ ParentAlone(b))'
    BY <1>0, <1>00 DEF CreateInv, ParentOf, ParentAlone
  <2>3. ASSUME NEW b \in Actors PROVE (ChildAlive(b) /\ ChildKept(b) /\ ChildFailed(b))'
    BY <1>0, <1>00, <1>01, <1>02 DEF CreateInv, ChildAlive, ChildKept, ChildFailed, ParentOf,
       Parent, Cloned, Failed
  <2> QED BY <2>1, <2>2, <2>3 DEF CreateInv
<1>6. JoinInv'
  BY <1>0, <1>00, <1>01, <1>02 DEF JoinInv, JoinsTarget, JoinFields, JoinsAlone, JoinWaits
<1>7. HandlesInv'
  BY <1>0, <1>00, <1>01, <1>02 DEF HandlesInv, HandleAlone, HandleEnded, HandleParent, Ended
<1>8. StatusInv'
  BY <1>0, <1>00, <1>01, <1>02 DEF StatusInv, CloneStatus, ChildStatus, FailedStatus, RunStatus,
     Starting
<1> QED BY <1>1, <1>2, <1>3, <1>4, <1>5, <1>6, <1>7, <1>8

\* A call of tbthread_create keeps the invariant.
LEMMA CreateCallKeeps ==
  ASSUME TypeOK, TypeOK', AllInv, NEW a \in Actors, CreateCall(a)
  PROVE  AllInv'
BY CreateReuseKeeps, CreateNewKeeps, CreateUnguardedKeeps DEF CreateCall

\* Listing the descriptor in used_desc keeps the invariant.
LEMMA CreateAddKeeps ==
  ASSUME TypeOK, TypeOK', AllInv, NEW a \in Actors, CreateAdd(a)
  PROVE  AllInv'
<1> USE DEF AllInv, ghosts, Sound, TypeOK, CreateAdd, Goto, List, Actors, fields, locals
<1>1. PlacesInv'
  BY SMTT(20) DEF PlacesInv, PlaceKnown, ThreadPlaces, WaitPlaces
<1>2. ListsInv'
  BY SMTT(20) DEF ListsInv, Accounted, Distinct, Held, HandApart, Listed, FreeSet, InHand,
       WaitPlaces, Hand, Waiting, Fresh, Failed, Joining
<1>3. ThreadsInv'
  BY SMTT(20) DEF ThreadsInv, OnDescriptor, AloneOn, InUse, TidStored, Alive
<1>4. TidInv'
  BY SMTT(20) DEF TidInv, Alive
<1>5. CreateInv'
  <2>1. ASSUME NEW b \in Actors PROVE OwnsAlone(b)'
    BY SMTT(20) DEF CreateInv, OwnsAlone, Owning, Fresh, Alive
  <2>2. ASSUME NEW b \in Actors PROVE WaitsForLast(b)'
    BY SMTT(20) DEF CreateInv, WaitsForLast, Hand, Waiting, WaitPlaces, Alive
  <2>3. ASSUME NEW b \in Actors PROVE FreshAlone(b)'
    BY SMTT(20) DEF CreateInv, ListsInv, FreshAlone, Listed, HandApart, Fresh, Failed,
         Waiting, WaitPlaces, Joining, Hand, FreeSet
  <2>4. ASSUME NEW b \in Actors PROVE NoHandle(b)'
    BY SMTT(20) DEF CreateInv, NoHandle, Hand, Waiting, WaitPlaces, Fresh
  <2>5. ASSUME NEW b \in Actors PROVE ParentOf(b)'
    BY SMTT(20) DEF CreateInv, ParentOf, Parent, Cloned, Failed, Waiting, WaitPlaces
  <2>6. ASSUME NEW b \in Actors PROVE ChildAlive(b)'
    BY SMTT(20) DEF CreateInv, ChildAlive, Cloned, Alive
  <2>7. ASSUME NEW b \in Actors PROVE ChildKept(b)'
    BY SMTT(20) DEF CreateInv, ChildKept, Cloned
  <2>8. ASSUME NEW b \in Actors PROVE ChildFailed(b)'
    BY SMTT(20) DEF CreateInv, ChildFailed, Failed, Waiting, WaitPlaces, Alive
  <2>9. ASSUME NEW b \in Actors PROVE ParentAlone(b)'
    BY SMTT(20) DEF CreateInv, ParentOf, ParentAlone, Parent, Cloned, Failed, Waiting,
         WaitPlaces
  <2> QED BY <2>1, <2>2, <2>3, <2>4, <2>5, <2>6, <2>7, <2>8, <2>9 DEF CreateInv
<1>6. JoinInv'
  BY SMTT(20) DEF JoinInv, JoinsTarget, JoinFields, JoinsAlone, JoinWaits, Joining, Waiting,
       WaitPlaces, Parent, Cloned, Failed, Alive
<1>7. HandlesInv'
  <2>1. ASSUME NEW u \in handles' PROVE HandleAlone(u)'
    BY SMTT(20) DEF HandlesInv, HandleAlone, Alive
  <2>2. ASSUME NEW u \in handles' PROVE HandleEnded(u)'
    BY SMTT(20) DEF HandlesInv, HandleEnded, Ended
  <2>3. ASSUME NEW u \in handles' PROVE HandleParent(u)'
    BY SMTT(20) DEF HandlesInv, CreateInv, HandleParent, ParentOf, ChildFailed, NoHandle,
         Parent, Cloned, Failed, Waiting, WaitPlaces, Alive, Hand, Fresh
  <2> QED BY <2>1, <2>2, <2>3 DEF HandlesInv
<1>8. StatusInv'
  BY SMTT(20) DEF StatusInv, CloneStatus, ChildStatus, FailedStatus, RunStatus, Starting,
       Failed, Waiting, WaitPlaces, Alive
<1> QED BY <1>1, <1>2, <1>3, <1>4, <1>5, <1>6, <1>7, <1>8

\* The initial values of the fields keep the invariant: no thread uses them.
LEMMA CreateInitKeeps ==
  ASSUME TypeOK, TypeOK', AllInv, NEW a \in Actors, CreateInit(a)
  PROVE  AllInv'
<1> USE DEF AllInv, ghosts, Sound, TypeOK, CreateInit, Goto, Actors, lists
<1>1. PlacesInv'
  BY SMTT(20) DEF PlacesInv, PlaceKnown, ThreadPlaces, WaitPlaces
<1>2. ListsInv'
  BY SMTT(20) DEF ListsInv, Accounted, Distinct, Held, HandApart, Listed, FreeSet, InHand,
       WaitPlaces, Hand, Waiting, Fresh, Failed, Joining
<1>3. ThreadsInv'
  <2>1. ASSUME NEW u \in Tids PROVE OnDescriptor(u)'
    BY SMTT(20) DEF ThreadsInv, OnDescriptor
  <2>2. ASSUME NEW u \in Tids PROVE AloneOn(u)'
    BY SMTT(20) DEF ThreadsInv, AloneOn, Alive
  <2>3. ASSUME NEW u \in Tids PROVE InUse(u)'
    BY SMTT(20) DEF ThreadsInv, InUse, Alive
  <2>4. ASSUME NEW u \in Tids PROVE TidStored(u)'
    BY SMTT(20) DEF ThreadsInv, CreateInv, TidStored, OwnsAlone, Alive, Owning, Fresh
  <2> QED BY <2>1, <2>2, <2>3, <2>4 DEF ThreadsInv
<1>4. TidInv'
  BY SMTT(20) DEF TidInv, Alive
<1>5. CreateInv'
  <2>1. ASSUME NEW b \in Actors PROVE (OwnsAlone(b) /\ WaitsForLast(b))'
    BY SMTT(20) DEF CreateInv, OwnsAlone, WaitsForLast, Owning, Fresh, Alive, Hand, Waiting,
         WaitPlaces
  <2>2. ASSUME NEW b \in Actors PROVE (FreshAlone(b) /\ NoHandle(b))'
    BY SMTT(20) DEF CreateInv, FreshAlone, NoHandle, Fresh, Hand, Waiting, WaitPlaces
  <2>3. ASSUME NEW b \in Actors PROVE (ParentOf(b) /\ ParentAlone(b))'
    BY SMTT(20) DEF CreateInv, ParentOf, ParentAlone, Parent, Cloned, Failed, Waiting,
         WaitPlaces
  <2>4. ASSUME NEW b \in Actors PROVE ChildAlive(b)' /\ ChildFailed(b)'
    BY SMTT(20) DEF CreateInv, ChildAlive, ChildFailed, Failed, Waiting, WaitPlaces, Alive
  <2>5. ASSUME NEW b \in Actors PROVE ChildKept(b)'
    <3>1. ASSUME Cloned(b), obj[b] = obj[a], Sound(obj[a]) PROVE FALSE
      <4>1. saved[b] \in Tids /\ self[saved[b]] = obj[a]
        BY <3>1 DEF CreateInv, ParentOf, Parent
      <4>2. Fresh(a) /\ Owning(a)
        BY DEF Fresh, Owning
      <4>3. ~Alive(saved[b]) /\ saved[b] \notin handles
        BY <3>1, <4>1, <4>2 DEF CreateInv, OwnsAlone, NoHandle
      <4>4. start_status[obj[a]] = "ok" /\ pc[b] # "c_tid"
        BY <3>1, <4>3 DEF CreateInv, ChildKept, ChildAlive
      <4> QED BY <3>1, <4>4 DEF StatusInv, ChildStatus, FailedStatus, Cloned
    <3>2. Cloned(b)' => Cloned(b) /\ b # a
      BY DEF Cloned
    <3> QED BY <3>1, <3>2 DEF CreateInv, ChildKept
  <2> QED BY <2>1, <2>2, <2>3, <2>4, <2>5 DEF CreateInv
<1>6. JoinInv'
  <2>1. ASSUME NEW b \in Actors PROVE JoinsTarget(b)'
    BY SMTT(20) DEF JoinInv, JoinsTarget, Joining, Waiting, WaitPlaces
  <2>2. ASSUME NEW b \in Actors PROVE JoinFields(b)'
    BY SMTT(20) DEF JoinInv, CreateInv, JoinFields, JoinsTarget, NoHandle, Joining, Waiting,
         WaitPlaces, Hand, Fresh
  <2>3. ASSUME NEW b \in Actors PROVE JoinsAlone(b)'
    BY SMTT(20) DEF JoinInv, JoinsAlone, Joining, Waiting, WaitPlaces, Parent, Cloned,
         Failed
  <2>4. ASSUME NEW b \in Actors PROVE JoinWaits(b)'
    BY SMTT(20) DEF JoinInv, JoinWaits, JoinsTarget, Joining, Waiting, WaitPlaces, Alive
  <2> QED BY <2>1, <2>2, <2>3, <2>4 DEF JoinInv
<1>7. HandlesInv'
  <2>1. ASSUME NEW u \in handles' PROVE HandleAlone(u)'
    BY SMTT(20) DEF HandlesInv, HandleAlone, Alive
  <2>2. ASSUME NEW u \in handles' PROVE HandleEnded(u)'
    BY SMTT(20) DEF HandlesInv, CreateInv, HandleEnded, NoHandle, Ended, Hand, Waiting,
         WaitPlaces, Fresh
  <2>3. ASSUME NEW u \in handles' PROVE HandleParent(u)'
    BY SMTT(20) DEF HandlesInv, CreateInv, StatusInv, HandleParent, NoHandle, CloneStatus,
         ChildStatus, ChildAlive, Parent, Cloned, Failed, Waiting, WaitPlaces, Hand, Fresh,
         Starting, Alive
  <2> QED BY <2>1, <2>2, <2>3 DEF HandlesInv
<1>8. StatusInv'
  <2>1. ASSUME NEW b \in Actors PROVE CloneStatus(b)'
    BY SMTT(20) DEF StatusInv, CreateInv, CloneStatus, FreshAlone, Fresh
  <2>2. ASSUME NEW b \in Actors PROVE ChildStatus(b)'
    BY SMTT(20) DEF StatusInv, CreateInv, ChildStatus, ParentOf, ChildAlive, OwnsAlone,
         Starting, Parent, Cloned, Failed, Waiting, WaitPlaces, Alive, Owning, Fresh
  <2>3. ASSUME NEW b \in Actors PROVE FailedStatus(b)'
    BY SMTT(20) DEF StatusInv, CreateInv, FailedStatus, ParentOf, ChildAlive, OwnsAlone,
         NoHandle, ChildFailed, ChildKept, Failed, Waiting, WaitPlaces, Parent, Cloned, Alive, Owning,
         Fresh, Hand
  <2>4. ASSUME NEW u \in Tids PROVE RunStatus(u)'
    BY SMTT(20) DEF StatusInv, CreateInv, RunStatus, OwnsAlone, Alive, Starting, Owning,
         Fresh
  <2> QED BY <2>1, <2>2, <2>3, <2>4 DEF StatusInv
<1> QED BY <1>1, <1>2, <1>3, <1>4, <1>5, <1>6, <1>7, <1>8

\* A clone that succeeds keeps the invariant: the child has the descriptor to itself.
LEMMA CloneSucceeds ==
  ASSUME TypeOK, TypeOK', AllInv, NEW a \in Actors, NEW t \in Tids,
         HasDescriptor(a), pc[a] = "c_clone", pc[t] = "none",
         pc' = [pc EXCEPT ![a] = "c_tid", ![t] = "new"],
         self' = [self EXCEPT ![t] = obj[a]],
         saved' = [saved EXCEPT ![a] = t],
         handles' = handles \cup {t},
         UNCHANGED <<lists, fields, obj, after, explicit, target, spoiled>>
  PROVE  AllInv'
<1> USE DEF AllInv, ghosts, Sound
<1>0. /\ allocated' = allocated /\ used' = used /\ free' = free /\ join_status' = join_status
      /\ joiner' = joiner /\ tid' = tid /\ retval' = retval /\ start_status' = start_status
      /\ obj' = obj /\ after' = after /\ explicit' = explicit /\ target' = target
      /\ spoiled' = spoiled
  BY DEF lists, fields
<1>1. /\ t # a /\ t \in Actors
      /\ pc'[a] = "c_tid" /\ pc'[t] = "new"
      /\ saved'[a] = t /\ self'[t] = obj[a] /\ t \in handles'
  BY DEF TypeOK, Actors
<1>2. /\ \A b \in Actors \ {a, t} : pc'[b] = pc[b]
      /\ \A b \in Actors \ {a} : saved'[b] = saved[b]
      /\ \A u \in Tids \ {t} : self'[u] = self[u]
  BY DEF TypeOK
<1>3. /\ Fresh(a) /\ after[a] = "c_add"
      /\ obj[a] \in Descs /\ obj[a] \in allocated
      /\ \A u \in handles : u # t
      /\ self[t] = NoDesc
  BY ConstantsAssumption DEF Fresh, PlacesInv, PlaceKnown, WaitPlaces, HasDescriptor, ListsInv, Held,
     HandlesInv, HandleAlone, ThreadsInv, OnDescriptor
<1>s. ASSUME Sound(obj[a])
      PROVE
      /\ obj[a] \in used
      /\ \A u \in Tids : self[u] = obj[a] => ~Alive(u)
      /\ \A u \in handles : self[u] # obj[a]
      /\ \A b \in Actors : Hand(b) => obj[b] # obj[a]
      /\ \A b \in Actors : Fresh(b) /\ obj[b] = obj[a] => b = a
      /\ start_status[obj[a]] = IF explicit[a] THEN "wait" ELSE "ok"
      /\ tid[obj[a]] = NoTid
  <2>1. Fresh(a) BY <1>3
  <2>2. obj[a] \in used
    BY <2>1, <1>s DEF ListsInv, Listed
  <2>3. \A u \in Tids : self[u] = obj[a] => ~Alive(u)
    BY <2>1, <1>s DEF CreateInv, OwnsAlone, Owning
  <2>4. tid[obj[a]] = NoTid
    BY <2>3, <1>3, <1>s DEF TidInv, TypeOK
  <2>5. \A u \in handles : self[u] # obj[a]
    BY <2>1, <1>s DEF CreateInv, NoHandle
  <2>6. \A b \in Actors : Hand(b) => obj[b] # obj[a]
    BY <2>2 DEF ListsInv, HandApart
  <2>7. \A b \in Actors : Fresh(b) /\ obj[b] = obj[a] => b = a
    BY <2>1, <1>s DEF CreateInv, FreshAlone
  <2>8. start_status[obj[a]] = IF explicit[a] THEN "wait" ELSE "ok"
    BY <1>s DEF StatusInv, CloneStatus
  <2> QED BY <2>1, <2>2, <2>3, <2>4, <2>5, <2>6, <2>7, <2>8
<1>4. ASSUME NEW b \in Actors
      PROVE /\ Hand(b)' <=> Hand(b)
            /\ Fresh(b)' <=> b # a /\ Fresh(b)
            /\ Owning(b)' => Owning(b)
            /\ Failed(b)' <=> Failed(b)
            /\ Joining(b)' <=> Joining(b)
            /\ Cloned(b)' <=> b = a \/ Cloned(b)
            /\ Parent(b)' <=> b = a \/ Parent(b)
            /\ Hand(b) \/ Failed(b) \/ Joining(b) \/ Cloned(b) => b # a /\ b # t
  BY <1>0, <1>1, <1>2 DEF Hand, Fresh, Owning, Failed, Joining, Cloned, Parent, Waiting,
     WaitPlaces
<1>5. ASSUME NEW u \in Tids
      PROVE /\ Alive(u)' <=> u = t \/ Alive(u)
            /\ ~Alive(t)
  BY <1>1, <1>2 DEF Alive, Actors
<1>6. ASSUME NEW u \in Tids, u # t
      PROVE /\ self'[u] = self[u]
            /\ \A x \in {"none", "kernel_exit"} : pc'[u] = x <=> pc[u] = x
            /\ Alive(u)' <=> Alive(u)
  BY <1>1, <1>2, <1>5, <1>6 DEF Actors
<1>a. PlacesInv'
  <2>1. (pc[Main] \notin ThreadPlaces \ {"run"})'
    BY <1>1, <1>2, ConstantsAssumption DEF TypeOK, PlacesInv, ThreadPlaces, Actors
  <2>2. ASSUME NEW b \in Actors PROVE PlaceKnown(b)'
    BY <1>0, <1>1, <1>2, <1>3, ZenonT(60) DEF PlacesInv, PlaceKnown, WaitPlaces, ThreadPlaces
  <2> QED BY <2>1, <2>2 DEF PlacesInv
<1>b. ListsInv'
  <2>0. FreeSet' = FreeSet
    BY <1>0 DEF FreeSet
  <2>1. ASSUME NEW b \in Actors, NEW d \in Descs PROVE InHand(b, d)' <=> InHand(b, d)
    BY <1>0, <1>4 DEF InHand, Hand, Waiting
  <2>2. Accounted' /\ Distinct'
    BY <2>0, <2>1, <1>0 DEF ListsInv, Accounted, Distinct
  <2>3. ASSUME NEW b \in Actors PROVE Held(b)' /\ HandApart(b)' /\ Listed(b)'
    BY <2>0, <1>0, <1>4 DEF ListsInv, Held, HandApart, Listed
  <2> QED BY <2>2, <2>3 DEF ListsInv
<1>c. ThreadsInv'
  <2> SUFFICES ASSUME NEW u \in Tids
               PROVE (OnDescriptor(u) /\ AloneOn(u) /\ InUse(u) /\ TidStored(u))'
    BY DEF ThreadsInv
  <2>0. OnDescriptor(u) /\ AloneOn(u) /\ InUse(u) /\ TidStored(u)
    BY DEF ThreadsInv
  <2>1. OnDescriptor(u)'
    <3>1. CASE u = t BY <3>1, <1>0, <1>1, <1>3 DEF OnDescriptor
    <3>2. CASE u # t
      <4>1. self'[u] = self[u] /\ (pc'[u] = "none" <=> pc[u] = "none") BY <3>2, <1>6
      <4> QED BY <4>1, <2>0, <1>0 DEF OnDescriptor
    <3> QED BY <3>1, <3>2
  <2>2. AloneOn(u)'
    BY <2>0, <1>0, <1>1, <1>2, <1>s, <1>5 DEF AloneOn
  <2>3. InUse(u)'
    <3>1. CASE u = t BY <3>1, <1>0, <1>1, <1>s DEF InUse
    <3>2. CASE u # t BY <3>2, <2>0, <1>0, <1>6 DEF InUse
    <3> QED BY <3>1, <3>2
  <2>4. TidStored(u)'
    <3>1. CASE u = t BY <3>1, <1>1 DEF TidStored
    <3>2. CASE u # t
      <4>1. \A b \in Actors : pc[b] = "c_tid" => pc'[b] = "c_tid" /\ saved'[b] = saved[b]
        BY <1>1, <1>2
      <4> QED BY <3>2, <4>1, <2>0, <1>0, <1>1, <1>2, <1>5, ZenonT(60) DEF TidStored, Actors, Alive
    <3> QED BY <3>1, <3>2
  <2> QED BY <2>1, <2>2, <2>3, <2>4
<1>d. TidInv'
  BY <1>0, <1>2, <1>3, <1>5, ConstantsAssumption DEF TidInv, TypeOK
<1>e. CreateInv'
  <2> SUFFICES ASSUME NEW b \in Actors
               PROVE /\ (OwnsAlone(b) /\ WaitsForLast(b) /\ FreshAlone(b) /\ NoHandle(b))'
                     /\ (ParentOf(b) /\ ParentAlone(b))'
                     /\ (ChildAlive(b) /\ ChildKept(b) /\ ChildFailed(b))'
    BY DEF CreateInv
  <2>0. /\ OwnsAlone(b) /\ WaitsForLast(b) /\ FreshAlone(b) /\ NoHandle(b)
        /\ ParentOf(b) /\ ParentAlone(b) /\ ChildAlive(b) /\ ChildKept(b) /\ ChildFailed(b)
    BY DEF CreateInv
  <2>1. OwnsAlone(b)'
    <3>1. Owning(b)' /\ Sound(obj[b]) => obj[b] # obj[a]
      BY <1>1, <1>s, <1>4 DEF Owning, Hand
    <3> QED BY <2>0, <3>1, <1>0, <1>1, <1>2, <1>4, <1>5 DEF OwnsAlone
  <2>2. WaitsForLast(b)'
    <3> SUFFICES ASSUME Hand(b)', Sound(obj[b])', pc'[b] \in {"w_futex", "w_asleep"}, NEW u \in Tids,
                        self'[u] = obj'[b], Alive(u)'
                 PROVE  saved'[b] = u
      BY DEF WaitsForLast
    <3>1. Hand(b) /\ b # a /\ b # t BY <1>4
    <3>2. u # t BY <3>1, <1>0, <1>1, <1>s
    <3>3. pc'[b] = pc[b] /\ saved'[b] = saved[b] /\ obj'[b] = obj[b] BY <3>1, <1>0, <1>2
    <3>4. self[u] = obj[b] /\ Alive(u) BY <3>2, <3>3, <1>6
    <3> QED BY <3>1, <3>3, <3>4, <2>0, <1>0 DEF WaitsForLast
  <2>3. FreshAlone(b)' /\ NoHandle(b)'
    BY <2>0, <1>0, <1>1, <1>2, <1>s, <1>4 DEF FreshAlone, NoHandle, TypeOK
  <2>4. \A c \in Actors : Parent(c) => saved[c] # t
    BY <1>3, ConstantsAssumption DEF CreateInv, ParentOf
  <2>5. ParentOf(b)' /\ ParentAlone(b)'
    BY <2>0, <2>4, <1>0, <1>1, <1>2, <1>3, <1>4 DEF ParentOf, ParentAlone
  <2>6. ChildAlive(b)'
    BY <2>0, <1>0, <1>1, <1>2, <1>5 DEF ChildAlive, ParentOf, Parent, Cloned
  <2>8. ChildKept(b)'
    <3>1. CASE b = a
      BY <3>1, <1>0, <1>1, <1>s DEF ChildKept
    <3>2. CASE b # a
      <4>1. (Cloned(b)' <=> Cloned(b)) /\ saved'[b] = saved[b] BY <3>2, <1>2, <1>4
      <4> QED BY <4>1, <2>0, <1>0 DEF ChildKept
    <3> QED BY <3>1, <3>2
  <2>7. ChildFailed(b)'
    <3>1. pc'[b] = "c_release" => pc[b] = "c_release" /\ b # a /\ b # t BY <1>1, <1>2
    <3>2. pc[b] = "c_release" /\ after[b] = "c_release" => saved[b] \in Tids /\ saved[b] # t
      BY <2>0, <2>4 DEF ParentOf, Parent, Failed
    <3> QED BY <2>0, <3>1, <3>2, <1>0, <1>1, <1>2, <1>4, <1>5 DEF ChildFailed
  <2> QED BY <2>1, <2>2, <2>3, <2>5, <2>6, <2>7, <2>8
<1>f. JoinInv'
  <2> SUFFICES ASSUME NEW b \in Actors, Joining(b), Sound(obj[b])
               PROVE (JoinsTarget(b) /\ JoinFields(b) /\ JoinsAlone(b) /\ JoinWaits(b))'
    BY <1>0, <1>4 DEF JoinInv, JoinsTarget, JoinFields, JoinsAlone, JoinWaits
  <2>0. JoinsTarget(b) /\ JoinFields(b) /\ JoinsAlone(b) /\ JoinWaits(b) /\ b # a /\ b # t
    BY <1>4 DEF JoinInv
  <2>1. target[b] \in handles /\ target[b] \in Tids /\ target[b] # t
    BY <2>0, <1>3 DEF JoinsTarget, TypeOK
  <2>2. JoinsTarget(b)'
    BY <2>0, <2>1, <1>0, <1>1, <1>2, ZenonT(60) DEF JoinsTarget, Actors
  <2>3. JoinFields(b)' /\ JoinsAlone(b)'
    BY <2>0, <2>1, <1>0, <1>1, <1>2, <1>4 DEF JoinFields, JoinsAlone
  <2>4. JoinWaits(b)'
    BY <2>0, <2>1, <1>0, <1>2, <1>5 DEF JoinWaits
  <2> QED BY <2>2, <2>3, <2>4
<1>g. HandlesInv'
  <2> SUFFICES ASSUME NEW u \in handles'
               PROVE  (HandleAlone(u) /\ HandleEnded(u) /\ HandleParent(u))'
    BY DEF HandlesInv
  <2>1. CASE u = t
    <3>1. HandleAlone(t)'
      BY <1>0, <1>1, <1>2, <1>s, <1>5 DEF HandleAlone, TypeOK
    <3>2. HandleEnded(t)' /\ HandleParent(t)'
      BY <1>1, <1>4 DEF HandleEnded, HandleParent, Ended
    <3> QED BY <2>1, <3>1, <3>2
  <2>2. CASE u # t
    <3>0. /\ u \in handles /\ u \in Tids /\ self'[u] = self[u]
          /\ Sound(self[u]) => self[u] # obj[a]
          /\ HandleAlone(u) /\ HandleEnded(u) /\ HandleParent(u)
      BY <2>2, <1>2, <1>s DEF HandlesInv, TypeOK
    <3>1. pc'[u] # "none" /\ (pc'[u] \in Ended => pc[u] \in Ended)
      BY <2>2, <3>0, <1>1, <1>2 DEF HandleAlone, Ended, Actors
    <3>2. HandleAlone(u)'
      BY <3>0, <3>1, <1>0, <1>1, <1>2, <1>5 DEF HandleAlone, TypeOK
    <3>3. HandleEnded(u)'
      BY <3>0, <3>1, <1>0 DEF HandleEnded
    <3>4. HandleParent(u)'
      <4>1. \A b \in Actors : Parent(b) => b # a
        BY <1>4 DEF Parent
      <4> QED BY <3>0, <4>1, <1>0, <1>2, <1>4 DEF HandleParent
    <3> QED BY <3>2, <3>3, <3>4
  <2> QED BY <2>1, <2>2
<1>h. StatusInv'
  <2>1. ASSUME NEW b \in Actors PROVE (CloneStatus(b) /\ ChildStatus(b) /\ FailedStatus(b))'
    <3>0. CloneStatus(b) /\ ChildStatus(b) /\ FailedStatus(b) /\ ParentOf(b) /\ ChildAlive(b)
      BY DEF StatusInv, CreateInv
    <3>1. CloneStatus(b)' BY <3>0, <1>0, <1>1, <1>2 DEF CloneStatus
    <3>2. ChildStatus(b)'
      <4>1. CASE b = a
        <5>1. CASE explicit[a] BY <4>1, <5>1, <1>0, <1>1, <1>s DEF ChildStatus, Starting
        <5>2. CASE ~explicit[a] BY <4>1, <5>2, <1>0, <1>1, <1>s DEF ChildStatus
        <5> QED BY <5>1, <5>2
      <4>2. CASE b # a
        <5> SUFFICES ASSUME pc'[b] \in {"c_tid", "c_sched"} PROVE ChildStatus(b)'
          BY DEF ChildStatus
        <5>1. pc'[b] = pc[b] /\ saved'[b] = saved[b] /\ saved[b] \in Tids
          BY <4>2, <3>0, <1>1, <1>2 DEF ParentOf, Parent, Cloned
        <5>2. pc[saved[b]] \in Starting => pc'[saved[b]] = pc[saved[b]]
          BY <5>1, <1>2 DEF Starting, Actors
        <5> QED BY <5>1, <5>2, <3>0, <1>0 DEF ChildStatus
      <4> QED BY <4>1, <4>2
    <3>3. FailedStatus(b)' BY <3>0, <1>0, <1>1, <1>2, <1>4 DEF FailedStatus
    <3> QED BY <3>1, <3>2, <3>3
  <2>2. ASSUME NEW u \in Tids PROVE RunStatus(u)'
    BY <1>0, <1>1, <1>2, <1>5, ZenonT(60) DEF StatusInv, RunStatus, Starting, Actors
  <2> QED BY <2>1, <2>2 DEF StatusInv
<1> QED BY <1>a, <1>b, <1>c, <1>d, <1>e, <1>f, <1>g, <1>h

\* A clone that fails keeps the invariant: the descriptor is still to be released.
LEMMA CloneFails ==
  ASSUME TypeOK, TypeOK', AllInv, NEW a \in Actors,
         Goto(a, "c_clone", "c_release"),
         UNCHANGED <<lists, fields, self, locals, ghosts>>
  PROVE  AllInv'
<1> USE DEF AllInv, ghosts, Sound, TypeOK, Goto, Actors, lists, fields, locals
<1>0. after[a] = "c_add"
  BY DEF PlacesInv, PlaceKnown, WaitPlaces
<1>1. PlacesInv'
  BY <1>0 DEF PlacesInv, PlaceKnown, ThreadPlaces, WaitPlaces
<1>2. ListsInv'
  BY <1>0, SMTT(20) DEF ListsInv, Accounted, Distinct, Held, HandApart, Listed, FreeSet, InHand,
       WaitPlaces, Hand, Waiting, Fresh, Failed, Joining
<1>3. ThreadsInv'
  BY DEF ThreadsInv, OnDescriptor, AloneOn, InUse, TidStored, Alive
<1>4. TidInv'
  BY DEF TidInv, Alive
<1>5. CreateInv'
  <2>1. ASSUME NEW b \in Actors
        PROVE  OwnsAlone(b)' /\ WaitsForLast(b)' /\ FreshAlone(b)' /\ NoHandle(b)'
    BY <1>0, SMTT(20) DEF CreateInv, OwnsAlone, WaitsForLast, FreshAlone, NoHandle,
       Owning, Fresh, Alive,
         Hand, Waiting, WaitPlaces
  <2>2. ASSUME NEW b \in Actors
        PROVE  ChildAlive(b)' /\ ChildKept(b)' /\ ChildFailed(b)'
    BY <1>0, SMTT(20) DEF CreateInv, ChildAlive, ChildKept, ChildFailed, Parent, Cloned,
       Failed, Alive, Waiting, WaitPlaces
  <2>3. ASSUME NEW b \in Actors PROVE ParentOf(b)' /\ ParentAlone(b)'
    BY <1>0, SMTT(20) DEF CreateInv, ParentOf, ParentAlone, Parent, Cloned, Failed, Waiting,
       WaitPlaces
  <2> QED BY <2>1, <2>2, <2>3 DEF CreateInv
<1>6. JoinInv'
  BY <1>0, SMTT(20) DEF JoinInv, JoinsTarget, JoinFields, JoinsAlone, JoinWaits, Joining,
     Waiting, WaitPlaces,
       Parent, Cloned, Failed, Alive
<1>7. HandlesInv'
  BY <1>0, SMTT(20) DEF HandlesInv, HandleAlone, HandleEnded, HandleParent, Alive, Ended,
     Parent, Cloned,
       Failed, Waiting, WaitPlaces
<1>8. StatusInv'
  BY <1>0, SMTT(20) DEF StatusInv, CloneStatus, ChildStatus, FailedStatus, RunStatus,
     Starting, Failed, Waiting,
       WaitPlaces, Alive
<1> QED BY <1>1, <1>2, <1>3, <1>4, <1>5, <1>6, <1>7, <1>8

\* The clone keeps the invariant.
LEMMA CreateCloneKeeps ==
  ASSUME TypeOK, TypeOK', AllInv, NEW a \in Actors, HasDescriptor(a), CreateClone(a)
  PROVE  AllInv'
BY CloneSucceeds, CloneFails DEF CreateClone

\* The parent's store of the tid keeps the invariant: the child is still there.
LEMMA CreateStoreTidKeeps ==
  ASSUME TypeOK, TypeOK', AllInv, NEW a \in Actors, CreateStoreTid(a)
  PROVE  AllInv'
<1> USE DEF AllInv, ghosts, Sound, TypeOK, CreateStoreTid, Goto, Return, Actors, locals, lists
<1>1. PlacesInv'
  BY SMTT(20) DEF PlacesInv, PlaceKnown, ThreadPlaces, WaitPlaces
<1>2. ListsInv'
  BY SMTT(20) DEF ListsInv, Accounted, Distinct, Held, HandApart, Listed, FreeSet, InHand,
       WaitPlaces, Hand, Waiting, Fresh, Failed, Joining
<1>3. ThreadsInv'
  <2>1. ASSUME NEW u \in Tids PROVE OnDescriptor(u)'
    BY SMTT(20) DEF ThreadsInv, OnDescriptor
  <2>2. ASSUME NEW u \in Tids PROVE AloneOn(u)'
    BY SMTT(20) DEF ThreadsInv, AloneOn, Alive
  <2>3. ASSUME NEW u \in Tids PROVE InUse(u)'
    BY SMTT(20) DEF ThreadsInv, InUse, Alive
  <2>4. ASSUME NEW u \in Tids PROVE TidStored(u)'
    <3> SUFFICES ASSUME Alive(u)', Sound(self[u]), tid'[self[u]] # u
                 PROVE  pc'[u] = "new" /\ \E b \in Actors : pc'[b] = "c_tid" /\ saved'[b] = u
      BY DEF TidStored
    <3>1. Alive(u) /\ TidStored(u) /\ ParentOf(a)
      BY DEF Alive, ThreadsInv, CreateInv
    <3>2. saved[a] \in Tids /\ obj[a] \in Descs /\ self[saved[a]] = obj[a]
      BY <3>1 DEF ParentOf, Parent, Cloned
    <3>5. Sound(obj[a]) => Alive(saved[a])
      BY DEF CreateInv, ChildAlive
    <3>6. saved[a] # u
      BY <3>2
    <3>3. self[u] # obj[a]
      BY <3>1, <3>2, <3>5, <3>6 DEF ThreadsInv, AloneOn
    <3>7. tid'[self[u]] = tid[self[u]]
      BY <3>2, <3>3
    <3>4. pc[u] = "new" /\ \E b \in Actors : pc[b] = "c_tid" /\ saved[b] = u
      BY <3>1, <3>7 DEF TidStored
    <3>8. pc'[u] = "new"
      BY <3>4
    <3>9. PICK b \in Actors : pc[b] = "c_tid" /\ saved[b] = u
      BY <3>4
    <3>10. b # a
      BY <3>6, <3>9
    <3>11. pc'[b] = pc[b] /\ saved'[b] = saved[b]
      BY <3>10
    <3> QED BY <3>8, <3>9, <3>11
  <2> QED BY <2>1, <2>2, <2>3, <2>4 DEF ThreadsInv
<1>4. TidInv'
  BY SMTT(20) DEF TidInv, CreateInv, ParentOf, ChildAlive, Alive, Parent, Cloned, Failed,
       Waiting, WaitPlaces
<1>5. CreateInv'
  <2>1. ASSUME NEW b \in Actors PROVE (OwnsAlone(b) /\ WaitsForLast(b))'
    BY SMTT(20) DEF CreateInv, OwnsAlone, WaitsForLast, Owning, Fresh, Alive, Hand, Waiting,
         WaitPlaces
  <2>2. ASSUME NEW b \in Actors PROVE (FreshAlone(b) /\ NoHandle(b))'
    BY SMTT(20) DEF CreateInv, FreshAlone, NoHandle, Fresh, Hand, Waiting, WaitPlaces
  <2>3. ASSUME NEW b \in Actors PROVE (ParentOf(b) /\ ParentAlone(b))'
    BY SMTT(20) DEF CreateInv, ParentOf, ParentAlone, Parent, Cloned, Failed, Waiting,
         WaitPlaces
  <2>4. ASSUME NEW b \in Actors PROVE ChildAlive(b)'
    BY SMTT(20) DEF CreateInv, ChildAlive, ParentOf, Parent, Cloned, Alive
  <2>5. ASSUME NEW b \in Actors PROVE ChildKept(b)'
    BY SMTT(20) DEF CreateInv, ChildKept, Cloned
  <2>6. ASSUME NEW b \in Actors PROVE ChildFailed(b)'
    BY SMTT(20) DEF CreateInv, ChildFailed, Failed, Waiting, WaitPlaces, Alive
  <2> QED BY <2>1, <2>2, <2>3, <2>4, <2>5, <2>6 DEF CreateInv
<1>6. JoinInv'
  <2>1. ASSUME NEW b \in Actors PROVE JoinsTarget(b)'
    BY SMTT(20) DEF JoinInv, ListsInv, JoinsTarget, Listed, Joining, Waiting, WaitPlaces,
         Fresh, Failed
  <2>2. ASSUME NEW b \in Actors PROVE JoinFields(b)'
    BY SMTT(20) DEF JoinInv, JoinFields, Joining, Waiting, WaitPlaces
  <2>3. ASSUME NEW b \in Actors PROVE JoinsAlone(b)'
    BY SMTT(20) DEF JoinInv, CreateInv, JoinsAlone, JoinsTarget, ParentOf, Joining, Waiting,
         WaitPlaces, Parent, Cloned, Failed
  <2>4. ASSUME NEW b \in Actors PROVE JoinWaits(b)'
    BY SMTT(20) DEF JoinInv, ThreadsInv, HandlesInv, PlacesInv, ListsInv, JoinWaits,
         JoinsTarget, JoinsAlone, TidStored, HandleAlone, PlaceKnown, Listed, Joining,
         Waiting, WaitPlaces, Alive, Parent, Cloned, Failed, Fresh
  <2> QED BY <2>1, <2>2, <2>3, <2>4 DEF JoinInv
<1>7. HandlesInv'
  <2>1. ASSUME NEW u \in handles' PROVE HandleAlone(u)'
    BY SMTT(20) DEF HandlesInv, HandleAlone, Alive
  <2>2. ASSUME NEW u \in handles' PROVE HandleEnded(u)'
    BY SMTT(20) DEF HandlesInv, HandleEnded, Ended
  <2>3. ASSUME NEW u \in handles' PROVE HandleParent(u)'
    BY SMTT(20) DEF HandlesInv, CreateInv, StatusInv, ListsInv, HandleParent, ParentOf,
         NoHandle, CloneStatus, ChildStatus, Listed, ChildAlive, Parent, Cloned, Failed,
         Waiting, WaitPlaces, Hand, Fresh, Starting, Joining, Alive
  <2> QED BY <2>1, <2>2, <2>3 DEF HandlesInv
<1>8. StatusInv'
  <2>1. ASSUME NEW b \in Actors PROVE CloneStatus(b)'
    BY SMTT(20) DEF StatusInv, CloneStatus
  <2>2. ASSUME NEW b \in Actors PROVE ChildStatus(b)'
    <3>1. CASE b # a
      <4>1. pc'[b] = pc[b] /\ obj'[b] = obj[b] /\ saved'[b] = saved[b] /\ explicit'[b] = explicit[b]
        BY <3>1
      <4>2. ChildStatus(b) /\ (Cloned(b) => saved[b] \in Tids)
        BY DEF StatusInv, CreateInv, ParentOf, Parent
      <4>3. saved[b] \in Tids => (pc[saved[b]] \in Starting => pc'[saved[b]] = pc[saved[b]])
        BY DEF Starting
      <4> QED BY <4>1, <4>2, <4>3 DEF ChildStatus, Cloned
    <3>2. CASE b = a
      BY <3>2 DEF StatusInv, ChildStatus, CreateInv, ParentOf, Parent, Cloned, Starting
    <3> QED BY <3>1, <3>2
  <2>3. ASSUME NEW b \in Actors PROVE FailedStatus(b)'
    BY SMTT(20) DEF StatusInv, FailedStatus, Failed, Waiting, WaitPlaces
  <2>4. ASSUME NEW u \in Tids PROVE RunStatus(u)'
    BY SMTT(20) DEF StatusInv, RunStatus, Alive, Starting
  <2> QED BY <2>1, <2>2, <2>3, <2>4 DEF StatusInv
<1> QED BY <1>1, <1>2, <1>3, <1>4, <1>5, <1>6, <1>7, <1>8

\* Telling the child whether it may start keeps the invariant.
LEMMA CreateSchedKeeps ==
  ASSUME TypeOK, TypeOK', AllInv, NEW a \in Actors, CreateSched(a)
  PROVE  AllInv'
<1> USE DEF AllInv, ghosts, Sound, TypeOK, CreateSched, Goto, Actors, lists
<1>1. PlacesInv'
  BY SMTT(20) DEF PlacesInv, PlaceKnown, ThreadPlaces, WaitPlaces
<1>2. ListsInv'
  BY SMTT(20) DEF ListsInv, Accounted, Distinct, Held, HandApart, Listed, FreeSet, InHand,
       WaitPlaces, Hand, Waiting, Fresh, Failed, Joining
<1>3. ThreadsInv'
  BY SMTT(20) DEF ThreadsInv, OnDescriptor, AloneOn, InUse, TidStored, Alive
<1>4. TidInv'
  BY SMTT(20) DEF TidInv, Alive
<1>5. CreateInv'
  <2>1. ASSUME NEW b \in Actors PROVE OwnsAlone(b)'
    BY SMTT(20) DEF CreateInv, OwnsAlone, Owning, Fresh, Alive
  <2>2. ASSUME NEW b \in Actors PROVE WaitsForLast(b)'
    BY SMTT(20) DEF CreateInv, WaitsForLast, Hand, Waiting, WaitPlaces, Alive
  <2>3. ASSUME NEW b \in Actors PROVE FreshAlone(b)'
    BY SMTT(20) DEF CreateInv, FreshAlone, Fresh
  <2>4. ASSUME NEW b \in Actors PROVE NoHandle(b)'
    BY SMTT(20) DEF CreateInv, NoHandle, Hand, Waiting, WaitPlaces, Fresh
  <2>5. ASSUME NEW b \in Actors PROVE ParentOf(b)'
    BY SMTT(20) DEF CreateInv, ParentOf, Parent, Cloned, Failed, Waiting, WaitPlaces
  <2>6. ASSUME NEW b \in Actors PROVE ChildAlive(b)'
    BY SMTT(20) DEF CreateInv, ChildAlive, Cloned, Alive
  <2>7. ASSUME NEW b \in Actors PROVE ChildKept(b)'
    BY SMTT(20) DEF CreateInv, StatusInv, ChildKept, ChildStatus, Cloned, Starting
  <2>8. ASSUME NEW b \in Actors PROVE ChildFailed(b)'
    BY SMTT(20) DEF CreateInv, ChildFailed, Failed, Waiting, WaitPlaces, Alive
  <2>9. ASSUME NEW b \in Actors PROVE ParentAlone(b)'
    BY SMTT(20) DEF CreateInv, ParentOf, ParentAlone, Parent, Cloned, Failed, Waiting,
         WaitPlaces
  <2> QED BY <2>1, <2>2, <2>3, <2>4, <2>5, <2>6, <2>7, <2>8, <2>9 DEF CreateInv
<1>6. JoinInv'
  <2>1. ASSUME NEW b \in Actors PROVE JoinsTarget(b)'
    BY SMTT(20) DEF JoinInv, JoinsTarget, Joining, Waiting, WaitPlaces
  <2>2. ASSUME NEW b \in Actors PROVE JoinFields(b)'
    BY SMTT(20) DEF JoinInv, StatusInv, JoinFields, ChildStatus, Joining, Waiting,
         WaitPlaces, Starting
  <2>3. ASSUME NEW b \in Actors PROVE JoinsAlone(b)'
    BY SMTT(20) DEF JoinInv, JoinsAlone, Joining, Waiting, WaitPlaces, Parent, Cloned,
         Failed
  <2>4. ASSUME NEW b \in Actors PROVE JoinWaits(b)'
    BY SMTT(20) DEF JoinInv, JoinWaits, Joining, Waiting, WaitPlaces, Alive
  <2> QED BY <2>1, <2>2, <2>3, <2>4 DEF JoinInv
<1>7. HandlesInv'
  <2>1. ASSUME NEW u \in handles' PROVE HandleAlone(u)'
    BY SMTT(20) DEF HandlesInv, HandleAlone, Alive
  <2>2. ASSUME NEW u \in handles' PROVE HandleEnded(u)'
    BY SMTT(20) DEF HandlesInv, StatusInv, HandleEnded, ChildStatus, Ended, Starting
  <2>3. ASSUME NEW u \in handles' PROVE HandleParent(u)'
    <3> SUFFICES ASSUME self[u] \in used, start_status'[self[u]] # "ok", Sound(self[u])
                 PROVE  \E b \in Actors : Parent(b)' /\ saved[b] = u
      BY DEF HandleParent
    <3>0. \A b \in Actors : Parent(b) => self[saved[b]] = obj[b] /\ obj[b] \in Descs
      BY DEF CreateInv, ParentOf
    <3>1. CASE self[u] = obj[a]
      <4>1. Parent(a) /\ start_status'[obj[a]] = "exit"
        BY <3>0, <3>1 DEF Parent, Cloned
      <4>2. Parent(a)'
        BY <4>1 DEF Parent, Cloned
      <4>3. saved[a] \in handles /\ self[saved[a]] = obj[a]
        BY <3>0, <3>1, <4>1 DEF CreateInv, ChildKept, StatusInv, ChildStatus, Cloned
      <4>4. saved[a] = u
        BY <3>1, <4>3 DEF HandlesInv, HandleAlone
      <4> QED BY <4>2, <4>4
    <3>2. CASE self[u] # obj[a]
      <4>1. start_status'[self[u]] = start_status[self[u]]
        BY <3>2
      <4>2. PICK b \in Actors : Parent(b) /\ saved[b] = u
        BY <4>1 DEF HandlesInv, HandleParent
      <4>3. b # a
        BY <3>0, <3>2, <4>2
      <4>4. Parent(b)'
        BY <4>2, <4>3 DEF Parent, Cloned, Failed, Waiting
      <4> QED BY <4>2, <4>4
    <3> QED BY <3>1, <3>2
  <2> QED BY <2>1, <2>2, <2>3 DEF HandlesInv
<1>8. StatusInv'
  <2>1. ASSUME NEW b \in Actors PROVE CloneStatus(b)'
    <3> SUFFICES ASSUME pc[b] = "c_clone", Sound(obj[b]), b # a PROVE CloneStatus(b)'
      BY DEF CloneStatus
    <3>1. obj[b] # obj[a]
      BY DEF StatusInv, ChildStatus, CreateInv, ParentOf, Parent, Cloned, OwnsAlone, Owning,
         Fresh, Starting, Alive
    <3> QED BY <3>1 DEF StatusInv, CloneStatus
  <2>2. ASSUME NEW b \in Actors PROVE ChildStatus(b)'
    <3> SUFFICES ASSUME pc[b] \in {"c_tid", "c_sched"}, Sound(obj[b]), b # a
                 PROVE  ChildStatus(b)'
      BY DEF ChildStatus
    <3>0. \A c \in {a, b} : Parent(c) /\ saved[c] \in Tids /\ self[saved[c]] = obj[c]
                              /\ obj[c] \in Descs
      BY DEF CreateInv, ParentOf, Parent, Cloned
    <3>1. obj[b] # obj[a]
      <4> SUFFICES ASSUME obj[b] = obj[a] PROVE FALSE OBVIOUS
      <4>1. Alive(saved[a])
        BY DEF StatusInv, ChildStatus, Starting, Alive
      <4>2. Alive(saved[b])
        BY DEF StatusInv, ChildStatus, CreateInv, ChildAlive, Starting, Alive
      <4>3. saved[a] = saved[b]
        BY <3>0, <4>1, <4>2 DEF ThreadsInv, AloneOn
      <4> QED BY <3>0, <4>3 DEF CreateInv, ParentAlone
    <3>2. pc[saved[b]] \in Starting => pc'[saved[b]] = pc[saved[b]]
      BY <3>0 DEF Starting
    <3> QED BY <3>0, <3>1, <3>2 DEF StatusInv, ChildStatus
  <2>3. ASSUME NEW b \in Actors PROVE FailedStatus(b)'
    BY SMTT(20) DEF StatusInv, FailedStatus, ChildStatus, Failed, Waiting, WaitPlaces,
         Starting
  <2>4. ASSUME NEW u \in Tids PROVE RunStatus(u)'
    BY SMTT(20) DEF StatusInv, RunStatus, ChildStatus, Alive, Starting
  <2> QED BY <2>1, <2>2, <2>3, <2>4 DEF StatusInv
<1> QED BY <1>1, <1>2, <1>3, <1>4, <1>5, <1>6, <1>7, <1>8

\* Waking the child keeps the invariant, whether the parent returns or waits for it
\* to end.  A thread that is woken too soon is on a descriptor that is no longer sound.
LEMMA CreateWakeKeeps ==
  ASSUME TypeOK, TypeOK', AllInv, NEW a \in Actors, HasDescriptor(a), CreateWake(a)
  PROVE  AllInv'
<1> USE DEF AllInv, Sound
<1> DEFINE failed == after[a] = "c_release"
           Woken(b) == b \in Tids /\ pc[b] = "start_asleep" /\ self[b] = obj[a]
<1>0. /\ allocated' = allocated /\ used' = used /\ free' = free /\ join_status' = join_status
      /\ joiner' = joiner /\ tid' = tid /\ retval' = retval /\ start_status' = start_status
      /\ self' = self /\ handles' = handles
      /\ spoiled \subseteq spoiled'
  BY DEF CreateWake, lists, fields, SpoiledIf
<1>1. /\ pc[a] = "c_wake"
      /\ pc'[a] = IF failed THEN "w_read" ELSE "run"
      /\ failed => UNCHANGED locals
      /\ ~failed => Return(a)
      /\ \A b \in Actors \ {a} :
           pc'[b] = pc[b] \/ (Woken(b) /\ pc'[b] = "start_check")
  <2>1. /\ pc[a] = "c_wake"
        /\ WakeOne(a, IF failed THEN "w_read" ELSE "run",
                   Starters(obj[a]), [t \in Tids |-> "start_check"])
    BY DEF CreateWake
  <2>2. CASE Starters(obj[a]) = {}
    BY <2>1, <2>2 DEF WakeOne, CreateWake, TypeOK
  <2>3. CASE Starters(obj[a]) # {}
    <3>1. PICK s \in Starters(obj[a]) :
            pc' = [pc EXCEPT ![a] = IF failed THEN "w_read" ELSE "run", ![s] = "start_check"]
      BY <2>1, <2>3 DEF WakeOne, Starters
    <3>2. s \in Tids /\ s # a /\ Woken(s)
      BY <2>1 DEF Starters
    <3> QED BY <2>1, <3>1, <3>2 DEF CreateWake, TypeOK, Actors
  <2> QED BY <2>2, <2>3
<1>2. /\ failed \/ after[a] = "c_add"
      /\ obj[a] \in Descs
      /\ failed => saved[a] \in Tids /\ self[saved[a]] = obj[a]
      /\ failed /\ Sound(obj[a]) =>
           start_status[obj[a]] = "exit" /\ saved[a] \in handles /\ obj[a] \in used
  <2>1. (failed \/ after[a] = "c_add") /\ obj[a] \in Descs
    BY <1>1 DEF PlacesInv, PlaceKnown, HasDescriptor
  <2>2. failed => Cloned(a) /\ Parent(a)
    BY <1>1 DEF Cloned, Parent
  <2>3. failed /\ Sound(obj[a]) => start_status[obj[a]] = "exit"
    BY <1>1 DEF StatusInv, FailedStatus
  <2> QED BY <2>1, <2>2, <2>3 DEF CreateInv, ParentOf, ChildKept
<1>7. ASSUME NEW b \in Tids, Woken(b), obj[a] \notin spoiled'
      PROVE  start_status[obj[a]] # "wait"
  BY <1>7 DEF CreateWake, SpoiledIf, Starters
<1>3. ASSUME NEW b \in Actors, b # a \/ failed
      PROVE obj'[b] = obj[b] /\ saved'[b] = saved[b] /\ after'[b] = after[b]
              /\ explicit'[b] = explicit[b] /\ target'[b] = target[b]
  BY <1>1, <1>3 DEF Return, locals, TypeOK
<1>4. ASSUME NEW b \in Actors
      PROVE /\ Hand(b)' <=> Hand(b)
            /\ Fresh(b)' <=> Fresh(b)
            /\ Owning(b)' <=> Owning(b)
            /\ Joining(b)' <=> Joining(b)
            /\ Failed(b)' <=> Failed(b) \/ (b = a /\ failed)
            /\ Cloned(b)' <=> Cloned(b) /\ b # a
            /\ Parent(b)' <=> Parent(b)
            /\ Parent(b) => b # a \/ failed
            /\ Hand(b) \/ Fresh(b) \/ Owning(b) \/ Joining(b) \/ Failed(b) => b # a
  <2>1. CASE b = a
    BY <2>1, <1>1, <1>2, <1>3 DEF Hand, Fresh, Owning, Joining, Failed, Cloned, Parent,
       Waiting, WaitPlaces
  <2>2. CASE b # a
    BY <2>2, <1>1, <1>3 DEF Hand, Fresh, Owning, Joining, Failed, Cloned, Parent, Waiting,
       WaitPlaces
  <2> QED BY <2>1, <2>2
<1>5. ASSUME NEW u \in Tids
      PROVE /\ Alive(u)' <=> Alive(u)
            /\ \A x \in {"none", "new", "kernel_exit", "kernel_wake", "exit_release"} :
                 pc'[u] = x <=> pc[u] = x
            /\ pc'[u] \in Ended <=> pc[u] \in Ended
  BY <1>1 DEF Alive, Ended, Actors
<1>6. ASSUME NEW b \in Actors, NEW x \in CreatePlaces \cup WaitPlaces \cup {"j_release"},
             x # "w_read", pc'[b] = x
      PROVE b # a /\ pc[b] = x
  BY <1>1, <1>6 DEF CreatePlaces, WaitPlaces
<1>a. PlacesInv'
  <2>1. (pc[Main] \notin ThreadPlaces \ {"run"})'
    BY <1>1, ConstantsAssumption DEF TypeOK, PlacesInv, ThreadPlaces, Actors
  <2>2. ASSUME NEW b \in Actors PROVE PlaceKnown(b)'
    <3>1. CASE b = a
      BY <3>1, <1>1, <1>2 DEF Return, PlaceKnown, WaitPlaces, ThreadPlaces, TypeOK
    <3>2. CASE b # a
      BY <3>2, <1>1, <1>3 DEF PlacesInv, PlaceKnown, WaitPlaces, ThreadPlaces
    <3> QED BY <3>1, <3>2
  <2> QED BY <2>1, <2>2 DEF PlacesInv
<1>b. ListsInv'
  <2>0. FreeSet' = FreeSet
    BY <1>0 DEF FreeSet
  <2>1. ASSUME NEW b \in Actors, NEW d \in Descs PROVE InHand(b, d)' <=> InHand(b, d)
    BY <1>3, <1>4 DEF InHand, Hand, Waiting
  <2>2. Accounted' /\ Distinct'
    BY <2>0, <2>1, <1>0 DEF ListsInv, Accounted, Distinct
  <2>3. ASSUME NEW b \in Actors PROVE HandApart(b)'
    BY <2>0, <1>0, <1>3, <1>4 DEF ListsInv, HandApart
  <2>4. ASSUME NEW b \in Actors PROVE Listed(b)'
    BY <1>0, <1>2, <1>3, <1>4 DEF ListsInv, Listed
  <2>5. ASSUME NEW b \in Actors PROVE Held(b)'
    <3>1. b = a /\ ~failed => obj'[b] = NoDesc
      BY <1>1 DEF Return, TypeOK
    <3> QED BY <3>1, <1>0, <1>3 DEF ListsInv, Held
  <2> QED BY <2>2, <2>3, <2>4, <2>5 DEF ListsInv
<1>c. ThreadsInv'
  <2> SUFFICES ASSUME NEW u \in Tids
               PROVE (OnDescriptor(u) /\ AloneOn(u) /\ InUse(u) /\ TidStored(u))'
    BY DEF ThreadsInv
  <2>0. OnDescriptor(u) /\ AloneOn(u) /\ InUse(u) /\ TidStored(u)
    BY DEF ThreadsInv
  <2>1. OnDescriptor(u)' /\ AloneOn(u)' /\ InUse(u)'
    BY <2>0, <1>0, <1>5 DEF OnDescriptor, AloneOn, InUse
  <2>2. TidStored(u)'
    <3>1. \A b \in Actors : pc[b] = "c_tid" => pc'[b] = "c_tid" /\ saved'[b] = saved[b]
      BY <1>1, <1>3
    <3> QED BY <3>1, <2>0, <1>0, <1>5 DEF TidStored
  <2> QED BY <2>1, <2>2
<1>d. TidInv'
  BY <1>0, <1>5 DEF TidInv, TypeOK
<1>e. CreateInv'
  <2> SUFFICES ASSUME NEW b \in Actors
               PROVE /\ (OwnsAlone(b) /\ WaitsForLast(b) /\ FreshAlone(b) /\ NoHandle(b))'
                     /\ (ParentOf(b) /\ ParentAlone(b))'
                     /\ (ChildAlive(b) /\ ChildKept(b) /\ ChildFailed(b))'
    BY DEF CreateInv
  <2>0. /\ OwnsAlone(b) /\ WaitsForLast(b) /\ FreshAlone(b) /\ NoHandle(b)
        /\ ParentOf(b) /\ ParentAlone(b) /\ ChildAlive(b) /\ ChildKept(b) /\ ChildFailed(b)
    BY DEF CreateInv
  <2>1. OwnsAlone(b)' /\ FreshAlone(b)' /\ NoHandle(b)'
    BY <2>0, <1>0, <1>3, <1>4, <1>5 DEF OwnsAlone, FreshAlone, NoHandle
  <2>2. WaitsForLast(b)'
    <3> SUFFICES ASSUME Hand(b)', Sound(obj[b])', pc'[b] \in {"w_futex", "w_asleep"}, NEW u \in Tids,
                        self'[u] = obj'[b], Alive(u)'
                 PROVE  saved'[b] = u
      BY DEF WaitsForLast
    <3>1. Hand(b) /\ b # a BY <1>4
    <3>2. pc'[b] = pc[b] BY <3>1, <1>1
    <3> QED BY <3>1, <3>2, <2>0, <1>0, <1>3, <1>5 DEF WaitsForLast
  <2>3. ParentOf(b)' /\ ParentAlone(b)'
    <3> SUFFICES ASSUME Parent(b)' PROVE ParentOf(b)' /\ ParentAlone(b)'
      BY DEF ParentOf, ParentAlone
    <3>1. Parent(b) /\ saved'[b] = saved[b] /\ obj'[b] = obj[b] BY <1>3, <1>4
    <3>2. \A c \in Actors : Parent(c)' => Parent(c) /\ saved'[c] = saved[c] BY <1>3, <1>4
    <3> QED BY <3>1, <3>2, <2>0, <1>0 DEF ParentOf, ParentAlone
  <2>4. ChildAlive(b)' /\ ChildKept(b)'
    BY <2>0, <1>0, <1>1, <1>3, <1>4, <1>5 DEF ChildAlive, ChildKept, ParentOf, Parent, Cloned
  <2>5. ChildFailed(b)'
    <3>1. pc'[b] = "c_release" => pc[b] = "c_release" /\ b # a BY <1>6 DEF CreatePlaces
    <3>2. pc[b] = "c_release" /\ after[b] = "c_release" => saved[b] \in Tids
      BY <2>0 DEF ParentOf, Parent, Failed
    <3> QED BY <2>0, <3>1, <3>2, <1>0, <1>2, <1>3, <1>4, <1>5 DEF ChildFailed
  <2> QED BY <2>1, <2>2, <2>3, <2>4, <2>5
<1>f. JoinInv'
  <2> SUFFICES ASSUME NEW b \in Actors, Joining(b), Sound(obj[b])
               PROVE (JoinsTarget(b) /\ JoinFields(b) /\ JoinsAlone(b) /\ JoinWaits(b))'
    BY <1>0, <1>3, <1>4 DEF JoinInv, JoinsTarget, JoinFields, JoinsAlone, JoinWaits
  <2>0. JoinsTarget(b) /\ JoinFields(b) /\ JoinsAlone(b) /\ JoinWaits(b) /\ b # a
    BY <1>4 DEF JoinInv
  <2>1. target[b] \in Tids /\ pc'[b] = pc[b]
    BY <2>0, <1>1 DEF JoinsTarget, TypeOK, Joining, Waiting, WaitPlaces
  <2>2. JoinsTarget(b)'
    BY <2>0, <2>1, <1>0, <1>3, <1>5 DEF JoinsTarget
  <2>3. JoinFields(b)' /\ JoinsAlone(b)'
    BY <2>0, <1>0, <1>3, <1>4 DEF JoinFields, JoinsAlone
  <2>4. JoinWaits(b)'
    BY <2>0, <2>1, <1>3, <1>5 DEF JoinWaits
  <2> QED BY <2>2, <2>3, <2>4
<1>g. HandlesInv'
  <2> SUFFICES ASSUME NEW u \in handles
               PROVE  (HandleAlone(u) /\ HandleEnded(u) /\ HandleParent(u))'
    BY <1>0 DEF HandlesInv
  <2>0. HandleAlone(u) /\ HandleEnded(u) /\ HandleParent(u) /\ u \in Tids
    BY DEF HandlesInv, TypeOK
  <2>1. HandleAlone(u)'
    BY <2>0, <1>0, <1>5 DEF HandleAlone
  <2>2. HandleEnded(u)'
    BY <2>0, <1>0, <1>5 DEF HandleEnded
  <2>3. HandleParent(u)'
    <3> SUFFICES ASSUME self[u] \in used, start_status[self[u]] # "ok", Sound(self[u])
                 PROVE  \E b \in Actors : Parent(b)' /\ saved'[b] = u
      BY <1>0 DEF HandleParent
    <3>1. PICK b \in Actors : Parent(b) /\ saved[b] = u
      BY <2>0 DEF HandleParent
    <3>2. b # a \/ failed
      BY <3>1, <1>4
    <3> QED BY <3>1, <3>2, <1>3, <1>4
  <2> QED BY <2>1, <2>2, <2>3
<1>h. StatusInv'
  <2>1. ASSUME NEW b \in Actors PROVE (CloneStatus(b) /\ ChildStatus(b) /\ FailedStatus(b))'
    <3>0. CloneStatus(b) /\ ChildStatus(b) /\ FailedStatus(b) /\ ParentOf(b)
      BY DEF StatusInv, CreateInv
    <3>1. CloneStatus(b)'
      BY <3>0, <1>0, <1>1, <1>3 DEF CloneStatus
    <3>2. ChildStatus(b)'
      <4> SUFFICES ASSUME pc'[b] \in {"c_tid", "c_sched"}, Sound(obj[b])' PROVE ChildStatus(b)'
        BY DEF ChildStatus
      <4>1. b # a /\ pc'[b] = pc[b] /\ saved[b] \in Tids /\ self[saved[b]] = obj[b]
        BY <3>0, <1>1 DEF ParentOf, Parent, Cloned
      <4>2. start_status[obj[b]] = "wait" => ~Woken(saved[b])
        BY <4>1, <1>3, <1>7
      <4>3. start_status[obj[b]] = "wait" /\ pc[saved[b]] \in Starting =>
              pc'[saved[b]] = pc[saved[b]]
        BY <4>1, <4>2, <1>1 DEF Starting, Actors
      <4> QED BY <3>0, <4>1, <4>3, <1>0, <1>3 DEF ChildStatus
    <3>3. FailedStatus(b)'
      <4>1. pc'[b] = "c_wake" => pc[b] = "c_wake" /\ b # a BY <1>6 DEF CreatePlaces
      <4> QED BY <3>0, <4>1, <1>0, <1>2, <1>3, <1>4 DEF FailedStatus
    <3> QED BY <3>1, <3>2, <3>3
  <2>2. ASSUME NEW u \in Tids PROVE RunStatus(u)'
    <3>1. CASE pc'[u] = pc[u]
      BY <3>1, <1>0 DEF StatusInv, RunStatus, Alive
    <3>2. CASE u = a
      BY <3>2, <1>0, <1>1 DEF StatusInv, RunStatus, Alive, Starting
    <3>3. CASE u # a /\ pc'[u] # pc[u]
      BY <3>3, <1>0, <1>1, <1>7 DEF RunStatus, Actors
    <3> QED BY <3>1, <3>2, <3>3
  <2> QED BY <2>1, <2>2 DEF StatusInv
<1> QED BY <1>a, <1>b, <1>c, <1>d, <1>e, <1>f, <1>g, <1>h

-----------------------------------------------------------------------------
(* The thread                                                              *)

\* The kernel's store of the tid keeps the invariant.
LEMMA ChildSetTidKeeps ==
  ASSUME TypeOK, TypeOK', AllInv, NEW t \in Tids, ChildSetTid(t)
  PROVE  AllInv'
<1> USE DEF AllInv, ghosts, Sound, TypeOK, ChildSetTid, Goto, Actors, lists, locals
<1>1. PlacesInv'
  BY SMTT(20) DEF PlacesInv, PlaceKnown, ThreadPlaces, WaitPlaces
<1>2. ListsInv'
  BY SMTT(20) DEF ListsInv, Accounted, Distinct, Held, HandApart, Listed, FreeSet, InHand,
       WaitPlaces, Hand, Waiting, Fresh, Failed, Joining
<1>3. ThreadsInv'
  BY SMTT(20) DEF ThreadsInv, OnDescriptor, AloneOn, InUse, TidStored, Alive
<1>4. TidInv'
  BY SMTT(20) DEF TidInv, Alive
<1>5. CreateInv'
  BY SMTT(20) DEF CreateInv, OwnsAlone, WaitsForLast, FreshAlone, NoHandle, ParentOf, ParentAlone,
       ChildAlive, ChildKept, ChildFailed, Owning, Fresh, Alive, Hand, Waiting, WaitPlaces,
       Parent, Cloned, Failed
<1>6. JoinInv'
  BY SMTT(20) DEF JoinInv, JoinsTarget, JoinFields, JoinsAlone, JoinWaits, Joining, Waiting,
       WaitPlaces, Parent, Cloned, Failed, Alive
<1>7. HandlesInv'
  BY SMTT(20) DEF HandlesInv, HandleAlone, HandleEnded, HandleParent, Alive, Ended, Parent,
       Cloned, Failed, Waiting, WaitPlaces
<1>8. StatusInv'
  BY SMTT(20) DEF StatusInv, CloneStatus, ChildStatus, FailedStatus, RunStatus, Starting,
       Failed, Waiting, WaitPlaces, Alive
<1> QED BY <1>1, <1>2, <1>3, <1>4, <1>5, <1>6, <1>7, <1>8

\* The first look at start_status keeps the invariant.
LEMMA StartCheckKeeps ==
  ASSUME TypeOK, TypeOK', AllInv, NEW t \in Tids, StartCheck(t)
  PROVE  AllInv'
<1> USE DEF AllInv, ghosts, Sound, TypeOK, StartCheck, Goto, MayStart, Actors, lists, fields, locals
<1>1. PlacesInv'
  BY SMTT(20) DEF PlacesInv, PlaceKnown, ThreadPlaces, WaitPlaces
<1>2. ListsInv'
  BY SMTT(20) DEF ListsInv, Accounted, Distinct, Held, HandApart, Listed, FreeSet, InHand,
       WaitPlaces, Hand, Waiting, Fresh, Failed, Joining
<1>3. ThreadsInv'
  BY SMTT(20) DEF ThreadsInv, OnDescriptor, AloneOn, InUse, TidStored, Alive
<1>4. TidInv'
  BY SMTT(20) DEF TidInv, Alive
<1>5. CreateInv'
  BY SMTT(20) DEF CreateInv, OwnsAlone, WaitsForLast, FreshAlone, NoHandle, ParentOf, ParentAlone,
       ChildAlive, ChildKept, ChildFailed, Owning, Fresh, Alive, Hand, Waiting, WaitPlaces,
       Parent, Cloned, Failed
<1>6. JoinInv'
  BY SMTT(20) DEF JoinInv, JoinsTarget, JoinFields, JoinsAlone, JoinWaits, Joining, Waiting,
       WaitPlaces, Parent, Cloned, Failed, Alive
<1>7. HandlesInv'
  BY SMTT(20) DEF HandlesInv, HandleAlone, HandleEnded, HandleParent, Alive, Ended, Parent,
       Cloned, Failed, Waiting, WaitPlaces
<1>8. StatusInv'
  <2>1. ASSUME NEW b \in Actors PROVE CloneStatus(b)'
    BY SMTT(20) DEF StatusInv, CloneStatus
  <2>2. ASSUME NEW b \in Actors PROVE ChildStatus(b)'
    BY SMTT(20) DEF StatusInv, CreateInv, ChildStatus, ParentOf, Starting, Parent, Cloned,
         Failed, Waiting, WaitPlaces
  <2>3. ASSUME NEW b \in Actors PROVE FailedStatus(b)'
    BY SMTT(20) DEF StatusInv, FailedStatus, Failed, Waiting, WaitPlaces
  <2>4. ASSUME NEW u \in Tids PROVE RunStatus(u)'
    BY SMTT(20) DEF StatusInv, RunStatus, Alive, Starting
  <2> QED BY <2>1, <2>2, <2>3, <2>4 DEF StatusInv
<1> QED BY <1>1, <1>2, <1>3, <1>4, <1>5, <1>6, <1>7, <1>8

\* FUTEX_WAIT on start_status keeps the invariant: a thread whose wait ends too soon is on a
\* descriptor that is no longer sound.
LEMMA StartWaitKeeps ==
  ASSUME TypeOK, TypeOK', AllInv, NEW t \in Tids, StartWait(t)
  PROVE  AllInv'
<1> USE DEF AllInv, Sound, TypeOK, Actors
<1>0. /\ pc[t] = "start_wait"
      /\ \/ pc' = [pc EXCEPT ![t] = "start_asleep"]
         \/ /\ pc' = [pc EXCEPT ![t] = "start_check"]
            /\ self[t] \notin spoiled' => start_status[self[t]] # "wait"
      /\ spoiled \subseteq spoiled'
      /\ UNCHANGED <<allocated, used, free, join_status, joiner, tid, retval, start_status>>
      /\ UNCHANGED <<self, obj, saved, after, explicit, target, handles>>
  BY DEF StartWait, Goto, SpoiledIf, lists, fields, locals
<1>1. PlacesInv'
  BY SMTT(20), <1>0 DEF PlacesInv, PlaceKnown, ThreadPlaces, WaitPlaces
<1>2. ListsInv'
  BY SMTT(20), <1>0 DEF ListsInv, Accounted, Distinct, Held, HandApart, Listed, FreeSet, InHand,
       WaitPlaces, Hand, Waiting, Fresh, Failed, Joining
<1>3. ThreadsInv'
  BY SMTT(20), <1>0 DEF ThreadsInv, OnDescriptor, AloneOn, InUse, TidStored, Alive
<1>4. TidInv'
  BY SMTT(20), <1>0 DEF TidInv, Alive
<1>5. CreateInv'
  BY SMTT(20), <1>0 DEF CreateInv, OwnsAlone, WaitsForLast, FreshAlone, NoHandle, ParentOf,
       ParentAlone, ChildAlive, ChildKept, ChildFailed, Owning, Fresh, Alive, Hand, Waiting,
       WaitPlaces, Parent, Cloned, Failed
<1>6. JoinInv'
  BY SMTT(20), <1>0 DEF JoinInv, JoinsTarget, JoinFields, JoinsAlone, JoinWaits, Joining, Waiting,
       WaitPlaces, Parent, Cloned, Failed, Alive
<1>7. HandlesInv'
  BY SMTT(20), <1>0 DEF HandlesInv, HandleAlone, HandleEnded, HandleParent, Alive, Ended, Parent,
       Cloned, Failed, Waiting, WaitPlaces
<1>8. StatusInv'
  <2>1. ASSUME NEW b \in Actors PROVE CloneStatus(b)'
    BY SMTT(20), <1>0 DEF StatusInv, CloneStatus
  <2>2. ASSUME NEW b \in Actors PROVE ChildStatus(b)'
    BY SMTT(20), <1>0 DEF StatusInv, CreateInv, ChildStatus, ParentOf, Parent, Cloned, Starting
  <2>3. ASSUME NEW b \in Actors PROVE FailedStatus(b)'
    BY SMTT(20), <1>0 DEF StatusInv, FailedStatus, Failed, Waiting, WaitPlaces
  <2>4. ASSUME NEW u \in Tids PROVE RunStatus(u)'
    BY SMTT(20), <1>0 DEF StatusInv, RunStatus, Alive, Starting
  <2> QED BY <2>1, <2>2, <2>3, <2>4 DEF StatusInv
<1> QED BY <1>1, <1>2, <1>3, <1>4, <1>5, <1>6, <1>7, <1>8

\* The second look keeps the invariant: only a thread that may start runs.
LEMMA StartDecideKeeps ==
  ASSUME TypeOK, TypeOK', AllInv, NEW t \in Tids, StartDecide(t)
  PROVE  AllInv'
<1> USE DEF AllInv, ghosts, Sound, TypeOK, StartDecide, Goto, Actors, lists, fields, locals
<1>1. PlacesInv'
  BY SMTT(20) DEF PlacesInv, PlaceKnown, ThreadPlaces, WaitPlaces
<1>2. ListsInv'
  BY SMTT(20) DEF ListsInv, Accounted, Distinct, Held, HandApart, Listed, FreeSet, InHand,
       WaitPlaces, Hand, Waiting, Fresh, Failed, Joining
<1>3. ThreadsInv'
  BY SMTT(20) DEF ThreadsInv, OnDescriptor, AloneOn, InUse, TidStored, Alive
<1>4. TidInv'
  BY SMTT(20) DEF TidInv, Alive
<1>5. CreateInv'
  BY SMTT(20) DEF CreateInv, OwnsAlone, WaitsForLast, FreshAlone, NoHandle, ParentOf, ParentAlone,
       ChildAlive, ChildKept, ChildFailed, Owning, Fresh, Alive, Hand, Waiting, WaitPlaces,
       Parent, Cloned, Failed
<1>6. JoinInv'
  BY SMTT(20) DEF JoinInv, JoinsTarget, JoinFields, JoinsAlone, JoinWaits, Joining, Waiting,
       WaitPlaces, Parent, Cloned, Failed, Alive
<1>7. HandlesInv'
  BY SMTT(20) DEF HandlesInv, HandleAlone, HandleEnded, HandleParent, Alive, Ended, Parent,
       Cloned, Failed, Waiting, WaitPlaces
<1>8. StatusInv'
  <2>1. ASSUME NEW b \in Actors PROVE CloneStatus(b)'
    BY SMTT(20) DEF StatusInv, CloneStatus
  <2>2. ASSUME NEW b \in Actors PROVE ChildStatus(b)'
    BY SMTT(20) DEF StatusInv, ChildStatus, Starting
  <2>3. ASSUME NEW b \in Actors PROVE FailedStatus(b)'
    BY SMTT(20) DEF StatusInv, FailedStatus, Failed, Waiting, WaitPlaces
  <2>4. ASSUME NEW u \in Tids PROVE RunStatus(u)'
    BY SMTT(20) DEF StatusInv, ThreadsInv, RunStatus, OnDescriptor, Alive, Starting,
         StartStatus
  <2> QED BY <2>1, <2>2, <2>3, <2>4 DEF StatusInv
<1> QED BY <1>1, <1>2, <1>3, <1>4, <1>5, <1>6, <1>7, <1>8

\* The store of the return value keeps the invariant.
LEMMA ExitCallKeeps ==
  ASSUME TypeOK, TypeOK', AllInv, NEW t \in Tids, ExitCall(t)
  PROVE  AllInv'
<1> USE DEF AllInv, ghosts, Sound, TypeOK, ExitCall, Goto, Actors, lists, locals
<1>1. PlacesInv'
  <2>1. (pc[Main] \notin ThreadPlaces \ {"run"})'
    BY ConstantsAssumption DEF PlacesInv, ThreadPlaces
  <2>2. ASSUME NEW b \in Actors PROVE PlaceKnown(b)'
    BY DEF PlacesInv, PlaceKnown, WaitPlaces, ThreadPlaces
  <2> QED BY <2>1, <2>2 DEF PlacesInv
<1>2. ListsInv'
  BY SMTT(20) DEF ListsInv, Accounted, Distinct, Held, HandApart, Listed, FreeSet, InHand,
       WaitPlaces, Hand, Waiting, Fresh, Failed, Joining
<1>3. ThreadsInv'
  BY SMTT(20) DEF ThreadsInv, OnDescriptor, AloneOn, InUse, TidStored, Alive
<1>4. TidInv'
  BY SMTT(20) DEF TidInv, Alive
<1>5. CreateInv'
  BY SMTT(20) DEF CreateInv, OwnsAlone, WaitsForLast, FreshAlone, NoHandle, ParentOf, ParentAlone,
       ChildAlive, ChildKept, ChildFailed, Owning, Fresh, Alive, Hand, Waiting, WaitPlaces,
       Parent, Cloned, Failed
<1>6. JoinInv'
  BY SMTT(20) DEF JoinInv, JoinsTarget, JoinFields, JoinsAlone, JoinWaits, Joining, Waiting,
       WaitPlaces, Parent, Cloned, Failed, Alive
<1>7. HandlesInv'
  BY SMTT(20) DEF HandlesInv, HandleAlone, HandleEnded, HandleParent, Alive, Ended, Parent,
       Cloned, Failed, Waiting, WaitPlaces
<1>8. StatusInv'
  <2>1. ASSUME NEW b \in Actors PROVE CloneStatus(b)'
    BY SMTT(20) DEF StatusInv, CloneStatus
  <2>2. ASSUME NEW b \in Actors PROVE ChildStatus(b)'
    BY SMTT(20) DEF StatusInv, ChildStatus, Starting
  <2>3. ASSUME NEW b \in Actors PROVE FailedStatus(b)'
    BY SMTT(20) DEF StatusInv, FailedStatus, Failed, Waiting, WaitPlaces
  <2>4. ASSUME NEW u \in Tids PROVE RunStatus(u)'
    BY SMTT(20) DEF StatusInv, RunStatus, Alive, Starting
  <2> QED BY <2>1, <2>2, <2>3, <2>4 DEF StatusInv
<1> QED BY <1>1, <1>2, <1>3, <1>4, <1>5, <1>6, <1>7, <1>8

\* The critical section of tbthread_exit keeps the invariant.
LEMMA ExitFixKeeps ==
  ASSUME TypeOK, TypeOK', AllInv, NEW t \in Tids, ExitFix(t)
  PROVE  AllInv'
<1> USE DEF AllInv, ghosts, Sound, TypeOK, ExitFix, Goto, FreesItself, Actors, lists, locals
<1>1. PlacesInv'
  BY SMTT(20) DEF PlacesInv, PlaceKnown, ThreadPlaces, WaitPlaces
<1>2. ListsInv'
  BY SMTT(20) DEF ListsInv, Accounted, Distinct, Held, HandApart, Listed, FreeSet, InHand,
       WaitPlaces, Hand, Waiting, Fresh, Failed, Joining
<1>3. ThreadsInv'
  BY SMTT(20) DEF ThreadsInv, OnDescriptor, AloneOn, InUse, TidStored, Alive
<1>4. TidInv'
  BY SMTT(20) DEF TidInv, Alive
<1>5. CreateInv'
  BY SMTT(20) DEF CreateInv, OwnsAlone, WaitsForLast, FreshAlone, NoHandle, ParentOf, ParentAlone,
       ChildAlive, ChildKept, ChildFailed, Owning, Fresh, Alive, Hand, Waiting, WaitPlaces,
       Parent, Cloned, Failed
<1>6. JoinInv'
  BY SMTT(20) DEF JoinInv, JoinsTarget, JoinFields, JoinsAlone, JoinWaits, Joining, Waiting,
       WaitPlaces, Parent, Cloned, Failed, Alive
<1>7. HandlesInv'
  BY SMTT(20) DEF HandlesInv, HandleAlone, HandleEnded, HandleParent, Alive, Ended, Parent,
       Cloned, Failed, Waiting, WaitPlaces
<1>8. StatusInv'
  BY SMTT(20) DEF StatusInv, CloneStatus, ChildStatus, FailedStatus, RunStatus, Starting,
       Failed, Waiting, WaitPlaces, Alive
<1> QED BY <1>1, <1>2, <1>3, <1>4, <1>5, <1>6, <1>7, <1>8

\* The end of a thread keeps the invariant: when the parent has not stored its tid yet, the
\* descriptor is no longer sound.
LEMMA KernelExitKeeps ==
  ASSUME TypeOK, TypeOK', AllInv, NEW t \in Tids, KernelExit(t)
  PROVE  AllInv'
<1> USE DEF AllInv, Sound, TypeOK, KernelExit, Goto, Actors, lists, locals, SpoiledIf
<1>1. PlacesInv'
  BY SMTT(20) DEF PlacesInv, PlaceKnown, ThreadPlaces, WaitPlaces
<1>2. ListsInv'
  BY SMTT(20) DEF ListsInv, Accounted, Distinct, Held, HandApart, Listed, FreeSet, InHand,
       WaitPlaces, Hand, Waiting, Fresh, Failed, Joining
<1>3. ThreadsInv'
  <2>1. ASSUME NEW u \in Tids PROVE OnDescriptor(u)'
    BY SMTT(20) DEF ThreadsInv, OnDescriptor
  <2>2. ASSUME NEW u \in Tids PROVE AloneOn(u)'
    BY SMTT(20) DEF ThreadsInv, AloneOn, Alive
  <2>3. ASSUME NEW u \in Tids PROVE InUse(u)'
    BY SMTT(20) DEF ThreadsInv, InUse, Alive
  <2>4. ASSUME NEW u \in Tids PROVE TidStored(u)'
    BY SMTT(20) DEF ThreadsInv, TidStored, Alive
  <2> QED BY <2>1, <2>2, <2>3, <2>4 DEF ThreadsInv
<1>4. TidInv'
  BY SMTT(20) DEF TidInv, Alive
<1>5. CreateInv'
  <2>1. ASSUME NEW b \in Actors PROVE OwnsAlone(b)'
    BY SMTT(20) DEF CreateInv, OwnsAlone, Owning, Fresh, Alive
  <2>2. ASSUME NEW b \in Actors PROVE WaitsForLast(b)'
    BY SMTT(20) DEF CreateInv, WaitsForLast, Hand, Waiting, WaitPlaces, Alive
  <2>3. ASSUME NEW b \in Actors PROVE FreshAlone(b)'
    BY SMTT(20) DEF CreateInv, FreshAlone, Fresh
  <2>4. ASSUME NEW b \in Actors PROVE NoHandle(b)'
    BY SMTT(20) DEF CreateInv, NoHandle, Hand, Waiting, WaitPlaces, Fresh
  <2>5. ASSUME NEW b \in Actors PROVE ParentOf(b)'
    BY SMTT(20) DEF CreateInv, ParentOf, Parent, Cloned, Failed, Waiting, WaitPlaces
  <2>6. ASSUME NEW b \in Actors PROVE ChildAlive(b)'
    BY SMTT(20) DEF CreateInv, ChildAlive, Cloned, Alive, ParentOf, Parent
  <2>7. ASSUME NEW b \in Actors PROVE ChildKept(b)'
    BY SMTT(20) DEF CreateInv, ChildKept, Cloned
  <2>8. ASSUME NEW b \in Actors PROVE ChildFailed(b)'
    BY SMTT(20) DEF CreateInv, ChildFailed, Failed, Waiting, WaitPlaces, Alive
  <2>9. ASSUME NEW b \in Actors PROVE ParentAlone(b)'
    BY SMTT(20) DEF CreateInv, ParentOf, ParentAlone, Parent, Cloned, Failed, Waiting,
         WaitPlaces
  <2> QED BY <2>1, <2>2, <2>3, <2>4, <2>5, <2>6, <2>7, <2>8, <2>9 DEF CreateInv
<1>6. JoinInv'
  BY SMTT(20) DEF JoinInv, JoinsTarget, JoinFields, JoinsAlone, JoinWaits, Joining, Waiting,
       WaitPlaces, Parent, Cloned, Failed, Alive
<1>7. HandlesInv'
  BY SMTT(20) DEF HandlesInv, HandleAlone, HandleEnded, HandleParent, Alive, Ended, Parent,
       Cloned, Failed, Waiting, WaitPlaces
<1>8. StatusInv'
  BY SMTT(20) DEF StatusInv, CloneStatus, ChildStatus, FailedStatus, RunStatus, Starting,
       Failed, Waiting, WaitPlaces, Alive
<1> QED BY <1>1, <1>2, <1>3, <1>4, <1>5, <1>6, <1>7, <1>8

-----------------------------------------------------------------------------
(* release_descriptor, tbthread_join and tbthread_detach                   *)

\* What is to be released is in used_desc, unless it is spoiled or null.
LEMMA ReleasedUsed ==
  ASSUME TypeOK, AllInv, NEW a \in Actors, pc[a] \in Releasing
  PROVE  /\ pc[a] = "exit_release" => a \in Tids
         /\ Released(a) \in used \cup spoiled \cup {NoDesc}
<1> USE DEF AllInv, Sound
<1>1. CASE pc[a] = "exit_release"
  BY <1>1 DEF Released, PlacesInv, ThreadPlaces, ThreadsInv, InUse, Alive, Actors
<1>2. CASE pc[a] = "j_release"
  BY <1>2 DEF Released, PlacesInv, PlaceKnown, ListsInv, Listed, Joining
<1>3. CASE pc[a] = "c_release"
  BY <1>3 DEF Released, PlacesInv, PlaceKnown, ListsInv, Listed, Fresh, Failed
<1> QED BY <1>1, <1>2, <1>3 DEF Releasing

\* Nobody else has a claim on the descriptor that a releases.
NobodyElse(a) ==
  /\ \A b \in Actors : b # a /\ (Fresh(b) \/ Failed(b) \/ Joining(b)) => obj[b] # Released(a)
  /\ \A b \in Actors : Cloned(b) /\ start_status[obj[b]] # "ok" => obj[b] # Released(a)
  /\ \A t \in Tids : Alive(t) /\ (t = a => pc[a] # "exit_release") => self[t] # Released(a)

\* Whoever releases a descriptor that is sound is alone with it: a detached thread because it
\* cannot be joined, a joiner because nobody else joins, a parent because its child never ran.
LEMMA ReleasedAlone ==
  ASSUME TypeOK, AllInv, NEW a \in Actors, pc[a] \in Releasing, Released(a) \in used,
         Sound(Released(a))
  PROVE  NobodyElse(a)
<1> USE DEF AllInv, Sound
<1>0. /\ \A b \in Actors : Cloned(b) => saved[b] \in Tids /\ self[saved[b]] = obj[b]
      /\ \A b \in Actors : Cloned(b) /\ start_status[obj[b]] # "ok" /\ Sound(obj[b]) =>
           saved[b] \in handles
  BY DEF CreateInv, ParentOf, ChildKept, Parent
<1>5. /\ pc[a] = "exit_release" => Sound(self[a])
      /\ pc[a] # "exit_release" => Sound(obj[a]) /\ obj[a] \in Descs
  BY ConstantsAssumption DEF Released, TypeOK
<1>1. CASE pc[a] = "exit_release"
  <2>0. a \in Tids /\ Alive(a) /\ Sound(self[a]) /\ start_status[self[a]] = "ok"
    BY <1>1, <1>5, ReleasedUsed DEF Alive, StatusInv, RunStatus, Starting
  <2>1. ASSUME NEW b \in Actors, b # a, Fresh(b) PROVE obj[b] # self[a]
    BY <1>1, <2>0, <2>1 DEF CreateInv, OwnsAlone, Owning
  <2>2. ASSUME NEW b \in Actors, b # a, Failed(b) PROVE obj[b] # self[a]
    BY <2>0, <2>2 DEF StatusInv, FailedStatus
  <2>3. ASSUME NEW b \in Actors, b # a, Joining(b) PROVE obj[b] # self[a]
    BY <1>1, <2>0, <2>3 DEF JoinInv, JoinsTarget, HandlesInv, HandleAlone, TypeOK
  <2>4. ASSUME NEW t \in Tids, t # a, Alive(t) PROVE self[t] # self[a]
    BY <2>0, <2>4 DEF ThreadsInv, AloneOn
  <2> QED BY <1>1, <2>0, <2>1, <2>2, <2>3, <2>4 DEF Released, NobodyElse
<1>2. CASE pc[a] = "j_release"
  <2>0. /\ Joining(a) /\ target[a] \in handles /\ self[target[a]] = obj[a]
        /\ start_status[obj[a]] = "ok" /\ Sound(obj[a])
    BY <1>2, <1>5 DEF PlacesInv, PlaceKnown, Joining, JoinInv, JoinsTarget, JoinFields
  <2>1. ASSUME NEW b \in Actors, b # a, Fresh(b) PROVE obj[b] # obj[a]
    BY <2>0, <2>1 DEF CreateInv, NoHandle
  <2>2. ASSUME NEW b \in Actors, b # a, Failed(b) PROVE obj[b] # obj[a]
    BY <2>0, <2>2 DEF JoinInv, JoinsAlone, HandlesInv, HandleAlone, CreateInv, ParentOf,
       ChildFailed, Parent
  <2>3. ASSUME NEW b \in Actors, b # a, Joining(b) PROVE obj[b] # obj[a]
    BY <2>0, <2>3 DEF JoinInv, JoinsAlone
  <2>4. ASSUME NEW t \in Tids, Alive(t) PROVE self[t] # obj[a]
    BY <1>2, <2>0, <2>4 DEF JoinInv, JoinWaits, HandlesInv, HandleAlone
  <2> QED BY <1>2, <2>0, <2>1, <2>2, <2>3, <2>4 DEF Released, NobodyElse
<1>3. CASE pc[a] = "c_release" /\ after[a] = "c_add"
  <2>0. Fresh(a) /\ Sound(obj[a])
    BY <1>3, <1>5, ConstantsAssumption DEF Fresh
  <2>1. ASSUME NEW b \in Actors, b # a, Fresh(b) PROVE obj[b] # obj[a]
    BY <2>0, <2>1 DEF CreateInv, FreshAlone
  <2>2. ASSUME NEW b \in Actors, b # a, Failed(b) PROVE obj[b] # obj[a]
    BY <2>0, <2>2 DEF CreateInv, NoHandle, ParentOf, ParentAlone, ChildFailed, Parent
  <2>3. ASSUME NEW b \in Actors, b # a, Joining(b) PROVE obj[b] # obj[a]
    BY <2>0, <2>3 DEF CreateInv, NoHandle, JoinInv, JoinsTarget
  <2>4. ASSUME NEW t \in Tids, Alive(t) PROVE self[t] # obj[a]
    BY <2>0, <2>4 DEF CreateInv, OwnsAlone, Owning
  <2>5. \A t \in handles : self[t] # obj[a]
    BY <2>0 DEF CreateInv, NoHandle
  <2> QED BY <1>0, <1>3, <2>1, <2>2, <2>3, <2>4, <2>5 DEF Released, NobodyElse
<1>4. CASE pc[a] = "c_release" /\ after[a] = "c_release"
  <2>0. /\ Failed(a) /\ Parent(a) /\ saved[a] \in handles /\ self[saved[a]] = obj[a]
        /\ ~Alive(saved[a]) /\ ~Cloned(a) /\ Sound(obj[a])
    BY <1>4, <1>5 DEF Failed, Parent, Cloned, CreateInv, ChildFailed, ParentOf
  <2>1. ASSUME NEW b \in Actors, b # a, Fresh(b) PROVE obj[b] # obj[a]
    BY <2>0, <2>1 DEF CreateInv, NoHandle
  <2>2. ASSUME NEW b \in Actors, b # a, Parent(b), saved[b] \in handles
        PROVE  obj[b] # obj[a]
    BY <2>0, <2>2 DEF HandlesInv, HandleAlone, CreateInv, ParentOf, ParentAlone
  <2>3. ASSUME NEW b \in Actors, b # a, Joining(b) PROVE obj[b] # obj[a]
    BY <2>0, <2>3 DEF JoinInv, JoinsTarget, JoinsAlone, HandlesInv, HandleAlone
  <2>4. ASSUME NEW t \in Tids, Alive(t) PROVE self[t] # obj[a]
    BY <2>0, <2>4 DEF HandlesInv, HandleAlone
  <2>5. \A b \in Actors : Failed(b) /\ Sound(obj[b]) => Parent(b) /\ saved[b] \in handles
    BY DEF Parent, CreateInv, ChildFailed
  <2>6. \A b \in Actors : Cloned(b) => Parent(b)
    BY DEF Parent
  <2> QED BY <1>0, <1>4, <2>0, <2>1, <2>2, <2>3, <2>4, <2>5, <2>6 DEF Released, NobodyElse
<1> QED BY <1>1, <1>2, <1>3, <1>4 DEF Releasing, PlacesInv, PlaceKnown

\* Releasing a descriptor that is in used_desc keeps the invariant.
LEMMA ReleaseKnownKeeps ==
  ASSUME TypeOK, TypeOK', AllInv, NEW a \in Actors, Release(a), Released(a) \in used
  PROVE  AllInv'
<1> USE DEF AllInv, ghosts, Sound
<1>r. /\ pc[a] \in Releasing
      /\ Released(a) \in used
      /\ pc[a] = "exit_release" => a \in Tids
      /\ used' = used \ {Released(a)}
      /\ free' = Append(free, Released(a))
      /\ pc' = [pc EXCEPT ![a] = IF pc[a] = "exit_release" THEN "kernel_exit" ELSE "run"]
      /\ Return(a)
      /\ UNCHANGED <<allocated, fields, self, ghosts>>
  BY ReleasedUsed DEF Release, Unlist
<1>n. Sound(Released(a)) =>
      /\ \A b \in Actors : b # a /\ (Fresh(b) \/ Failed(b) \/ Joining(b)) => obj[b] # Released(a)
      /\ \A b \in Actors : Cloned(b) /\ start_status[obj[b]] # "ok" => obj[b] # Released(a)
      /\ \A t \in Tids : Alive(t) /\ (t = a => pc[a] # "exit_release") => self[t] # Released(a)
  BY <1>r, ReleasedAlone DEF NobodyElse
<1> USE <1>r, <1>n
<1>1. /\ Released(a) \in Descs
      /\ FreeSet' = FreeSet \cup {Released(a)}
      /\ Released(a) \notin FreeSet
  <2>1. Released(a) \in Descs /\ Released(a) \notin FreeSet
    BY DEF TypeOK, ListsInv, Distinct
  <2>2. FreeSet' = FreeSet \cup {Released(a)}
    <3>1. {Append(free, Released(a))[i] : i \in DOMAIN Append(free, Released(a))}
            = {free[i] : i \in DOMAIN free} \cup {Released(a)}
      <4>1. free \in Seq(Descs) BY DEF TypeOK
      <4> QED BY <2>1, <4>1, AppendSet
    <3> QED BY <3>1 DEF FreeSet
  <2> QED BY <2>1, <2>2
<1>2. ASSUME NEW b \in Actors, b # a
      PROVE pc'[b] = pc[b] /\ obj'[b] = obj[b] /\ saved'[b] = saved[b] /\ after'[b] = after[b]
              /\ explicit'[b] = explicit[b] /\ target'[b] = target[b]
  BY <1>2 DEF Return, TypeOK
<1>3. ASSUME NEW b \in Actors
      PROVE /\ Hand(b)' <=> b # a /\ Hand(b)
            /\ Fresh(b)' <=> b # a /\ Fresh(b)
            /\ Failed(b)' <=> b # a /\ Failed(b)
            /\ Joining(b)' <=> b # a /\ Joining(b)
            /\ Cloned(b)' <=> b # a /\ Cloned(b)
            /\ Owning(b)' <=> b # a /\ Owning(b)
            /\ Parent(b)' <=> b # a /\ Parent(b)
  BY <1>2 DEF Hand, Fresh, Failed, Joining, Cloned, Owning, Parent, Waiting, WaitPlaces,
     TypeOK
<1>3a. ~Hand(a) /\ ~Cloned(a) BY DEF Hand, Waiting, WaitPlaces, Cloned, Releasing, Release
<1>4. ASSUME NEW t \in Tids PROVE /\ Alive(t)' <=> Alive(t)
                                  /\ pc'[t] = "kernel_wake" <=> pc[t] = "kernel_wake"
                                  /\ pc'[t] = "none" <=> pc[t] = "none"
                                  /\ pc'[t] = "new" <=> pc[t] = "new"
  BY DEF Alive, Releasing, Release, TypeOK, Actors
<1>a. PlacesInv'
  BY DEF TypeOK, AllInv, Actors, lists, fields, locals, Goto, Release, Releasing,
     Released, Unlist, Return, PlacesInv, PlaceKnown, WaitPlaces, ThreadPlaces
<1>b. ListsInv'
  <2>1. Accounted'
     BY <1>1, <1>2, <1>3, <1>3a DEF ListsInv, Accounted, InHand, Hand, Waiting
  <2>2. Distinct'
     BY <1>1 DEF ListsInv, Distinct, FreeSet, TypeOK
  <2>3. ASSUME NEW b \in Actors PROVE HandApart(b)' /\ Listed(b)'
     BY <1>1, <1>2, <1>3 DEF ListsInv, Held, HandApart, Listed, TypeOK
  <2>4. ASSUME NEW b \in Actors PROVE Held(b)'
    <3>1. b = a => obj'[b] = NoDesc BY DEF Return, TypeOK
    <3> QED BY <3>1, <1>2 DEF ListsInv, Held
  <2> QED BY <2>1, <2>2, <2>3, <2>4 DEF ListsInv
<1>c. ThreadsInv'
  <2> SUFFICES ASSUME NEW t \in Tids
               PROVE  (OnDescriptor(t) /\ AloneOn(t) /\ InUse(t) /\ TidStored(t))'
     BY DEF ThreadsInv
  <2>1. OnDescriptor(t)' /\ AloneOn(t)' BY <1>4 DEF ThreadsInv, OnDescriptor, AloneOn
  <2>2. InUse(t)'
    <3>1. CASE t = a
      <4>1. CASE pc[a] = "exit_release"
        BY <3>1, <4>1 DEF TypeOK, InUse
      <4>2. CASE pc[a] # "exit_release"
        BY <3>1, <4>2, <1>4 DEF TypeOK, AllInv, Actors, lists, fields, locals, Goto,
           Release, Releasing, Released, Unlist, Return, Releasing, ThreadsInv, InUse
      <4> QED BY <4>1, <4>2
    <3>2. CASE t # a
      BY <3>2, <1>4 DEF ThreadsInv, InUse, TypeOK, Actors
    <3> QED BY <3>1, <3>2
  <2>3. TidStored(t)'
     BY <1>2, <1>4 DEF TypeOK, AllInv, Actors, lists, fields, locals, Goto, Release,
        Releasing, Released, Unlist, Return, Releasing, ThreadsInv, TidStored
  <2> QED BY <2>1, <2>2, <2>3
<1>d. TidInv' 
  BY <1>4 DEF TidInv, TypeOK, fields
<1>e. CreateInv'
  <2> SUFFICES ASSUME NEW b \in Actors 
               PROVE  /\ (OwnsAlone(b) /\ WaitsForLast(b) /\ FreshAlone(b) /\ NoHandle(b))'
                      /\ (ParentOf(b) /\ ParentAlone(b) /\ ChildAlive(b))'
                      /\ (ChildKept(b) /\ ChildFailed(b))'
     BY DEF CreateInv
  <2>1. CASE b = a
     BY <1>3, <2>1 DEF OwnsAlone, WaitsForLast, FreshAlone, NoHandle, ParentOf, ParentAlone,
        ChildAlive, ChildKept, ChildFailed, TypeOK
  <2>2. CASE b # a
    <3>1. (OwnsAlone(b) /\ FreshAlone(b) /\ NoHandle(b))'
      BY <1>2, <1>3, <1>4, <2>2 DEF CreateInv, OwnsAlone, FreshAlone, NoHandle
    <3>2. WaitsForLast(b)'
      BY <1>2, <1>3, <1>4, <2>2 DEF CreateInv, WaitsForLast
    <3>3. (ParentOf(b) /\ ParentAlone(b) /\ ChildAlive(b) /\ ChildFailed(b))'
      <4>0. ParentOf(b) /\ ParentAlone(b) /\ ChildAlive(b) /\ ChildFailed(b) BY DEF CreateInv
      <4>1. ParentOf(b)' BY <4>0, <1>2, <1>3, <2>2 DEF ParentOf
      <4>4. ParentAlone(b)'
        <5> SUFFICES ASSUME Parent(b)', Sound(obj[b])', NEW c \in Actors, Parent(c)',
                            saved'[c] = saved'[b]
                     PROVE  c = b
          BY DEF ParentAlone
        <5>1. Parent(b) /\ Parent(c) /\ c # a BY <1>3
        <5>2. saved[c] = saved[b] /\ obj'[b] = obj[b] BY <5>1, <1>2, <2>2
        <5>3. obj[b] \notin spoiled BY <5>2
        <5> QED BY <4>0, <5>1, <5>2, <5>3 DEF ParentAlone
      <4>2. ChildAlive(b)'
        <5> SUFFICES ASSUME pc[b] = "c_tid", Sound(obj[b]) PROVE Alive(saved[b])'
          BY <1>2, <2>2 DEF ChildAlive
        <5>1. saved[b] \in Tids BY <4>0 DEF ParentOf, Parent, Cloned
        <5>2. saved'[b] = saved[b] BY <1>2, <2>2
        <5> QED BY <4>0, <5>1, <5>2, <1>4 DEF ChildAlive, Alive
      <4>3. ChildFailed(b)'
        BY <4>0, <1>2, <1>3, <1>4, <2>2 DEF ParentOf, ChildFailed, Parent, Failed
      <4> QED BY <4>1, <4>2, <4>3, <4>4
    <3>4. ChildKept(b)'
      <4> SUFFICES ASSUME Cloned(b), start_status[obj[b]] # "ok", Sound(obj[b])
                   PROVE  saved[b] \in handles /\ obj[b] \in used'
        BY <1>2, <1>3, <2>2 DEF ChildKept, fields
      <4>1. saved[b] \in handles /\ obj[b] \in used
        BY DEF CreateInv, ChildKept
      <4> QED BY <4>1
    <3> QED BY <3>1, <3>2, <3>3, <3>4
  <2> QED BY <2>1, <2>2
<1>f. JoinInv'
   BY <1>2, <1>3, <1>4 DEF TypeOK, AllInv, Actors, lists, fields, locals, Goto, Release,
      Releasing, Released, Unlist, Return, JoinInv, JoinsTarget, JoinFields, JoinsAlone,
      JoinWaits
<1>g. HandlesInv'
  <2> SUFFICES ASSUME NEW t \in handles
               PROVE  (HandleAlone(t) /\ HandleEnded(t) /\ HandleParent(t))'
    BY DEF HandlesInv
  <2>0. HandleAlone(t) /\ HandleEnded(t) /\ HandleParent(t) /\ t \in Tids
    BY DEF HandlesInv, TypeOK
  <2>1. HandleAlone(t)'
    BY <2>0, <1>4 DEF HandleAlone, TypeOK
  <2>2. HandleEnded(t)'
    BY <2>0 DEF TypeOK, AllInv, Actors, lists, fields, locals, Goto, Release, Releasing,
       Released, Unlist, Return, Releasing, HandleEnded, Ended
  <2>3. HandleParent(t)'
    <3> SUFFICES ASSUME self[t] \in used', start_status[self[t]] # "ok", Sound(self[t])
                 PROVE  \E b \in Actors : Parent(b)' /\ saved'[b] = t
      BY DEF HandleParent, fields
    <3>1. PICK b \in Actors : Parent(b) /\ saved[b] = t
      BY <2>0 DEF HandleParent
    <3>2. b # a
      <4> SUFFICES ASSUME b = a PROVE FALSE OBVIOUS
      <4>1. pc[a] # "exit_release" /\ self[saved[a]] = obj[a]
        BY <3>1, <1>3a DEF Parent, Failed, CreateInv, ParentOf, PlacesInv, PlaceKnown,
           WaitPlaces
      <4> QED BY <3>1, <4>1 DEF Released
    <3> QED BY <3>1, <3>2, <1>2, <1>3
  <2> QED BY <2>1, <2>2, <2>3
<1>h. StatusInv'
  <2>1. ASSUME NEW b \in Actors, b # a
        PROVE  (CloneStatus(b) /\ ChildStatus(b) /\ FailedStatus(b))'
    <3>0. CloneStatus(b) /\ ChildStatus(b) /\ FailedStatus(b) /\ ParentOf(b)
      BY DEF StatusInv, CreateInv
    <3>1. CloneStatus(b)' BY <3>0, <1>2, <2>1 DEF CloneStatus, fields
    <3>2. ChildStatus(b)'
      <4>1. ASSUME pc[b] \in {"c_tid", "c_sched"}
            PROVE  pc[saved[b]] \in Starting => pc'[saved[b]] \in Starting
        BY <4>1, <3>0 DEF ParentOf, Parent, Cloned, Releasing, Release, Starting, TypeOK,
           Actors
      <4> QED BY <3>0, <4>1, <1>2, <2>1 DEF ChildStatus, fields
    <3>3. FailedStatus(b)' BY <3>0, <1>2, <1>3, <2>1 DEF FailedStatus, fields
    <3> QED BY <3>1, <3>2, <3>3
  <2>2. (CloneStatus(a) /\ ChildStatus(a) /\ FailedStatus(a))'
    BY <1>3 DEF CloneStatus, ChildStatus, FailedStatus, TypeOK
  <2>3. ASSUME NEW t \in Tids PROVE RunStatus(t)'
    BY <1>4 DEF TypeOK, AllInv, Actors, lists, fields, locals, Goto, Release, Releasing,
       Released, Unlist, Return, Releasing, StatusInv, RunStatus, Starting
  <2> QED BY <2>1, <2>2, <2>3 DEF StatusInv
<1> QED BY <1>a, <1>b, <1>c, <1>d, <1>e, <1>f, <1>g, <1>h

\* Releasing an unknown descriptor stops the process and keeps the invariant.
LEMMA ReleaseUnknownKeeps ==
  ASSUME TypeOK, TypeOK', AllInv, NEW a \in Actors, Release(a), Released(a) \notin used
  PROVE  AllInv'
<1> USE DEF AllInv, Sound, TypeOK, Actors
<1>0. /\ pc[a] \in Releasing
      /\ pc' = [pc EXCEPT ![a] = "crashed"]
      /\ Released(a) \notin used
      /\ Released(a) \in spoiled \cup {NoDesc}
      /\ UNCHANGED <<allocated, used, free, join_status, joiner, tid, retval, start_status>>
      /\ UNCHANGED <<self, obj, saved, after, explicit, target, handles, spoiled>>
  BY ReleasedUsed DEF Release, lists, fields, locals, ghosts
<1> USE DEF Releasing, Released
<1>1. PlacesInv'
  BY SMTT(20), <1>0, ConstantsAssumption DEF PlacesInv, PlaceKnown, ThreadPlaces, WaitPlaces
<1>2. ListsInv'
  BY SMTT(20), <1>0 DEF ListsInv, Accounted, Distinct, Held, HandApart, Listed, FreeSet, InHand,
       WaitPlaces, Hand, Waiting, Fresh, Failed, Joining
<1>3. ThreadsInv'
  BY SMTT(20), <1>0 DEF ThreadsInv, OnDescriptor, AloneOn, InUse, TidStored, Alive
<1>4. TidInv'
  BY SMTT(20), <1>0 DEF TidInv, Alive
<1>5. CreateInv'
  BY SMTT(20), <1>0 DEF CreateInv, OwnsAlone, WaitsForLast, FreshAlone, NoHandle, ParentOf,
       ParentAlone, ChildAlive, ChildKept, ChildFailed, Owning, Fresh, Alive, Hand, Waiting,
       WaitPlaces, Parent, Cloned, Failed
<1>6. JoinInv'
  BY SMTT(20), <1>0 DEF JoinInv, JoinsTarget, JoinFields, JoinsAlone, JoinWaits, Joining, Waiting,
       WaitPlaces, Parent, Cloned, Failed, Alive
<1>7. HandlesInv'
  BY SMTT(20), <1>0 DEF HandlesInv, HandleAlone, HandleEnded, HandleParent, Alive, Ended, Parent,
       Cloned, Failed, Waiting, WaitPlaces, CreateInv, ParentOf
<1>8. StatusInv'
  BY SMTT(20), <1>0 DEF StatusInv, CloneStatus, ChildStatus, FailedStatus, RunStatus, Starting,
       Failed, Waiting, WaitPlaces, Alive, CreateInv, ParentOf, Parent, Cloned
<1> QED BY <1>1, <1>2, <1>3, <1>4, <1>5, <1>6, <1>7, <1>8

\* Releasing a descriptor keeps the invariant.
LEMMA ReleaseKeeps ==
  ASSUME TypeOK, TypeOK', AllInv, NEW a \in Actors, Release(a)
  PROVE  AllInv'
BY ReleaseKnownKeeps, ReleaseUnknownKeeps

\* A call of tbthread_join keeps the invariant: the handle is good, so the thread is
\* nobody's failed child, and has released its descriptor only if that is spoiled now.
LEMMA JoinCallKeeps ==
  ASSUME TypeOK, TypeOK', AllInv, NEW a \in Actors, NEW t \in Tids, JoinCall(a, t)
  PROVE  AllInv'
<1> USE DEF AllInv, Sound, TypeOK, JoinCall, Usable, Actors, InCreate, CreatePlaces, WaitPlaces,
     MayJoin, Self, JoinsMe, Goto, BeginWait, lists
<1>0. /\ spoiled \subseteq spoiled'
      /\ self[t] \notin spoiled' => pc[t] # "exit_release"
  BY DEF SpoiledIf
<1>1. PlacesInv'
  BY SMTT(20), <1>0 DEF PlacesInv, PlaceKnown, ThreadPlaces
<1>2. ListsInv'
  BY SMTT(20), <1>0 DEF ListsInv, Accounted, Distinct, Held, HandApart, Listed, FreeSet, InHand, Hand,
       Waiting, Fresh, Failed, Joining
<1>3. ThreadsInv'
  BY SMTT(20), <1>0 DEF ThreadsInv, OnDescriptor, AloneOn, InUse, TidStored, Alive
<1>4. TidInv'
  BY SMTT(20), <1>0 DEF TidInv, Alive
<1>5. CreateInv'
  BY SMTT(20), <1>0 DEF CreateInv, OwnsAlone, WaitsForLast, FreshAlone, NoHandle, ParentOf, ParentAlone,
       ChildAlive, ChildKept, ChildFailed, Owning, Fresh, Alive, Hand, Waiting, Parent,
       Cloned, Failed
<1>6. JoinInv'
  <2>0. /\ t \in handles /\ self[t] \in used
        /\ self[t] \notin spoiled' => pc[t] # "exit_release"
        /\ spoiled \subseteq spoiled'
        /\ \A c \in Actors : InCreate(c) => saved[c] # t
        /\ \A c \in Actors : Parent(c) => saved[c] # t
        /\ Sound(self[t]) => start_status[self[t]] = "ok"
    <3>1. /\ t \in handles /\ self[t] \in used
          /\ \A c \in Actors : InCreate(c) => saved[c] # t
      OBVIOUS
    <3>2. \A c \in Actors : Parent(c) => InCreate(c)
      BY DEF Parent, Cloned, Failed, Waiting, InCreate
    <3> QED BY <1>0, <3>1, <3>2 DEF HandlesInv, HandleParent
  <2>1. /\ Joining(a)' /\ obj'[a] = self[t] /\ target'[a] = t /\ pc'[a] = "w_read"
        /\ Self(a) # NoDesc /\ joiner[self[t]] = NoDesc /\ self[t] \in Descs
    BY ConstantsAssumption DEF Joining, Waiting, PlacesInv, ThreadsInv, OnDescriptor,
       ListsInv, Accounted
  <2>2. ASSUME NEW b \in Actors, b # a
        PROVE  /\ pc'[b] = pc[b] /\ obj'[b] = obj[b] /\ target'[b] = target[b]
               /\ saved'[b] = saved[b] /\ after'[b] = after[b]
               /\ Joining(b)' <=> Joining(b)
               /\ Parent(b)' <=> Parent(b)
    BY <2>2 DEF Joining, Waiting, Parent, Cloned, Failed
  <2>3. ~Joining(a) /\ ~Parent(a) /\ ~Parent(a)'
    BY <2>1 DEF Joining, Waiting, Parent, Cloned, Failed, PlacesInv, PlaceKnown
  <2>4. \A b \in Actors : Joining(b) /\ Sound(obj[b]) => obj[b] # self[t]
    BY <2>1 DEF JoinInv, JoinFields
  <2>5. \A b \in Actors : Joining(b) /\ Sound(obj[b]) => target[b] # t
    BY <2>4 DEF JoinInv, JoinsTarget
  <2> SUFFICES ASSUME NEW b \in Actors, Joining(b)', Sound(obj[b])'
               PROVE  (JoinsTarget(b) /\ JoinFields(b) /\ JoinsAlone(b) /\ JoinWaits(b))'
    BY DEF JoinInv, JoinsTarget, JoinFields, JoinsAlone, JoinWaits
  <2>6. CASE b = a
    <3>1. JoinsTarget(a)'
      BY <2>0, <2>1 DEF JoinsTarget, ThreadsInv, PlacesInv
    <3>2. JoinFields(a)'
      BY <2>0, <2>1 DEF JoinFields
    <3>3. JoinsAlone(a)'
      BY <2>0, <2>1, <2>2, <2>3, <2>4 DEF JoinsAlone, JoinInv, JoinFields
    <3>4. JoinWaits(a)'
      BY <2>1 DEF JoinWaits
    <3> QED BY <2>6, <3>1, <3>2, <3>3, <3>4
  <2>7. CASE b # a
    <3>0. JoinsTarget(b) /\ JoinFields(b) /\ JoinsAlone(b) /\ JoinWaits(b) /\ Joining(b)
      BY <2>0, <2>2, <2>7 DEF JoinInv
    <3>1. JoinsTarget(b)'
      BY <2>0, <2>2, <2>7, <3>0 DEF JoinsTarget
    <3>2. JoinFields(b)'
      BY <2>0, <2>2, <2>4, <2>7, <3>0 DEF JoinFields
    <3>3. JoinsAlone(b)'
      BY <2>0, <2>1, <2>2, <2>3, <2>4, <2>7, <3>0 DEF JoinsAlone
    <3>4. JoinWaits(b)'
      BY <2>0, <2>2, <2>7, <3>0 DEF JoinWaits, JoinsTarget, Alive
    <3> QED BY <3>1, <3>2, <3>3, <3>4
  <2> QED BY <2>6, <2>7
<1>7. HandlesInv'
  BY SMTT(20), <1>0 DEF HandlesInv, HandleAlone, HandleEnded, HandleParent, Alive, Ended, Parent,
       Cloned, Failed, Waiting
<1>8. StatusInv'
  BY SMTT(20), <1>0 DEF StatusInv, CloneStatus, ChildStatus, FailedStatus, RunStatus, Starting,
       Failed, Waiting, Alive
<1> QED BY <1>1, <1>2, <1>3, <1>4, <1>5, <1>6, <1>7, <1>8

\* A call of tbthread_detach keeps the invariant.
LEMMA DetachCallKeeps ==
  ASSUME TypeOK, TypeOK', AllInv, NEW a \in Actors, NEW t \in Tids, DetachCall(a, t)
  PROVE  AllInv'
<1> USE DEF AllInv, ghosts, Sound, TypeOK, DetachCall, Usable, Actors, InCreate, CreatePlaces, WaitPlaces,
     MayDetach, lists, locals
<1>1. PlacesInv'
  BY SMTT(20) DEF PlacesInv, PlaceKnown
<1>2. ListsInv'
  BY SMTT(20) DEF ListsInv, Accounted, Distinct, Held, HandApart, Listed, FreeSet, InHand, Hand,
       Waiting, Fresh, Failed, Joining
<1>3. ThreadsInv'
  BY SMTT(20) DEF ThreadsInv, OnDescriptor, AloneOn, InUse, TidStored, Alive
<1>4. TidInv'
  BY SMTT(20) DEF TidInv, Alive
<1>5. CreateInv'
  BY SMTT(20) DEF CreateInv, OwnsAlone, WaitsForLast, FreshAlone, NoHandle, ParentOf, ParentAlone,
       ChildAlive, ChildKept, ChildFailed, Owning, Fresh, Alive, Hand, Waiting, Parent,
       Cloned, Failed
<1>6. JoinInv'
  BY SMTT(20) DEF JoinInv, JoinsTarget, JoinFields, JoinsAlone, JoinWaits, Joining, Waiting,
       Parent, Cloned, Failed, Alive
<1>7. HandlesInv'
  BY SMTT(20) DEF HandlesInv, HandleAlone, HandleEnded, HandleParent, Alive, Ended, Parent,
       Cloned, Failed, Waiting
<1>8. StatusInv'
  BY SMTT(20) DEF StatusInv, CloneStatus, ChildStatus, FailedStatus, RunStatus, Starting,
       Failed, Waiting, Alive
<1> QED BY <1>1, <1>2, <1>3, <1>4, <1>5, <1>6, <1>7, <1>8

-----------------------------------------------------------------------------
(* The invariant and the properties                                        *)

\* Every step keeps the invariant.
LEMMA AllStep ==
  ASSUME TypeInv, TypeOK', AllInv, [Next]_vars
  PROVE  AllInv'
<1>0. TypeOK /\ \A a \in Actors : HasDescriptor(a)
  BY DEF TypeInv
<1> USE <1>0
<1>1. ASSUME NEW a \in Actors, CallStep(a) PROVE AllInv'
  BY <1>1, WaitReadKeeps, WaitFutexKeeps, ReleaseKeeps, CreateAddKeeps, CreateInitKeeps,
     CreateCloneKeeps, CreateStoreTidKeeps, CreateSchedKeeps, CreateWakeKeeps DEF CallStep
<1>2. ASSUME NEW a \in Actors, Optional(a) PROVE AllInv'
  BY <1>2, CreateCallKeeps, WaitInterruptedKeeps, JoinCallKeeps, DetachCallKeeps DEF
     Optional
<1>3. ASSUME NEW t \in Tids, ThreadStep(t) PROVE AllInv'
  BY <1>3, ChildSetTidKeeps, StartCheckKeeps, StartWaitKeeps, StartDecideKeeps,
     ExitCallKeeps,
     ExitFixKeeps, KernelExitKeeps, KernelWakeKeeps DEF ThreadStep
<1>4. CASE UNCHANGED vars
  BY <1>4, AllStutters
<1> QED BY <1>1, <1>2, <1>3, <1>4 DEF Next

\* What every actor may assume of its descriptor holds in every state.
THEOREM DescriptorsInvariant == Spec => [](TypeOK /\ AllInv)
<1>1. Init => TypeInv /\ AllInv
  BY TypeInit, AllInit
<1>2. TypeInv /\ AllInv /\ TypeInv' /\ [Next]_vars => AllInv'
  BY AllStep DEF TypeInv
<1>3. TypeInv => TypeOK
  BY DEF TypeInv
<1> QED BY <1>1, <1>2, <1>3, TypeInvariant, PTL DEF Spec

\* The invariant accounts for every descriptor.
LEMMA ConservedStates == ASSUME TypeOK, AllInv PROVE DescriptorsConserved
<1> USE DEF AllInv, ghosts, Sound
<1>1. \A a \in Actors, d \in Descs : InHand(a, d) <=> Hand(a) /\ obj[a] = d
  BY DEF InHand, Hand, Waiting
<1>2. Len(free) = Cardinality(FreeSet)
  <2>1. free \in Seq(Descs) /\ Len(free) \in Nat /\ DOMAIN free = 1..Len(free)
    BY DEF TypeOK
  <2>2. free \in Bijection(1..Len(free), FreeSet)
    <3>1. free \in [1..Len(free) -> FreeSet]
      BY <2>1 DEF FreeSet
    <3>2. \A i, j \in 1..Len(free) : free[i] = free[j] => i = j
      BY <2>1 DEF ListsInv, Distinct
    <3>3. \A d \in FreeSet : \E i \in 1..Len(free) : free[i] = d
      BY <2>1 DEF FreeSet
    <3> QED BY <3>1, <3>2, <3>3 DEF Bijection, Injection, Surjection, IsInjective
  <2>3. ExistsBijection(1..Len(free), FreeSet)
    BY <2>2 DEF ExistsBijection
  <2> QED BY <2>1, <2>3, FS_CountingElements
<1>3. ASSUME NEW a \in Actors, NEW d \in Descs, InHand(a, d)
      PROVE  d \notin used \cup FreeSet /\ \A b \in Actors : InHand(b, d) => b = a
  BY <1>1, <1>3 DEF ListsInv, HandApart
<1> QED BY <1>2, <1>3 DEF DescriptorsConserved, ListsInv, Accounted, Distinct

\* Under the invariant a release of a sound descriptor finds it, and is the only one.
LEMMA KnownStates == ASSUME TypeOK, AllInv PROVE ReleasesKnown
<1> SUFFICES ASSUME NEW a \in Actors, pc[a] \in Releasing,
                    Released(a) \notin spoiled \cup {NoDesc}
             PROVE  /\ Released(a) \in used
                    /\ \A b \in Actors : pc[b] \in Releasing /\ Released(b) = Released(a) => b = a
  BY DEF ReleasesKnown
<1>1. Released(a) \in used /\ NobodyElse(a)
  BY ReleasedUsed, ReleasedAlone DEF Sound
<1>2. ASSUME NEW b \in Actors, pc[b] \in Releasing, b # a, Released(b) = Released(a)
      PROVE  FALSE
  <2>1. CASE pc[b] = "exit_release"
    <3>1. b \in Tids /\ Alive(b) BY <2>1, ReleasedUsed, <1>2 DEF Alive
    <3> QED BY <1>1, <1>2, <2>1, <3>1 DEF NobodyElse, Released
  <2>2. CASE pc[b] # "exit_release"
    <3>2. Released(b) = obj[b] /\ obj[b] # NoDesc
      BY <1>2, <2>2 DEF Released
    <3>1. Fresh(b) \/ Failed(b) \/ Joining(b)
      BY <1>2, <2>2, <3>2 DEF Releasing, Fresh, Failed, Joining, AllInv, PlacesInv, PlaceKnown
    <3> QED BY <1>1, <1>2, <3>1, <3>2 DEF NobodyElse
  <2> QED BY <2>1, <2>2
<1> QED BY <1>1, <1>2

\* Under the invariant a creator that writes to a descriptor is alone with it.
LEMMA OwnedStates == ASSUME TypeOK, AllInv PROVE DescriptorsOwned
BY DEF DescriptorsOwned, AllInv, CreateInv, OwnsAlone, Owning, Fresh, ThreadsInv, InUse,
   AloneOn, Alive, Sound

\* Under the invariant a join that has waited has its result.
LEMMA RetvalStates == ASSUME TypeOK, AllInv PROVE JoinGetsRetval
<1> SUFFICES ASSUME NEW a \in Actors, pc[a] = "j_release", Sound(obj[a])
             PROVE  ~Alive(target[a]) /\ retval[obj[a]] = target[a]
  BY DEF JoinGetsRetval, Sound
<1>1. Joining(a)
  BY DEF AllInv, PlacesInv, PlaceKnown, Joining
<1>2. /\ ~Alive(target[a]) /\ target[a] \in handles /\ self[target[a]] = obj[a]
      /\ start_status[obj[a]] = "ok"
  BY <1>1 DEF AllInv, JoinInv, JoinsTarget, JoinFields, JoinWaits
<1>3. pc[target[a]] \in Ended
  BY <1>2 DEF AllInv, HandlesInv, HandleAlone, Alive, Ended
<1> QED BY <1>2, <1>3 DEF AllInv, HandlesInv, HandleEnded

\* Under the invariant user code runs in threads that were started.
LEMMA StartedStates == ASSUME TypeOK, AllInv PROVE RunsOnlyWhenStarted
BY DEF RunsOnlyWhenStarted, AllInv, StatusInv, RunStatus, Alive, Starting, Sound

\* No descriptor is lost or listed twice, whatever happens to it: used_desc, free_desc and the creators that
\* have one in hand share them out.
THEOREM NoDescriptorLost == Spec => []DescriptorsConserved
BY DescriptorsInvariant, ConservedStates, PTL

\* release_descriptor never meets an unknown descriptor (tb-threads.c would crash), and no
\* descriptor is released twice, as long as nothing came too early on that descriptor and
\* the stack got its guard page.
THEOREM NoUnknownRelease == Spec => []ReleasesKnown
BY DescriptorsInvariant, KnownStates, PTL

\* No creator writes to a descriptor a thread still uses, and no two threads share one, as
\* long as nothing came too early on that descriptor.
THEOREM NoSharedDescriptor == Spec => []DescriptorsOwned
BY DescriptorsInvariant, OwnedStates, PTL

\* tbthread_join returns after the end of its thread and with its return value, as long as
\* nothing came too early on the descriptor of that thread.
THEOREM JoinResult == Spec => []JoinGetsRetval
BY DescriptorsInvariant, RetvalStates, PTL

\* User code runs only after its creator has set the scheduler, as long as nothing ended the
\* only wait for it too early.
THEOREM StartOrdered == Spec => []RunsOnlyWhenStarted
BY DescriptorsInvariant, StartedStates, PTL
-----------------------------------------------------------------------------
(* Sleepers                                                                *)

\* A waiter that sleeps on a sound descriptor sleeps for a thread on it that is still there.
SleepsFor(a) ==
  /\ pc[a] \in {"w_futex", "w_asleep"} => saved[a] \in Tids
  /\ pc[a] = "w_asleep" /\ Sound(obj[a]) =>
       /\ self[saved[a]] = obj[a]
       /\ Alive(saved[a]) \/ pc[saved[a]] = "kernel_wake"

\* A thread that must wait for its start has a creator on its way to the wake-up, and
\* one that may yet go to sleep has a creator that has not stored start_status.
Starter(t, places) ==
  \E a \in Actors : saved[a] = t /\ explicit[a] /\ pc[a] \in places

MustWait(t) == pc[t] \in {"new", "start", "start_wait"} /\ start_status[self[t]] = "wait"

StarterComing(t) ==
  Sound(self[t]) => /\ pc[t] = "start_asleep" => Starter(t, {"c_tid", "c_sched", "c_wake"})
                    /\ MustWait(t) => Starter(t, {"c_tid", "c_sched"})

\* The wake-up of a creator is for the thread it has cloned.
WakesOwn(a) == pc[a] = "c_wake" => saved[a] \in Tids /\ self[saved[a]] = obj[a]

SleepInv ==
  /\ \A a \in Actors : SleepsFor(a) /\ WakesOwn(a)
  /\ \A t \in Tids : StarterComing(t)

\* What most steps leave alone: nobody begins to wait or to sleep, no thread goes.
WaitersStay ==
  \A a \in Actors : pc'[a] \in {"w_futex", "w_asleep"} =>
    /\ pc[a] \in {"w_futex", "w_asleep"}
    /\ pc'[a] = "w_asleep" => pc[a] = "w_asleep"
    /\ saved'[a] = saved[a] /\ obj'[a] = obj[a]

ThreadsStay ==
  \A t \in Tids : Alive(t) \/ pc[t] = "kernel_wake" =>
    self'[t] = self[t] /\ (Alive(t)' \/ pc'[t] = "kernel_wake")

\* No creator of a thread that waits moves, and no thread begins to wait for its start.
CreatorsStay ==
  \A a \in Actors : pc[a] \in {"c_tid", "c_sched", "c_wake"} /\ explicit[a] =>
    pc'[a] = pc[a] /\ saved'[a] = saved[a] /\ explicit'[a]

StartsStay ==
  /\ self' = self
  /\ \A t \in Tids : Sound(self[t])' =>
       /\ pc'[t] = "start_asleep" => pc[t] = "start_asleep"
       /\ MustWait(t)' => MustWait(t)

\* What is spoiled stays spoiled.
LEMMA SpoiledStays == ASSUME [Next]_vars PROVE spoiled \subseteq spoiled'
<1> USE DEF ghosts
<1>1. ASSUME NEW a \in Actors, CallStep(a) PROVE spoiled \subseteq spoiled'
  BY <1>1 DEF CallStep, WaitRead, WaitFutex, Release, CreateAdd, CreateInit, CreateClone,
     CreateStoreTid, CreateSched, CreateWake, SpoiledIf
<1>2. ASSUME NEW a \in Actors, Optional(a) PROVE spoiled \subseteq spoiled'
  BY <1>2 DEF Optional, CreateCall, CreateUnguarded, CreateReuse, CreateNew, WaitInterrupted,
     JoinCall, DetachCall, SpoiledIf
<1>3. ASSUME NEW t \in Tids, ThreadStep(t) PROVE spoiled \subseteq spoiled'
  BY <1>3 DEF ThreadStep, ChildSetTid, StartCheck, StartWait, StartDecide, ExitCall, ExitFix,
     KernelExit, KernelWake, SpoiledIf
<1>4. CASE UNCHANGED vars
  BY <1>4 DEF vars
<1> QED BY <1>1, <1>2, <1>3, <1>4 DEF Next

\* Such steps keep the two halves of the invariant.
LEMMA SleepersKept ==
  ASSUME SleepInv, WaitersStay, ThreadsStay, spoiled \subseteq spoiled'
  PROVE  \A a \in Actors : SleepsFor(a)'
BY DEF SleepInv, SleepsFor, WaitersStay, ThreadsStay, Sound

LEMMA StartersKept ==
  ASSUME SleepInv, CreatorsStay, StartsStay, spoiled \subseteq spoiled'
  PROVE  \A t \in Tids : StarterComing(t)'
BY DEF SleepInv, StarterComing, Starter, CreatorsStay, StartsStay, Sound

\* Which steps of a call leave the waiters alone.
LEMMA CallWaiters ==
  ASSUME TypeOK, TypeOK', NEW a \in Actors, CallStep(a)
  PROVE  /\ WaitRead(a) \/ WaitFutex(a) \/ WaitersStay
         /\ ThreadsStay
<1> USE DEF WaitersStay, ThreadsStay, Alive, Goto, TypeOK, Actors, lists, fields, locals
<1>1. CASE WaitRead(a)
  BY <1>1 DEF WaitRead
<1>2. CASE WaitFutex(a)
  BY <1>2 DEF WaitFutex
<1>3. CASE Release(a)
  <2>1. \/ pc' = [pc EXCEPT ![a] = "kernel_exit"] /\ pc[a] = "exit_release"
        \/ pc' = [pc EXCEPT ![a] = "run"] /\ pc[a] \in Releasing
        \/ pc' = [pc EXCEPT ![a] = "crashed"] /\ pc[a] \in Releasing
    BY <1>3 DEF Release
  <2>2. /\ self' = self
        /\ Return(a) \/ UNCHANGED locals
    BY <1>3 DEF Release
  <2> QED BY <2>1, <2>2 DEF Return, Releasing
<1>4. CASE CreateAdd(a)
  BY <1>4 DEF CreateAdd
<1>5. CASE CreateInit(a)
  BY <1>5 DEF CreateInit
<1>6. CASE CreateClone(a)
  BY <1>6 DEF CreateClone
<1>7. CASE CreateStoreTid(a)
  BY <1>7 DEF CreateStoreTid, Return
<1>8. CASE CreateSched(a)
  BY <1>8 DEF CreateSched
<1>9. CASE CreateWake(a)
  <2> DEFINE next == IF after[a] = "c_release" THEN "w_read" ELSE "run"
  <2>1. pc[a] = "c_wake" /\ self' = self
    BY <1>9 DEF CreateWake
  <2>2. \/ pc' = [pc EXCEPT ![a] = next]
        \/ \E s \in Starters(obj[a]) : pc' = [pc EXCEPT ![a] = next, ![s] = "start_check"]
    BY <1>9 DEF CreateWake, WakeOne, Starters
  <2>3. UNCHANGED <<obj, saved>> \/ Return(a)
    BY <1>9 DEF CreateWake
  <2> QED BY <2>1, <2>2, <2>3 DEF Starters, Return
<1> QED BY <1>1, <1>2, <1>3, <1>4, <1>5, <1>6, <1>7, <1>8, <1>9 DEF CallStep

\* A call begins, or a signal comes: nobody goes to sleep.
LEMMA OptionalStays ==
  ASSUME TypeOK, TypeOK', NEW a \in Actors, Optional(a)
  PROVE  WaitersStay /\ ThreadsStay /\ CreatorsStay /\ StartsStay
<1> USE DEF WaitersStay, ThreadsStay, CreatorsStay, StartsStay, MustWait, Alive, Goto, TypeOK,
            Actors, lists, fields, locals, Sound
<1>1. CASE CreateCall(a)
  <2>1. /\ pc[a] = "run" /\ \E x \in {"w_read", "c_add", "c_release"} : pc' = [pc EXCEPT ![a] = x]
        /\ UNCHANGED <<start_status, self, saved, explicit>>
        /\ \A b \in Actors : b # a => obj'[b] = obj[b]
    BY <1>1 DEF CreateCall, CreateUnguarded, CreateReuse, CreateNew, Reuse, Malloc
  <2> QED BY <2>1
<1>2. CASE WaitInterrupted(a)
  BY <1>2 DEF WaitInterrupted, OnSignal
<1>3. ASSUME NEW t \in Tids, JoinCall(a, t)
      PROVE  WaitersStay /\ ThreadsStay /\ CreatorsStay /\ StartsStay
  BY <1>3 DEF JoinCall
<1>4. ASSUME NEW t \in Tids, DetachCall(a, t)
      PROVE  WaitersStay /\ ThreadsStay /\ CreatorsStay /\ StartsStay
  BY <1>4 DEF DetachCall
<1> QED BY <1>1, <1>2, <1>3, <1>4 DEF Optional

\* A thread's own steps: none of them ends a thread but the kernel's wake-up, and only
\* the wait for the start puts it to sleep.
LEMMA ThreadStays ==
  ASSUME TypeOK, TypeOK', NEW t \in Tids, ThreadStep(t)
  PROVE  /\ WaitersStay /\ CreatorsStay
         /\ KernelWake(t) \/ ThreadsStay
         /\ StartWait(t) \/ StartsStay
<1> USE DEF WaitersStay, ThreadsStay, CreatorsStay, StartsStay, MustWait, Alive, Goto, TypeOK,
            Actors, lists, fields, locals, Sound
<1>1. CASE ChildSetTid(t)
  BY <1>1 DEF ChildSetTid
<1>2. CASE StartCheck(t)
  BY <1>2 DEF StartCheck
<1>3. CASE StartWait(t)
  BY <1>3 DEF StartWait
<1>4. CASE StartDecide(t)
  BY <1>4 DEF StartDecide
<1>5. CASE ExitCall(t)
  BY <1>5 DEF ExitCall
<1>6. CASE ExitFix(t)
  BY <1>6 DEF ExitFix
<1>7. CASE KernelExit(t)
  BY <1>7 DEF KernelExit
<1>8. CASE KernelWake(t)
  <2>1. /\ pc[t] = "kernel_wake" /\ self' = self /\ UNCHANGED <<locals, start_status>>
        /\ \/ pc' = [pc EXCEPT ![t] = "dead"]
           \/ \E s \in WaitersOn(self[t]) : pc' = [pc EXCEPT ![t] = "dead", ![s] = after[s]]
    BY <1>8 DEF KernelWake, WakeOne
  <2>2. ASSUME NEW s \in WaitersOn(self[t])
        PROVE  s \in Actors /\ pc[s] = "w_asleep" /\ after[s] \in {"c_add", "c_release", "j_release"}
    BY DEF WaitersOn
  <2> QED BY <1>8, <2>1, <2>2
<1> QED BY <1>1, <1>2, <1>3, <1>4, <1>5, <1>6, <1>7, <1>8 DEF ThreadStep

\* Which steps of a call leave the creators alone.
LEMMA CallCreators ==
  ASSUME TypeOK, TypeOK', AllInv, NEW a \in Actors, CallStep(a)
  PROVE  \/ CreateClone(a) \/ CreateStoreTid(a) \/ CreateSched(a) \/ CreateWake(a)
         \/ CreatorsStay /\ StartsStay
<1> USE DEF CreatorsStay, StartsStay, MustWait, Sound, ghosts, Goto, TypeOK, Actors, lists, fields, locals
<1>1. CASE WaitRead(a)
  BY <1>1 DEF WaitRead
<1>2. CASE WaitFutex(a)
  BY <1>2 DEF WaitFutex
<1>3. CASE Release(a)
  <2>1. \E x \in {"kernel_exit", "run", "crashed"} : pc' = [pc EXCEPT ![a] = x]
    BY <1>3 DEF Release
  <2>2. pc[a] \in Releasing /\ UNCHANGED <<self, start_status>>
    BY <1>3 DEF Release
  <2>3. Return(a) \/ UNCHANGED <<saved, explicit>>
    BY <1>3 DEF Release
  <2> QED BY <2>1, <2>2, <2>3 DEF Return, Releasing
<1>4. CASE CreateAdd(a)
  BY <1>4 DEF CreateAdd
<1>5. CASE CreateInit(a)
  <2>1. /\ pc[a] = "c_init" /\ pc' = [pc EXCEPT ![a] = "c_clone"]
        /\ UNCHANGED <<self, obj, saved, spoiled>>
        /\ \A d \in Descs \ {obj[a]} : start_status'[d] = start_status[d]
        /\ \A b \in Actors \ {a} : explicit'[b] = explicit[b]
    BY <1>5 DEF CreateInit
  <2>2. CreatorsStay
    BY <2>1
  <2>3. ASSUME NEW t \in Tids, Alive(t), self[t] \notin spoiled PROVE self[t] # obj[a]
    BY <2>1, <2>3 DEF AllInv, CreateInv, OwnsAlone, Owning, Fresh
  <2>4. ASSUME NEW t \in Tids, Alive(t) PROVE self[t] \in Descs
    BY <2>4 DEF AllInv, ThreadsInv, OnDescriptor, Alive
  <2>5. StartsStay
    BY <2>1, <2>3, <2>4 DEF Alive
  <2> QED BY <2>2, <2>5
<1>6. CASE CreateClone(a) \/ CreateStoreTid(a) \/ CreateSched(a) \/ CreateWake(a)
  BY <1>6
<1> QED BY <1>1, <1>2, <1>3, <1>4, <1>5, <1>6 DEF CallStep

\* Whoever waits on a sound descriptor is alone with it there.
LEMMA SleepsAlone ==
  ASSUME TypeOK, AllInv, NEW a \in Actors, NEW b \in Actors,
         pc[a] = "w_asleep", pc[b] = "w_asleep", obj[a] = obj[b], obj[a] \in Descs, Sound(obj[a])
  PROVE  a = b
<1> USE DEF AllInv
<1>1. /\ Hand(a) \/ Failed(a) \/ Joining(a)
      /\ Hand(b) \/ Failed(b) \/ Joining(b)
  BY DEF Hand, Failed, Joining, Waiting, WaitPlaces, TypeOK
<1>2. CASE Hand(a) \/ Hand(b)
  BY <1>1, <1>2 DEF ListsInv, HandApart, Listed
<1>3. CASE Failed(a) /\ Failed(b)
  <2>1. /\ Parent(a) /\ Parent(b) /\ saved[a] \in handles /\ saved[b] \in handles
        /\ self[saved[a]] = obj[a] /\ self[saved[b]] = obj[a]
    BY <1>3 DEF CreateInv, ParentOf, ChildFailed, Parent
  <2>2. saved[a] = saved[b]
    BY <2>1 DEF HandlesInv, HandleAlone
  <2> QED BY <2>1, <2>2 DEF CreateInv, ParentAlone
<1>4. CASE Joining(a) /\ Joining(b)
  BY <1>4 DEF JoinInv, JoinsAlone
<1>5. CASE Joining(a) /\ Failed(b)
  BY <1>5 DEF JoinInv, JoinFields, StatusInv, FailedStatus
<1>6. CASE Joining(b) /\ Failed(a)
  BY <1>6 DEF JoinInv, JoinFields, StatusInv, FailedStatus
<1> QED BY <1>1, <1>2, <1>3, <1>4, <1>5, <1>6

\* The steps that move waiters: to sleep for a thread that runs, or away from the one
\* that is gone.
LEMMA SleepersStep ==
  ASSUME TypeInv, TypeOK', AllInv, SleepInv, [Next]_vars
  PROVE  \A a \in Actors : SleepsFor(a)'
<1>t. TypeOK /\ \A a \in Actors : HasDescriptor(a)
  BY DEF TypeInv
<1> USE <1>t DEF Sound
<1>0. spoiled \subseteq spoiled'
  BY SpoiledStays
<1>1. ASSUME NEW a \in Actors, WaitRead(a) PROVE \A b \in Actors : SleepsFor(b)'
  <2>1. ThreadsStay /\ self' = self /\ obj' = obj
    BY <1>1, CallWaiters DEF CallStep, WaitRead
  <2>2. /\ pc'[a] # "w_asleep"
        /\ pc'[a] = "w_futex" => saved'[a] \in Tids
        /\ \A b \in Actors \ {a} : pc'[b] = pc[b] /\ saved'[b] = saved[b]
    BY <1>1, WaitReadFacts DEF TypeOK
  <2> QED BY <1>0, <2>1, <2>2 DEF SleepInv, SleepsFor, ThreadsStay
<1>2. ASSUME NEW a \in Actors, WaitFutex(a) PROVE \A b \in Actors : SleepsFor(b)'
  <2>1. /\ ThreadsStay /\ self' = self /\ obj' = obj /\ saved' = saved
        /\ pc[a] = "w_futex" /\ saved[a] \in Tids
    BY <1>2, CallWaiters DEF CallStep, WaitFutex, Goto, locals, SleepInv, SleepsFor
  <2>2. /\ pc'[a] = "w_asleep" => tid[obj[a]] = saved[a]
        /\ \A b \in Actors \ {a} : pc'[b] = pc[b]
    BY <1>2 DEF WaitFutex, Goto, TypeOK
  <2>3. obj[a] \in Descs
    BY <2>1 DEF HasDescriptor, WaitPlaces
  <2>4. tid[obj[a]] = saved[a] =>
          self[saved[a]] = obj[a] /\ (Sound(obj[a]) => Alive(saved[a]))
    BY <2>1, <2>3, ConstantsAssumption DEF AllInv, TidInv
  <2> QED BY <1>0, <2>1, <2>2, <2>4 DEF SleepInv, SleepsFor, ThreadsStay
<1>3. ASSUME NEW t \in Tids, KernelWake(t) PROVE \A b \in Actors : SleepsFor(b)'
  <2>1. /\ pc[t] = "kernel_wake" /\ self' = self /\ obj' = obj /\ saved' = saved
        /\ WaitersStay
    BY <1>3, ThreadStays DEF KernelWake, locals, ThreadStep
  <2>2. ASSUME NEW b \in Actors, pc'[b] = "w_asleep", Sound(obj[b]) PROVE saved[b] # t
    <3>1. pc[b] = "w_asleep" /\ SleepsFor(b)
      BY <2>1, <2>2 DEF WaitersStay, SleepInv
    <3>2. SUFFICES ASSUME saved[b] = t PROVE FALSE
      OBVIOUS
    <3>3. b \in WaitersOn(self[t])
      BY <2>2, <3>1, <3>2 DEF SleepsFor, WaitersOn
    <3>4. PICK s \in WaitersOn(self[t]) : pc' = [pc EXCEPT ![t] = "dead", ![s] = after[s]]
      BY <1>3, <3>3 DEF KernelWake, WakeOne
    <3>5. s = b
      BY <2>2, <3>1, <3>3, SleepsAlone DEF WaitersOn, HasDescriptor, WaitPlaces
    <3> QED BY <2>2, <3>1, <3>4, <3>5 DEF TypeOK
  <2>3. ASSUME NEW u \in Tids, u # t, Alive(u) \/ pc[u] = "kernel_wake"
        PROVE  Alive(u)' \/ pc'[u] = "kernel_wake"
    <3>1. \/ pc' = [pc EXCEPT ![t] = "dead"]
          \/ \E s \in WaitersOn(self[t]) : pc' = [pc EXCEPT ![t] = "dead", ![s] = after[s]]
      BY <1>3 DEF KernelWake, WakeOne
    <3> QED BY <2>3, <3>1 DEF Alive, TypeOK, WaitersOn, Actors
  <2> QED BY <1>0, <2>1, <2>2, <2>3 DEF SleepInv, SleepsFor, WaitersStay
<1>4. CASE UNCHANGED vars
  BY <1>4 DEF vars, ghosts, lists, fields, locals, SleepInv, SleepsFor, Alive
<1>5. ASSUME NEW a \in Actors, CallStep(a) PROVE \A b \in Actors : SleepsFor(b)'
  BY <1>1, <1>2, <1>5, CallWaiters, <1>0, SleepersKept
<1>6. ASSUME NEW a \in Actors, Optional(a) PROVE \A b \in Actors : SleepsFor(b)'
  BY <1>6, OptionalStays, <1>0, SleepersKept
<1>7. ASSUME NEW t \in Tids, ThreadStep(t) PROVE \A b \in Actors : SleepsFor(b)'
  BY <1>3, <1>7, ThreadStays, <1>0, SleepersKept
<1> QED BY <1>4, <1>5, <1>6, <1>7 DEF Next

\* The steps that move creators, and the one that puts a thread to sleep.
LEMMA StartersStep ==
  ASSUME TypeOK, TypeOK', AllInv, SleepInv, [Next]_vars
  PROVE  \A t \in Tids : StarterComing(t)'
<1> USE DEF AllInv, ghosts, Sound
<1>0. spoiled \subseteq spoiled'
  BY SpoiledStays
<1>1. ASSUME NEW a \in Actors, CreateClone(a) PROVE \A t \in Tids : StarterComing(t)'
  <2>1. CASE Goto(a, "c_clone", "c_release") /\ UNCHANGED <<lists, fields, self, locals, ghosts>>
    <3>1. CreatorsStay /\ StartsStay
      BY <2>1 DEF CreatorsStay, StartsStay, MustWait, Goto, TypeOK, Actors, lists, fields, locals
    <3> QED BY <1>0, <3>1, StartersKept
  <2>2. ASSUME NEW u \in Tids, pc[a] = "c_clone", pc[u] = "none",
               pc' = [pc EXCEPT ![a] = "c_tid", ![u] = "new"],
               self' = [self EXCEPT ![u] = obj[a]],
               saved' = [saved EXCEPT ![a] = u],
               UNCHANGED <<start_status, explicit>>
        PROVE  \A t \in Tids : StarterComing(t)'
    <3>1. ASSUME NEW t \in Tids, t # u PROVE StarterComing(t)'
      <4>1. /\ pc'[t] = "start_asleep" => pc[t] = "start_asleep"
            /\ MustWait(t)' => MustWait(t)
        BY <2>2, <3>1 DEF MustWait, TypeOK, Actors
      <4>2. ASSUME NEW b \in Actors, pc[b] \in {"c_tid", "c_sched", "c_wake"}
            PROVE  pc'[b] = pc[b] /\ saved'[b] = saved[b] /\ explicit'[b] = explicit[b]
        BY <2>2, <4>2 DEF TypeOK, Actors
      <4>3. Sound(self[t])' => Sound(self[t])
        BY <1>0, <2>2, <3>1 DEF TypeOK
      <4>4. ASSUME NEW places, places \subseteq {"c_tid", "c_sched", "c_wake"}
            PROVE  Starter(t, places) => Starter(t, places)'
        BY <4>2, <4>4 DEF Starter
      <4>5. {"c_tid", "c_sched"} \subseteq {"c_tid", "c_sched", "c_wake"}
        OBVIOUS
      <4> QED BY <4>1, <4>3, <4>4, <4>5 DEF SleepInv, StarterComing
    <3>2. StarterComing(u)'
      <4>1. pc'[u] = "new" /\ self'[u] = obj[a] /\ pc'[a] = "c_tid" /\ saved'[a] = u
        BY <2>2 DEF TypeOK, Actors
      <4>2. start_status[obj[a]] = "wait" /\ Sound(obj[a]) => explicit[a]
        BY <2>2 DEF StatusInv, CloneStatus
      <4> QED BY <1>0, <2>2, <4>1, <4>2 DEF StarterComing, Starter, MustWait
    <3> QED BY <3>1, <3>2
  <2> QED BY <1>1, <2>1, <2>2 DEF CreateClone, fields
<1>2. ASSUME NEW a \in Actors, CreateStoreTid(a) PROVE \A t \in Tids : StarterComing(t)'
  <2>1. /\ pc[a] = "c_tid" /\ self' = self /\ start_status' = start_status
        /\ \/ explicit[a] /\ pc' = [pc EXCEPT ![a] = "c_sched"] /\ saved' = saved /\ explicit' = explicit
           \/ ~explicit[a] /\ pc' = [pc EXCEPT ![a] = "run"] /\ Return(a)
    BY <1>2 DEF CreateStoreTid, Goto, locals
  <2>2. ASSUME NEW t \in Tids
        PROVE  /\ pc'[t] = "start_asleep" => pc[t] = "start_asleep"
               /\ MustWait(t)' => MustWait(t)
    BY <2>1 DEF MustWait, TypeOK, Actors
  <2>3. ASSUME NEW b \in Actors, explicit[b]
        PROVE  /\ pc[b] \in {"c_tid", "c_sched"} => pc'[b] \in {"c_tid", "c_sched"}
               /\ pc[b] = "c_wake" => pc'[b] = "c_wake"
               /\ explicit'[b] /\ saved'[b] = saved[b]
    BY <2>1, <2>3 DEF Return, TypeOK
  <2> QED BY <1>0, <2>1, <2>2, <2>3 DEF SleepInv, StarterComing, Starter
<1>3. ASSUME NEW a \in Actors, CreateSched(a) PROVE \A t \in Tids : StarterComing(t)'
  <2>1. /\ pc[a] = "c_sched" /\ pc' = [pc EXCEPT ![a] = "c_wake"]
        /\ self' = self /\ saved' = saved /\ explicit' = explicit
        /\ \E st \in {"ok", "exit"} : start_status' = [start_status EXCEPT ![obj[a]] = st]
    BY <1>3 DEF CreateSched, Goto
  <2>2. saved[a] \in Tids /\ self[saved[a]] = obj[a] /\ obj[a] \in Descs
    BY <2>1 DEF CreateInv, ParentOf, Parent, Cloned
  <2>3. ASSUME NEW t \in Tids
        PROVE  /\ pc'[t] = "start_asleep" => pc[t] = "start_asleep"
               /\ MustWait(t)' => MustWait(t) /\ saved[a] # t
    <3>1. pc'[t] # pc[t] => pc'[t] = "c_wake"
      BY <2>1 DEF TypeOK, Actors
    <3>2. start_status'[self[t]] = "wait" => self[t] # obj[a] /\ start_status[self[t]] = "wait"
      BY <2>1, <2>2 DEF TypeOK
    <3> QED BY <2>1, <2>2, <3>1, <3>2 DEF MustWait
  <2>4. ASSUME NEW b \in Actors
        PROVE  b # a => pc'[b] = pc[b]
    BY <2>1 DEF TypeOK
  <2>5. pc'[a] = "c_wake"
    BY <2>1 DEF TypeOK
  <2> QED BY <1>0, <2>1, <2>3, <2>4, <2>5 DEF SleepInv, StarterComing, Starter
<1>4. ASSUME NEW a \in Actors, CreateWake(a) PROVE \A t \in Tids : StarterComing(t)'
  <2> DEFINE next == IF after[a] = "c_release" THEN "w_read" ELSE "run"
  <2>1. pc[a] = "c_wake" /\ self' = self /\ start_status' = start_status
    BY <1>4 DEF CreateWake, fields
  <2>2. \/ Starters(obj[a]) = {} /\ pc' = [pc EXCEPT ![a] = next]
        \/ \E s \in Starters(obj[a]) : pc' = [pc EXCEPT ![a] = next, ![s] = "start_check"]
    BY <1>4 DEF CreateWake, WakeOne, Starters
  <2>3. ASSUME NEW b \in Actors, b # a PROVE saved'[b] = saved[b] /\ explicit'[b] = explicit[b]
    BY <1>4, <2>3 DEF CreateWake, Return, locals, TypeOK
  <2>4. ASSUME NEW b \in Actors, b # a, pc[b] \in {"c_tid", "c_sched", "c_wake"}
        PROVE  pc'[b] = pc[b]
    BY <2>2, <2>4 DEF Starters, TypeOK
  <2>5. ASSUME NEW t \in Tids
        PROVE  /\ pc'[t] = "start_asleep" => pc[t] = "start_asleep"
               /\ MustWait(t)' => MustWait(t)
    BY <2>1, <2>2 DEF MustWait, Starters, TypeOK, Actors
  <2>6. ASSUME NEW t \in Tids, pc'[t] = "start_asleep", Sound(self[t]) PROVE saved[a] # t
    <3>1. SUFFICES ASSUME saved[a] = t PROVE FALSE
      OBVIOUS
    <3>2. self[t] = obj[a] /\ pc[t] = "start_asleep" /\ t \in Starters(obj[a])
      BY <2>1, <2>5, <2>6, <3>1 DEF SleepInv, WakesOwn, Starters
    <3>3. PICK s \in Starters(obj[a]) : pc' = [pc EXCEPT ![a] = next, ![s] = "start_check"]
      BY <2>2, <3>2
    <3>4. s = t
      BY <2>6, <3>2 DEF Starters, ThreadsInv, AloneOn, Alive
    <3> QED BY <2>6, <3>3, <3>4 DEF TypeOK, Actors
  <2> QED BY <1>0, <2>1, <2>3, <2>4, <2>5, <2>6 DEF SleepInv, StarterComing, Starter
<1>5. ASSUME NEW t \in Tids, StartWait(t) PROVE \A u \in Tids : StarterComing(u)'
  <2>1. CreatorsStay
    BY <1>5, ThreadStays DEF ThreadStep
  <2>2. /\ pc[t] = "start_wait" /\ self' = self /\ start_status' = start_status
        /\ \A u \in Tids \ {t} : pc'[u] = pc[u]
        /\ pc'[t] = "start_asleep" => start_status[self[t]] = "wait"
        /\ pc'[t] \in {"start_asleep", "start_check"}
    BY <1>5 DEF StartWait, Goto, TypeOK, fields, Actors
  <2>3. pc'[t] = "start_asleep" => MustWait(t)
    BY <2>2 DEF MustWait
  <2> QED BY <1>0, <2>1, <2>2, <2>3 DEF SleepInv, StarterComing, Starter, CreatorsStay, MustWait
<1>6. CASE UNCHANGED vars
  BY <1>6 DEF vars, ghosts, lists, fields, locals, SleepInv, StarterComing, Starter, MustWait
<1>7. ASSUME NEW a \in Actors, CallStep(a) PROVE \A t \in Tids : StarterComing(t)'
  BY <1>1, <1>2, <1>3, <1>4, <1>7, CallCreators, <1>0, StartersKept
<1>8. ASSUME NEW a \in Actors, Optional(a) PROVE \A t \in Tids : StarterComing(t)'
  BY <1>8, OptionalStays, <1>0, StartersKept
<1>9. ASSUME NEW t \in Tids, ThreadStep(t) PROVE \A u \in Tids : StarterComing(u)'
  BY <1>5, <1>9, ThreadStays, <1>0, StartersKept
<1> QED BY <1>6, <1>7, <1>8, <1>9 DEF Next

\* The creators at their wake-up: each comes there from its clone.
LEMMA WakersStep ==
  ASSUME TypeInv, TypeOK', AllInv, SleepInv, [Next]_vars
  PROVE  \A a \in Actors : WakesOwn(a)'
<1> DEFINE Same == \A b \in Actors : pc'[b] = "c_wake" =>
                     pc[b] = "c_wake" /\ saved'[b] = saved[b] /\ obj'[b] = obj[b]
           Runs == \A u \in Tids : pc[u] # "none" => self'[u] = self[u]
<1>0. /\ TypeOK /\ \A a \in Actors : HasDescriptor(a)
      /\ \A a \in Actors : WakesOwn(a)
      /\ \A u \in Tids : pc[u] = "none" => self[u] = NoDesc
  BY DEF TypeInv, SleepInv, AllInv, ThreadsInv, OnDescriptor
<1>1. ASSUME Same, Runs PROVE \A a \in Actors : WakesOwn(a)'
  BY <1>0, <1>1, ConstantsAssumption DEF WakesOwn, HasDescriptor
<1> USE <1>0 DEF TypeOK, Goto, Actors, lists, fields, locals
<1>2. ASSUME NEW a \in Actors, CreateSched(a) PROVE \A b \in Actors : WakesOwn(b)'
  <2>1. saved[a] \in Tids /\ self[saved[a]] = obj[a]
    BY <1>2 DEF CreateSched, AllInv, CreateInv, ParentOf, Parent, Cloned
  <2> QED BY <1>2, <2>1 DEF CreateSched, WakesOwn
<1>3. ASSUME NEW a \in Actors, CallStep(a), ~CreateSched(a) PROVE Same /\ Runs
  <2>1. CASE WaitRead(a)
    BY <2>1 DEF WaitRead
  <2>2. CASE WaitFutex(a)
    BY <2>2 DEF WaitFutex
  <2>3. CASE Release(a)
    <3>1. /\ pc[a] # "c_wake" /\ self' = self
          /\ \E x \in {"kernel_exit", "run", "crashed"} : pc' = [pc EXCEPT ![a] = x]
          /\ Return(a) \/ UNCHANGED <<obj, saved>>
      BY <2>3 DEF Release, Releasing
    <3> QED BY <3>1 DEF Return
  <2>4. CASE CreateAdd(a)
    BY <2>4 DEF CreateAdd
  <2>5. CASE CreateInit(a)
    <3>1. /\ pc' = [pc EXCEPT ![a] = "c_clone"] /\ UNCHANGED <<self, obj, saved>>
      BY <2>5 DEF CreateInit
    <3> QED BY <3>1
  <2>6. CASE CreateClone(a)
    BY <2>6 DEF CreateClone
  <2>7. CASE CreateStoreTid(a)
    BY <2>7 DEF CreateStoreTid, Return
  <2>8. CASE CreateWake(a)
    <3> DEFINE next == IF after[a] = "c_release" THEN "w_read" ELSE "run"
    <3>1. pc[a] = "c_wake" /\ self' = self
      BY <2>8 DEF CreateWake
    <3>2. \/ pc' = [pc EXCEPT ![a] = next]
          \/ \E s \in Starters(obj[a]) : pc' = [pc EXCEPT ![a] = next, ![s] = "start_check"]
      BY <2>8 DEF CreateWake, WakeOne, Starters
    <3>3. UNCHANGED <<obj, saved>> \/ Return(a)
      BY <2>8 DEF CreateWake
    <3> QED BY <3>1, <3>2, <3>3 DEF Starters, Return
  <2> QED BY <1>3, <2>1, <2>2, <2>3, <2>4, <2>5, <2>6, <2>7, <2>8 DEF CallStep
<1>4. ASSUME NEW a \in Actors, Optional(a) PROVE Same /\ Runs
  <2>1. CASE CreateCall(a)
    <3>1. /\ pc[a] = "run" /\ \E x \in {"w_read", "c_add", "c_release"} : pc' = [pc EXCEPT ![a] = x]
          /\ self' = self /\ saved' = saved
          /\ \A b \in Actors : b # a => obj'[b] = obj[b]
      BY <2>1 DEF CreateCall, CreateUnguarded, CreateReuse, CreateNew, Reuse, Malloc
    <3> QED BY <3>1
  <2>2. CASE WaitInterrupted(a)
    BY <2>2 DEF WaitInterrupted, OnSignal
  <2>3. ASSUME NEW t \in Tids, JoinCall(a, t) PROVE Same /\ Runs
    BY <2>3 DEF JoinCall
  <2>4. ASSUME NEW t \in Tids, DetachCall(a, t) PROVE Same /\ Runs
    BY <2>4 DEF DetachCall
  <2> QED BY <1>4, <2>1, <2>2, <2>3, <2>4 DEF Optional
<1>5. ASSUME NEW t \in Tids, ThreadStep(t) PROVE Same /\ Runs
  <2>1. CASE KernelWake(t)
    <3>1. /\ pc[t] = "kernel_wake" /\ UNCHANGED <<self, obj, saved>>
          /\ \/ pc' = [pc EXCEPT ![t] = "dead"]
             \/ \E s \in WaitersOn(self[t]) : pc' = [pc EXCEPT ![t] = "dead", ![s] = after[s]]
      BY <2>1 DEF KernelWake, WakeOne
    <3>2. ASSUME NEW s \in WaitersOn(self[t])
          PROVE  s \in Actors /\ after[s] \in {"c_add", "c_release", "j_release"}
      BY DEF WaitersOn
    <3> QED BY <3>1, <3>2
  <2>2. CASE ~KernelWake(t)
    <3>1. /\ \E x \in ThreadPlaces : pc' = [pc EXCEPT ![t] = x]
          /\ UNCHANGED <<self, obj, saved>>
      BY <1>5, <2>2 DEF ThreadStep, ChildSetTid, StartCheck, StartWait, StartDecide, ExitCall,
         ExitFix, KernelExit, ThreadPlaces
    <3> QED BY <3>1 DEF ThreadPlaces
  <2> QED BY <2>1, <2>2
<1>6. UNCHANGED vars => Same /\ Runs
  BY DEF vars
<1> QED BY <1>1, <1>2, <1>3, <1>4, <1>5, <1>6 DEF Next

\* Nobody sleeps in the initial state.
LEMMA SleepInit == ASSUME Init PROVE SleepInv
<1>1. \A a \in Actors : SleepsFor(a) /\ WakesOwn(a)
  BY DEF Init, SleepsFor, WakesOwn
<1>2. \A t \in Tids : StarterComing(t)
  BY ConstantsAssumption DEF Init, StarterComing, MustWait, Actors
<1> QED BY <1>1, <1>2 DEF SleepInv

\* Nobody sleeps for good in wait_for_thread or in start_thread on a descriptor on which
\* nothing came too early: the thread a waiter waits for is there, its wake-up reaches that
\* waiter, and a thread that waits for its start has a creator that has not made the wake-up.
THEOREM NobodyForgotten == Spec => []SleepersWoken
<1>1. Init => SleepInv
  BY SleepInit
<1>2. TypeInv /\ AllInv /\ SleepInv /\ TypeOK' /\ [Next]_vars => SleepInv'
  <2> SUFFICES ASSUME TypeInv, TypeOK', AllInv, SleepInv, [Next]_vars PROVE SleepInv'
    OBVIOUS
  <2>1. TypeOK BY DEF TypeInv
  <2> QED BY <2>1, SleepersStep, StartersStep, WakersStep DEF SleepInv
<1>3. TypeInv /\ AllInv /\ SleepInv => SleepersWoken
  <2> SUFFICES ASSUME TypeInv, AllInv, SleepInv PROVE SleepersWoken
    OBVIOUS
  <2>1. ASSUME NEW a \in Actors, pc[a] = "w_asleep", obj[a] \notin spoiled
        PROVE  /\ \E t \in Tids : self[t] = obj[a] /\ (Alive(t) \/ pc[t] = "kernel_wake")
               /\ WaitersOn(obj[a]) = {a}
    <3>1. \A b \in WaitersOn(obj[a]) : b = a
      <4>1. TypeOK /\ obj[a] \in Descs
        BY <2>1 DEF TypeInv, HasDescriptor, WaitPlaces
      <4> QED BY <2>1, <4>1, SleepsAlone DEF WaitersOn, Sound
    <3> QED BY <2>1, <3>1 DEF WaitersOn, SleepInv, SleepsFor, Sound
  <2>2. ASSUME NEW t \in Tids, pc[t] = "start_asleep", self[t] \notin spoiled
        PROVE  \E a \in Actors : saved[a] = t /\ pc[a] \in {"c_tid", "c_sched", "c_wake"}
    BY <2>2 DEF SleepInv, StarterComing, Starter, Sound
  <2> QED BY <2>1, <2>2 DEF SleepersWoken
<1>4. TypeInv => TypeOK
  BY DEF TypeInv
<1> QED BY <1>1, <1>2, <1>3, <1>4, DescriptorsInvariant, TypeInvariant, PTL DEF Spec
=============================================================================
