------------------------------ MODULE Threads -------------------------------
(***************************************************************************)
(* Life and death of threads: tbthread_create, start_thread,               *)
(* tbthread_exit, tbthread_join, tbthread_detach and the recycling of      *)
(* thread descriptors through the lists used_desc and free_desc            *)
(* (tb-threads.c).                                                         *)
(*                                                                         *)
(* A critical section of desc_mutex is one action: the mutex is the futex  *)
(* lock of module FutexLock.  Everything the code does outside it is an    *)
(* action per shared access.  The kernel is modelled by what the code      *)
(* asks of it: CLONE_CHILD_SETTID, CLONE_CHILD_CLEARTID (clear the word,   *)
(* then wake one waiter) and FUTEX_WAIT / FUTEX_WAKE.                      *)
(*                                                                         *)
(* Five orders of steps are beyond the library, and nothing in it prevents *)
(* them.  The model takes them all; the history variable "spoiled" keeps   *)
(* the descriptors they happened on, and the properties speak of the       *)
(* others: the damage stays on the descriptor.  They are                   *)
(*   - a join that finds a detached thread between the critical section of *)
(*     its exit and the release of its descriptor (JoinCall),              *)
(*   - a thread that is gone before its creator stores its tid             *)
(*     (KernelExit),                                                       *)
(*   - a signal that ends the only FUTEX_WAIT of a thread that waits to be *)
(*     started (StartWait),                                                *)
(*   - the wake-up of a creator, or of the kernel, that comes so late that *)
(*     it ends the wait of the next user of the descriptor (CreateWake,    *)
(*     KernelWake).                                                        *)
(* A stack whose guard page cannot be protected makes tbthread_create      *)
(* release the null descriptor (CreateUnguarded).                          *)
(***************************************************************************)
EXTENDS Naturals, Sequences, FiniteSets

CONSTANTS
  Descs,     \* the descriptors malloc can return (bounds how many exist)
  Tids,      \* kernel thread ids, one per clone (bounds the clones)
  Main,      \* the initial thread; also stands for its descriptor
  Creators,  \* the actors whose program calls tbthread_create
  NoDesc,    \* a null tbthread_t
  NoTid      \* the tid word 0

Actors == Tids \cup {Main}

ASSUME ConstantsAssumption ==
  /\ Main \notin Tids \cup Descs
  /\ Creators \subseteq Actors
  /\ NoDesc \notin Descs \cup {Main}
  /\ NoTid \notin Tids

\* join_status and start_status (tb-private.h); TB_JOINABLE_FIXED is "fixed".
JoinStatus == {"detached", "joinable", "fixed"}
StartStatus == {"ok", "wait", "exit"}

VARIABLES
  allocated,     (* the descriptors malloc has returned so far               *)
  used,          (* used_desc, as a set                                      *)
  free,          (* free_desc, oldest first                                  *)
  join_status, joiner, tid, retval, start_status,  (* fields of descriptors *)
  self,          (* the descriptor each kernel thread runs on (%fs)          *)
  pc,            (* the place of each actor                                  *)
  obj,           (* the descriptor of the call in progress: *thread, thread  *)
  saved,         (* the local tid of create and of wait_for_thread           *)
  after,         (* where wait_for_thread returns to                         *)
  explicit,      (* the call in progress has !attr->sched_inherit            *)
  target,        (* history: the thread a join call is about                 *)
  handles,       (* history: the threads whose handle is still theirs        *)
  spoiled        (* history: the descriptors on which a step came too early  *)

fields == <<join_status, joiner, tid, retval, start_status>>
locals == <<obj, saved, after, explicit, target>>
lists == <<allocated, used, free>>
ghosts == <<handles, spoiled>>
vars == <<lists, fields, self, pc, locals, ghosts>>

-----------------------------------------------------------------------------
(* Places.  "run" is user code: the thread may call the library or end.    *)
ThreadPlaces ==
  {"none", "new", "start", "start_wait", "start_asleep", "start_check", "run",
   "exit_cs",
   "exit_release", "kernel_exit", "kernel_wake", "dead"}
WaitPlaces == {"w_read", "w_futex", "w_asleep"}
CreatePlaces ==
  {"c_add", "c_init", "c_clone", "c_tid", "c_sched", "c_wake", "c_release"}
Places == ThreadPlaces \cup WaitPlaces \cup CreatePlaces
            \cup {"j_release", "crashed"}

InCreate(a) == \/ pc[a] \in CreatePlaces
               \/ pc[a] \in WaitPlaces /\ after[a] # "j_release"

\* The thread's code may still run, or its stack be in use, in the kernel's eyes.
Alive(t) == pc[t] \notin {"none", "kernel_wake", "dead"}

Goto(a, from, to) == pc[a] = from /\ pc' = [pc EXCEPT ![a] = to]

Self(a) == IF a = Main THEN Main ELSE self[a]

\* What is recorded of a step on descriptor d.
SpoiledIf(d, early) == spoiled' = IF early THEN spoiled \cup {d} ELSE spoiled

Init ==
  /\ allocated = {} /\ used = {} /\ free = <<>>
  /\ join_status = [d \in Descs |-> "detached"]
  /\ joiner = [d \in Descs \cup {Main} |-> NoDesc]
  /\ tid = [d \in Descs |-> NoTid]
  /\ retval = [d \in Descs |-> NoTid]
  /\ start_status = [d \in Descs |-> "ok"]
  /\ self = [t \in Tids |-> NoDesc]
  /\ pc = [a \in Actors |-> IF a = Main THEN "run" ELSE "none"]
  /\ obj = [a \in Actors |-> NoDesc]
  /\ saved = [a \in Actors |-> NoTid]
  /\ after = [a \in Actors |-> "c_add"]
  /\ explicit = [a \in Actors |-> FALSE]
  /\ target = [a \in Actors |-> NoTid]
  /\ handles = {}
  /\ spoiled = {}

-----------------------------------------------------------------------------
(* wait_for_thread(obj[a]), then on to place "next".                       *)

BeginWait(a, next) == after' = [after EXCEPT ![a] = next]

WaitRead(a) ==
  /\ pc[a] = "w_read"
  /\ IF tid[obj[a]] = NoTid
     THEN Goto(a, "w_read", after[a]) /\ UNCHANGED saved
     ELSE Goto(a, "w_read", "w_futex") /\ saved' = [saved EXCEPT ![a] = tid[obj[a]]]
  /\ UNCHANGED <<lists, fields, self, obj, after, explicit, target, ghosts>>

\* FUTEX_WAIT: sleep, or -EWOULDBLOCK when the word has changed.
WaitFutex(a) ==
  /\ pc[a] = "w_futex"
  /\ \/ tid[obj[a]] = saved[a] /\ Goto(a, "w_futex", "w_asleep")
     \/ tid[obj[a]] # saved[a] /\ Goto(a, "w_futex", after[a])
  /\ UNCHANGED <<lists, fields, self, locals, ghosts>>

\* Mutant of OnSignal: any return of FUTEX_WAIT ends the loop.
OnSignalEnd(a) == after[a]

\* Where -EINTR leads: the loop goes round.
OnSignal(a) == "w_futex"

WaitInterrupted(a) ==
  /\ Goto(a, "w_asleep", OnSignal(a))
  /\ UNCHANGED <<lists, fields, self, locals, ghosts>>

\* pc after actor a moves on to place "next" and FUTEX_WAKE(1) has woken one of
\* the sleepers, who continues where the function resume says.
WakeOne(a, next, sleepers, resume) ==
  IF sleepers = {}
  THEN pc' = [pc EXCEPT ![a] = next]
  ELSE \E s \in sleepers : pc' = [pc EXCEPT ![a] = next, ![s] = resume[s]]

-----------------------------------------------------------------------------
(* release_descriptor                                                      *)

\* The end of a library call: its locals are gone.
Return(a) ==
  /\ obj' = [obj EXCEPT ![a] = NoDesc]
  /\ saved' = [saved EXCEPT ![a] = NoTid]
  /\ after' = [after EXCEPT ![a] = "c_add"]
  /\ explicit' = [explicit EXCEPT ![a] = FALSE]
  /\ target' = [target EXCEPT ![a] = NoTid]

Releasing == {"c_release", "j_release", "exit_release"}

\* The argument of release_descriptor.
Released(a) == IF pc[a] = "exit_release" THEN self[a] ELSE obj[a]

\* Mutant of Unlist, and of List: used_desc is left alone.
Keep(d) == UNCHANGED used

List(d) == used' = used \cup {d}

Unlist(d) == used' = used \ {d}

\* tbthread_join reads the return value in the same step.  Releasing an unknown
\* descriptor prints a message and removes the list node 0: the process crashes.
Release(a) ==
  /\ pc[a] \in Releasing
  /\ IF Released(a) \in used
     THEN /\ Unlist(Released(a))
          /\ free' = Append(free, Released(a))
          /\ pc' = [pc EXCEPT ![a] =
                      IF pc[a] = "exit_release" THEN "kernel_exit" ELSE "run"]
          /\ Return(a)
     ELSE /\ pc' = [pc EXCEPT ![a] = "crashed"]
          /\ UNCHANGED <<used, free, locals>>
  /\ UNCHANGED <<allocated, fields, self, ghosts>>

-----------------------------------------------------------------------------
(* tbthread_create                                                         *)

\* Mutant of Reuse: the wait for the previous thread is left out.
ReuseAtOnce == "c_add"

\* What follows when a node is found: wait for the thread that used it last.
Reuse == "w_read"

\* get_descriptor, first critical section: reuse the oldest free descriptor.
\* From here on a handle to the thread it belonged to is stale.
CreateReuse(a) ==
  /\ free # <<>>
  /\ free' = Tail(free)
  /\ obj' = [obj EXCEPT ![a] = Head(free)]
  /\ Goto(a, "run", Reuse)
  /\ BeginWait(a, "c_add")
  /\ handles' = {t \in handles : self[t] # Head(free)}
  /\ UNCHANGED <<allocated, used, fields, self, saved, explicit, target, spoiled>>

Malloc(a) ==
  \E d \in Descs \ allocated : /\ allocated' = allocated \cup {d}
                              /\ obj' = [obj EXCEPT ![a] = d]

\* get_descriptor with an empty free list: a new descriptor.
CreateNew(a) ==
  /\ free = <<>>
  /\ Goto(a, "run", "c_add")
  /\ Malloc(a)
  /\ UNCHANGED <<used, free, fields, self, saved, after, explicit, target, ghosts>>

\* The guard page cannot be protected: the code goes to "error" while *thread is
\* still null.
CreateUnguarded(a) ==
  /\ Goto(a, "run", "c_release")
  /\ UNCHANGED <<lists, fields, self, locals, ghosts>>

\* The descriptor comes after the stack and its guard page.
CreateCall(a) ==
  /\ a \in Creators
  /\ CreateUnguarded(a) \/ CreateReuse(a) \/ CreateNew(a)

\* get_descriptor, second critical section.
CreateAdd(a) ==
  /\ Goto(a, "c_add", "c_init")
  /\ List(obj[a])
  /\ UNCHANGED <<allocated, free, fields, self, locals, ghosts>>

\* memset and the initial values; attr is read here.
CreateInit(a) ==
  /\ Goto(a, "c_init", "c_clone")
  /\ \E joinable \in {"detached", "joinable"}, e \in BOOLEAN :
       /\ join_status' = [join_status EXCEPT ![obj[a]] = joinable]
       /\ start_status' = [start_status EXCEPT ![obj[a]] = IF e THEN "wait" ELSE "ok"]
       /\ explicit' = [explicit EXCEPT ![a] = e]
  /\ joiner' = [joiner EXCEPT ![obj[a]] = NoDesc]
  /\ tid' = [tid EXCEPT ![obj[a]] = NoTid]
  /\ retval' = [retval EXCEPT ![obj[a]] = NoTid]
  /\ UNCHANGED <<lists, self, obj, saved, after, target, ghosts>>

CreateClone(a) ==
  \/ /\ pc[a] = "c_clone"
     /\ \E t \in Tids :
          /\ pc[t] = "none"
          /\ pc' = [pc EXCEPT ![a] = "c_tid", ![t] = "new"]
          /\ self' = [self EXCEPT ![t] = obj[a]]
          /\ saved' = [saved EXCEPT ![a] = t]
          /\ handles' = handles \cup {t}
     /\ UNCHANGED <<lists, fields, obj, after, explicit, target, spoiled>>
  \/ /\ Goto(a, "c_clone", "c_release")     \* clone fails
     /\ UNCHANGED <<lists, fields, self, locals, ghosts>>

\* (*thread)->tid = tid, although the kernel stores it in the child too.
CreateStoreTid(a) ==
  /\ pc[a] = "c_tid"
  /\ tid' = [tid EXCEPT ![obj[a]] = saved[a]]
  /\ IF explicit[a]
     THEN Goto(a, "c_tid", "c_sched") /\ UNCHANGED locals
     ELSE Goto(a, "c_tid", "run") /\ Return(a)
  /\ UNCHANGED <<lists, join_status, joiner, retval, start_status, self, ghosts>>

\* tb_set_sched succeeds or fails, and start_status tells the thread.
CreateSched(a) ==
  /\ Goto(a, "c_sched", "c_wake")
  /\ \E st \in {"ok", "exit"} :
       /\ start_status' = [start_status EXCEPT ![obj[a]] = st]
       /\ after' = [after EXCEPT ![a] = IF st = "ok" THEN "c_add" ELSE "c_release"]
  /\ UNCHANGED <<lists, join_status, joiner, tid, retval, self, obj, saved,
                 explicit, target, ghosts>>

\* The threads asleep on the start_status of descriptor d.
Starters(d) == {t \in Tids : pc[t] = "start_asleep" /\ self[t] = d}

\* Wake the thread; when the scheduler was not set, wait for it to exit.  If the
\* thread did without the wake-up and its descriptor is in use again, this wakes the
\* next thread, whose creator may not be ready.
CreateWake(a) ==
  LET failed == after[a] = "c_release" IN
     /\ pc[a] = "c_wake"
     /\ WakeOne(a, IF failed THEN "w_read" ELSE "run",
                Starters(obj[a]), [t \in Tids |-> "start_check"])
     /\ SpoiledIf(obj[a], Starters(obj[a]) # {} /\ start_status[obj[a]] = "wait")
     /\ IF failed THEN UNCHANGED locals ELSE Return(a)
     /\ UNCHANGED <<lists, fields, self, handles>>

-----------------------------------------------------------------------------
(* The new thread: kernel, start_thread, user function, tbthread_exit      *)

ChildSetTid(t) ==
  /\ Goto(t, "new", "start")
  /\ tid' = [tid EXCEPT ![self[t]] = t]
  /\ UNCHANGED <<lists, join_status, joiner, retval, start_status, self, locals, ghosts>>

\* Mutant of MayStart: the thread does not wait for its creator.
MayStartAlways(t) == TRUE

MayStart(t) == start_status[self[t]] = "ok"

StartCheck(t) ==
  /\ Goto(t, "start", IF MayStart(t) THEN "run" ELSE "start_wait")
  /\ UNCHANGED <<lists, fields, self, locals, ghosts>>

\* One FUTEX_WAIT on start_status, whose result is not looked at: it may sleep,
\* find the word changed, or be ended by a signal.
StartWait(t) ==
  /\ pc[t] = "start_wait"
  /\ \/ /\ start_status[self[t]] = "wait"
        /\ Goto(t, "start_wait", "start_asleep")
        /\ UNCHANGED spoiled
     \/ /\ Goto(t, "start_wait", "start_check")
        /\ SpoiledIf(self[t], start_status[self[t]] = "wait")
  /\ UNCHANGED <<lists, fields, self, locals, handles>>

StartDecide(t) ==
  /\ Goto(t, "start_check", IF start_status[self[t]] = "exit" THEN "kernel_exit" ELSE "run")
  /\ UNCHANGED <<lists, fields, self, locals, ghosts>>

\* The user function returns, or calls tbthread_exit: the return value is
\* stored, cleanup handlers and destructors run.
ExitCall(t) ==
  /\ Goto(t, "run", "exit_cs")
  /\ retval' = [retval EXCEPT ![self[t]] = t]
  /\ UNCHANGED <<lists, join_status, joiner, tid, start_status, self, locals, ghosts>>

\* Mutant of FreesItself: the thread frees its descriptor whatever its status.
FreesItselfAlways(t) == TRUE

FreesItself(t) == join_status[self[t]] = "detached"

\* The critical section of tbthread_exit: a detached thread frees itself.
ExitFix(t) ==
  /\ Goto(t, "exit_cs", IF FreesItself(t) THEN "exit_release" ELSE "kernel_exit")
  /\ join_status' = [join_status EXCEPT ![self[t]] = "fixed"]
  /\ UNCHANGED <<lists, joiner, tid, retval, start_status, self, locals, ghosts>>

WaitersOn(d) == {a \in Actors : pc[a] = "w_asleep" /\ obj[a] = d}

\* munmap and exit: the kernel clears the tid.  The creator may not have stored it
\* yet.
KernelExit(t) ==
  /\ Goto(t, "kernel_exit", "kernel_wake")
  /\ tid' = [tid EXCEPT ![self[t]] = NoTid]
  /\ SpoiledIf(self[t], \E a \in Actors : pc[a] = "c_tid" /\ saved[a] = t)
  /\ UNCHANGED <<lists, join_status, joiner, retval, start_status, self, locals, handles>>

\* The kernel wakes one waiter, who may by then wait for the end of another thread.
KernelWake(t) ==
  /\ pc[t] = "kernel_wake"
  /\ WakeOne(t, "dead", WaitersOn(self[t]), after)
  /\ SpoiledIf(self[t], \E a \in WaitersOn(self[t]) : Alive(saved[a]))
  /\ UNCHANGED <<lists, fields, self, locals, handles>>

-----------------------------------------------------------------------------
(* tbthread_join and tbthread_detach, called with the handle of thread t   *)

\* The program has the handle once create has returned, and gives it up when
\* its descriptor is recycled (it cannot tell the new thread from the old one).
Usable(t) == t \in handles /\ ~ \E a \in Actors : InCreate(a) /\ saved[a] = t

\* Mutant of JoinsMe: the caller's own joiner is not looked at.
JoinsMeNever(a, d) == FALSE

\* The thread on descriptor d waits to join the caller.
JoinsMe(a, d) == joiner[Self(a)] = d

\* Mutant of MayJoin: a thread may be joined by two.
MayJoinTwice(a, d) ==
  d # Self(a) /\ d \in used /\ join_status[d] # "detached" /\ ~JoinsMe(a, d)

\* The checks that refuse a join: each returns an error and changes nothing.
MayJoin(a, d) ==
  /\ d # Self(a)                                        \* -EDEADLK
  /\ d \in used                                         \* -ESRCH
  /\ join_status[d] # "detached"                        \* -EINVAL
  /\ ~JoinsMe(a, d)                                     \* -EDEADLK
  /\ joiner[d] = NoDesc                                 \* -EINVAL

JoinCall(a, t) ==
  /\ pc[a] = "run"
  /\ Usable(t)
  /\ MayJoin(a, self[t])
  /\ join_status' = [join_status EXCEPT ![self[t]] = "fixed"]
  /\ joiner' = [joiner EXCEPT ![self[t]] = Self(a)]
  /\ obj' = [obj EXCEPT ![a] = self[t]]
  /\ target' = [target EXCEPT ![a] = t]
  /\ Goto(a, "run", "w_read")
  /\ BeginWait(a, "j_release")
  /\ SpoiledIf(self[t], pc[t] = "exit_release")
  /\ UNCHANGED <<lists, tid, retval, start_status, self, saved, explicit, handles>>

MayDetach(d) ==
  /\ d \in used                                         \* -ESRCH
  /\ join_status[d] # "fixed"                           \* -EINVAL

DetachCall(a, t) ==
  /\ Usable(t)
  /\ pc[a] = "run"
  /\ MayDetach(self[t])
  /\ join_status' = [join_status EXCEPT ![self[t]] = "detached"]
  /\ UNCHANGED <<lists, joiner, tid, retval, start_status, self, pc, locals, ghosts>>

-----------------------------------------------------------------------------
\* What an actor inside a library call does next.
CallStep(a) ==
  \/ WaitRead(a) \/ WaitFutex(a) \/ Release(a)
  \/ CreateAdd(a) \/ CreateInit(a) \/ CreateClone(a) \/ CreateStoreTid(a)
  \/ CreateSched(a) \/ CreateWake(a)

\* What a thread does next on its way to and from its user function.
ThreadStep(t) ==
  \/ ChildSetTid(t) \/ StartCheck(t) \/ StartWait(t) \/ StartDecide(t)
  \/ ExitCall(t) \/ ExitFix(t) \/ KernelExit(t) \/ KernelWake(t)

\* What nobody is obliged to do.
Optional(a) ==
  \/ CreateCall(a) \/ WaitInterrupted(a)
  \/ \E t \in Tids : JoinCall(a, t) \/ DetachCall(a, t)

Crashed == \E a \in Actors : pc[a] = "crashed"

Next ==
  /\ ~Crashed
  /\ \/ \E a \in Actors : CallStep(a) \/ Optional(a)
     \/ \E t \in Tids : ThreadStep(t)

Spec == Init /\ [][Next]_vars

\* Every actor that can run runs, and every user function returns.
FairSpec ==
  /\ Spec
  /\ \A a \in Actors : WF_vars(~Crashed /\ CallStep(a))
  /\ \A t \in Tids : WF_vars(~Crashed /\ ThreadStep(t))

-----------------------------------------------------------------------------
FreeSet == {free[i] : i \in DOMAIN free}

\* Every variable has its type.
TypeOK ==
  /\ allocated \subseteq Descs
  /\ used \subseteq Descs
  /\ free \in Seq(Descs)
  /\ join_status \in [Descs -> JoinStatus]
  /\ joiner \in [Descs \cup {Main} -> Descs \cup {Main, NoDesc}]
  /\ tid \in [Descs -> Tids \cup {NoTid}]
  /\ retval \in [Descs -> Tids \cup {NoTid}]
  /\ start_status \in [Descs -> StartStatus]
  /\ self \in [Tids -> Descs \cup {NoDesc}]
  /\ pc \in [Actors -> Places]
  /\ obj \in [Actors -> Descs \cup {NoDesc}]
  /\ saved \in [Actors -> Tids \cup {NoTid}]
  /\ after \in [Actors -> {"c_add", "c_release", "j_release"}]
  /\ explicit \in [Actors -> BOOLEAN]
  /\ target \in [Actors -> Tids \cup {NoTid}]
  /\ handles \subseteq Tids
  /\ spoiled \subseteq Descs

\* A creator has taken a descriptor out of the free list, or from malloc, and not
\* yet put it into used_desc.
InHand(a, d) ==
  /\ obj[a] = d
  /\ pc[a] = "c_add" \/ (pc[a] \in WaitPlaces /\ after[a] = "c_add")

\* No descriptor is lost or listed twice, whatever happens to it: each one that exists
\* is in used_desc, or once in free_desc, or in the hand of one creator.
DescriptorsConserved ==
  /\ allocated = used \cup FreeSet \cup {d \in Descs : \E a \in Actors : InHand(a, d)}
  /\ used \cap FreeSet = {}
  /\ Len(free) = Cardinality(FreeSet)
  /\ \A a \in Actors, d \in Descs : InHand(a, d) =>
       /\ d \notin used \cup FreeSet
       /\ \A b \in Actors : InHand(b, d) => b = a

\* release_descriptor finds what it is to release ("Releasing unknown descriptor" is
\* never printed), and only one actor is about to release it.  The exceptions are a
\* spoiled descriptor and the null one of a creator without a guard page.
ReleasesKnown ==
  \A a \in Actors : pc[a] \in Releasing /\ Released(a) \notin spoiled \cup {NoDesc} =>
    /\ Released(a) \in used
    /\ \A b \in Actors : (pc[b] \in Releasing /\ Released(b) = Released(a)) => b = a

\* "make sure that the corresponding thread has actually exited": nobody writes to a
\* descriptor it reuses while a thread still runs on it.  Two threads that have not
\* reached the end of tbthread_exit never share a descriptor either, and theirs is in
\* used_desc, so that join, detach and cancel find it.  All this of a descriptor that
\* is not spoiled: what went wrong on another one does not reach it.
DescriptorsOwned ==
  /\ \A a \in Actors : pc[a] \in {"c_add", "c_init", "c_clone"} /\ obj[a] \notin spoiled =>
       \A t \in Tids : self[t] = obj[a] => ~Alive(t)
  /\ \A t \in Tids :
       pc[t] \notin {"none", "kernel_exit", "kernel_wake", "dead"} /\ self[t] \notin spoiled =>
         /\ self[t] \in used
         /\ \A u \in Tids : (Alive(u) /\ self[u] = self[t]) => u = t

\* tbthread_join of a thread whose descriptor is not spoiled returns only when the
\* thread is gone, with its return value.
JoinGetsRetval ==
  \A a \in Actors : pc[a] = "j_release" /\ obj[a] \notin spoiled =>
    /\ ~Alive(target[a])
    /\ retval[obj[a]] = target[a]

\* User code runs only once the creator has set the scheduler ("we can successfuly set
\* the before the user function executes"), although the wait is a single FUTEX_WAIT:
\* whatever ends it before the creator is ready has spoiled the descriptor.
RunsOnlyWhenStarted ==
  \A t \in Tids : pc[t] \in {"run", "exit_cs"} /\ self[t] \notin spoiled =>
    start_status[self[t]] = "ok"

\* Nobody sleeps on a word of a descriptor that is not spoiled and that nobody will
\* change and wake up.  Whoever waits for a thread to end, in join or in create, has
\* such a thread on the descriptor, which runs or is at its wake-up in the kernel, and
\* sleeps there alone, since the kernel wakes one.  Whoever waits to be started has a
\* creator that has not yet made its wake-up.
SleepersWoken ==
  /\ \A a \in Actors : pc[a] = "w_asleep" /\ obj[a] \notin spoiled =>
       /\ \E t \in Tids : self[t] = obj[a] /\ (Alive(t) \/ pc[t] = "kernel_wake")
       /\ WaitersOn(obj[a]) = {a}
  /\ \A t \in Tids : pc[t] = "start_asleep" /\ self[t] \notin spoiled =>
       \E a \in Actors : saved[a] = t /\ pc[a] \in {"c_tid", "c_sched", "c_wake"}

\* A library call of the main thread returns: a join because the function of its
\* thread returns, a create because the last thread on the descriptor exits.  Every
\* thread that was spawned ends, its wait for the start and its joins included: two
\* threads never wait to join each other.  Nothing is promised once a descriptor is
\* spoiled or the null one was released.
CallsReturn ==
  LET Broken == spoiled # {} \/ Crashed IN
    /\ pc[Main] # "run" ~> pc[Main] = "run" \/ Broken
    /\ \A t \in Tids : pc[t] # "none" ~> pc[t] = "dead" \/ Broken
=============================================================================
