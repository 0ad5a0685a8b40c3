-------------------------------- MODULE Sched --------------------------------
(***************************************************************************)
(* Thread scheduling and the priority mutexes (tb-sched.c with the         *)
(* PRIO_INHERIT and PRIO_PROTECT functions of tb-mutexes.c): what the      *)
(* program asks for (user_sched_info), what its mutexes add to it          *)
(* (protect_mutexes, inherit_mutexes), what the library believes to be in  *)
(* force (sched_info), and what the kernel runs the thread at.             *)
(*                                                                         *)
(* The lists and sched_info of a thread change in critical sections of its *)
(* lock, each of them one action here; internal_futex of a PRIO_INHERIT    *)
(* mutex is kept over the two sections of tb_inherit_mutex_sched.  The     *)
(* mutexes are of type normal; module Mutex has the other types and the    *)
(* wake-ups.  A trylock that fails changes nothing, and one that succeeds  *)
(* is a lock.                                                              *)
(***************************************************************************)
EXTENDS Integers, Sequences, SequencesExt

CONSTANTS
  Threads,
  Main,       \* the initial thread: it is in no list of descriptors
  NoThread,   \* a null tbthread_t
  Protect,    \* the PRIO_PROTECT mutexes
  Inherit,    \* the PRIO_INHERIT mutexes
  NoMutex,
  Requests,   \* the scheduling a program may ask for
  Ceilings    \* the priority ceilings it may give to a mutex

Policies == {"normal", "fifo", "rr"}

\* A packed sched_info.
SchedInfo == [policy : Policies, prio : 0 .. 99]
Normal == [policy |-> "normal", prio |-> 0]
Fifo(prio) == [policy |-> "fifo", prio |-> prio]

\* What sched_setscheduler accepts: a real-time policy has a priority, the
\* normal one has none.
Valid(info) == info.policy = "normal" <=> info.prio = 0

ASSUME ConstantsAssumption ==
  /\ Main \in Threads
  /\ NoThread \notin Threads
  /\ Protect \cap Inherit = {} /\ NoMutex \notin Protect \cup Inherit
  /\ Requests \subseteq SchedInfo
  /\ Ceilings \subseteq 0 .. 99

VARIABLES
  sched_info, user_sched_info,  (* of each thread                            *)
  protect_mutexes,   (* of each thread: the mutexes, in the list's order      *)
  inherit_mutexes,   (* of each thread: records of a mutex and a sched_info   *)
  ceiling,           (* mutex->sched_info of the PRIO_PROTECT mutexes         *)
  owner,             (* of each mutex; the word futex is 1 while there is one *)
  internal_futex,    (* of each PRIO_INHERIT mutex: the thread that has it    *)
  kernel,            (* the scheduling that is in force                       *)
  pc,
  obj,               (* the mutex of the call in progress                     *)
  seen,              (* the local th_sched_info; in a creation, the copy      *)
  (* Histories.                                                             *)
  asked,             (* what the program last asked for                       *)
  boosted,           (* who has passed its present sched_info to the present owner *)
  uncomputed,        (* whose sched_info is not the outcome of tb_compute_sched,
                        see SetSched and Clone                                *)
  unsorted           (* who has given another ceiling to a mutex it held, and
                        still has protect_mutexes                             *)

fields == <<sched_info, user_sched_info, protect_mutexes, inherit_mutexes>>
mutexes == <<ceiling, owner, internal_futex>>
locals == <<pc, obj, seen>>
histories == <<asked, boosted, uncomputed, unsorted>>
vars == <<fields, mutexes, kernel, locals, histories>>

Mutexes == Protect \cup Inherit

(***************************************************************************)
(* none      not created           idle      in user code      gone  ended *)
(* clone     in create, sched_info copied to the new descriptor            *)
(* protect   PRIO_PROTECT mutex taken, to be scheduled                     *)
(* unsched   to be un-scheduled    free      to be released                *)
(* c_protect, c_set, c_unsched    inside setprioceiling: taken, to be set, *)
(*           to be un-scheduled                                            *)
(* take      PRIO_INHERIT mutex to be taken or waited for                  *)
(* boost     sched_info read       wait      about to FUTEX_WAIT   asleep  *)
(***************************************************************************)
PC == {"none", "idle", "gone", "clone", "protect", "c_protect", "c_set",
       "c_unsched", "unsched", "free", "take", "boost", "wait", "asleep"}

Goto(t, from, to) == pc[t] = from /\ pc' = [pc EXCEPT ![t] = to]

\* A ceiling given by tbthread_mutexattr_setprioceiling; without one, and with 0, the
\* field stays 0.
InitialCeiling(c) == IF c = 0 THEN Normal ELSE Fifo(c)

\* tbthread_init: the main thread gets SCHED_NORMAL 0.
Init ==
  /\ sched_info = [t \in Threads |-> Normal]
  /\ user_sched_info = [t \in Threads |-> Normal]
  /\ protect_mutexes = [t \in Threads |-> <<>>]
  /\ inherit_mutexes = [t \in Threads |-> <<>>]
  /\ ceiling \in [Protect -> {InitialCeiling(c) : c \in Ceilings}]
  /\ owner = [m \in Mutexes |-> NoThread]
  /\ internal_futex = [m \in Inherit |-> NoThread]
  /\ kernel = [t \in Threads |-> Normal]
  /\ pc = [t \in Threads |-> IF t = Main THEN "idle" ELSE "none"]
  /\ obj = [t \in Threads |-> NoMutex]
  /\ seen = [t \in Threads |-> Normal]
  /\ asked = [t \in Threads |-> Normal]
  /\ boosted = {} /\ uncomputed = {} /\ unsorted = {}

-----------------------------------------------------------------------------
(* The lists, as sequences; a position 0 is a null node.                   *)

ListAdd(list, e) == Append(list, e)
FindElem(list, e) == SelectInSeq(list, LAMBDA x : x = e)
FindMutex(list, m) == SelectInSeq(list, LAMBDA im : im.mutex = m)
ListRm(list, at) == RemoveAt(list, at)

-----------------------------------------------------------------------------
(* tb_compute_sched and tb_set_sched                                       *)

\* Mutant of Merge: SCHED_RR does not give way at equal priority.
MergeGreater(a, b) == IF b.prio > a.prio THEN b ELSE a

\* b added to a: the greater priority counts, and at equal priority SCHED_RR
\* gives way to the other policy.
Merge(a, b) ==
  IF b.prio > a.prio \/ (b.prio = a.prio /\ a.policy = "rr") THEN b ELSE a

\* Mutant of ComputeSched: of the PRIO_INHERIT mutexes, too, only the first counts.
ComputeFirst(user, protect, inherit) ==
  LET base == IF protect = <<>> THEN user ELSE Merge(user, ceiling'[Head(protect)])
  IN  IF inherit = <<>> THEN base ELSE Merge(base, Head(inherit).sched_info)

\* The user's choice, the first PRIO_PROTECT mutex and every PRIO_INHERIT mutex.
ComputeSched(user, protect, inherit) ==
  LET base == IF protect = <<>> THEN user ELSE Merge(user, ceiling'[Head(protect)])
  IN  FoldLeft(LAMBDA a, im : Merge(a, im.sched_info), base, inherit)

\* tb_set_sched(u, info) called by t.  The tid of a thread that has ended is 0,
\* which means the caller to sched_setscheduler.  The kernel may refuse real-time
\* scheduling to who lacks the privilege.
SetSched(t, u, info) ==
  \/ /\ Valid(info)
     /\ sched_info' = [sched_info EXCEPT ![u] = info]
     /\ kernel' = [kernel EXCEPT ![IF pc[u] = "gone" THEN t ELSE u] = info]
     /\ uncomputed' = uncomputed \ {u}
  \/ /\ info # Normal
     /\ uncomputed' = uncomputed \cup {u}
     /\ UNCHANGED <<sched_info, kernel>>

\* tb_compute_sched(u) called by t, after the lists and user_sched_info changed.
Reschedule(t, u) ==
  SetSched(t, u, ComputeSched(user_sched_info'[u], protect_mutexes'[u],
                              inherit_mutexes'[u]))

NoReschedule == UNCHANGED <<sched_info, kernel, uncomputed>>

\* What a waiter has passed on counts until it is given other scheduling itself.
StillCurrent == {t \in boosted : sched_info'[t] = sched_info[t]}

-----------------------------------------------------------------------------
(* PRIO_PROTECT                                                            *)

\* tb_futex_lock(&mutex->futex), then the owner is stored.
LockProtect(t, m) ==
  /\ pc[t] = "idle"
  /\ owner[m] = NoThread
  /\ owner' = [owner EXCEPT ![m] = t]
  /\ pc' \in {[pc EXCEPT ![t] = "protect"], [pc EXCEPT ![t] = "c_protect"]}
  /\ obj' = [obj EXCEPT ![t] = m]
  /\ UNCHANGED <<fields, ceiling, internal_futex, kernel, seen, histories>>

MutexPrioSmaller(m, n) == ceiling[n].prio < ceiling[m].prio

\* Mutant of AddHere: list_add in place of list_add_here.
AddLast(list, m) == Len(list) + 1

\* Where list_add_here puts m: before the first element that is smaller.
AddHere(list, m) ==
  CHOOSE i \in 1 .. Len(list) + 1 :
    /\ \A j \in 1 .. i - 1 : ~ MutexPrioSmaller(m, list[j])
    /\ i <= Len(list) => MutexPrioSmaller(m, list[i])

\* tb_protect_mutex_sched: the scheduler changes only with the head of the list.
ProtectSched(t) ==
  LET at == AddHere(protect_mutexes[t], obj[t])
  IN  /\ Goto(t, "protect", "idle") \/ Goto(t, "c_protect", "c_set")
      /\ protect_mutexes' =
           [protect_mutexes EXCEPT ![t] = InsertAt(@, at, obj[t])]
      /\ UNCHANGED <<user_sched_info, inherit_mutexes, mutexes>>
      /\ IF at = 1 THEN Reschedule(t, t) ELSE NoReschedule
      /\ obj' = [obj EXCEPT ![t] = IF pc[t] = "protect" THEN NoMutex ELSE @]
      /\ UNCHANGED <<seen, asked, boosted, unsorted>>

UnlockProtect(t, m) ==
  /\ owner[m] = t
  /\ Goto(t, "idle", "unsched")
  /\ obj' = [obj EXCEPT ![t] = m]
  /\ UNCHANGED <<fields, mutexes, kernel, seen, histories>>

\* tb_protect_mutex_unsched.
ProtectUnsched(t) ==
  LET list == protect_mutexes[t]
      at == FindElem(list, obj[t])
  IN  /\ Goto(t, "unsched", "free") \/ Goto(t, "c_unsched", "free")
      /\ protect_mutexes' = [protect_mutexes EXCEPT ![t] = ListRm(@, at)]
      /\ UNCHANGED <<user_sched_info, inherit_mutexes, mutexes>>
      /\ IF at = 1 THEN Reschedule(t, t) ELSE NoReschedule
      /\ unsorted' = IF Len(list) = 1 THEN unsorted \ {t} ELSE unsorted
      /\ UNCHANGED <<obj, seen, asked, boosted>>

\* unlock_prio_none.
Free(t) ==
  /\ Goto(t, "free", "idle")
  /\ owner' = [owner EXCEPT ![obj[t]] = NoThread]
  /\ obj' = [obj EXCEPT ![t] = NoMutex]
  /\ UNCHANGED <<fields, ceiling, internal_futex, kernel, seen, histories>>

\* tbthread_mutex_setprioceiling, for a mutex locked for the purpose (LockProtect
\* and ProtectSched come before, ProtectUnsched and Free after) or held already.
SetPrioCeiling(t) ==
  /\ Goto(t, "c_set", "c_unsched")
  /\ \E c \in Ceilings : ceiling' = [ceiling EXCEPT ![obj[t]] = Fifo(c)]
  /\ UNCHANGED <<fields, owner, internal_futex, kernel, obj, seen, histories>>

SetPrioCeilingHeld(t, m) ==
  /\ pc[t] = "idle" /\ owner[m] = t
  /\ \E c \in Ceilings : ceiling' = [ceiling EXCEPT ![m] = Fifo(c)]
  /\ unsorted' = unsorted \cup {t}
  /\ UNCHANGED <<fields, owner, internal_futex, kernel, locals, asked, boosted,
                 uncomputed>>

-----------------------------------------------------------------------------
(* PRIO_INHERIT                                                            *)

LockInherit(t, m) ==
  /\ owner[m] # t
  /\ Goto(t, "idle", "take")
  /\ obj' = [obj EXCEPT ![t] = m]
  /\ UNCHANGED <<fields, mutexes, kernel, seen, histories>>

\* The entry of a mutex that nobody waits for yet.
NewEntry(m) == [mutex |-> m, sched_info |-> Normal]

\* lock_prio_inherit finds the word free; tb_inherit_mutex_add.
TakeInherit(t) ==
  /\ pc[t] = "take"
  /\ internal_futex[obj[t]] = NoThread /\ owner[obj[t]] = NoThread
  /\ owner' = [owner EXCEPT ![obj[t]] = t]
  /\ inherit_mutexes' = [inherit_mutexes EXCEPT ![t] = ListAdd(@, NewEntry(obj[t]))]
  /\ Goto(t, "take", "idle")
  /\ obj' = [obj EXCEPT ![t] = NoMutex]
  /\ UNCHANGED <<sched_info, user_sched_info, protect_mutexes, ceiling,
                 internal_futex, kernel, seen, histories>>

\* The mutex is taken: tb_inherit_mutex_sched reads the waiter's sched_info under
\* the waiter's lock.
ReadSched(t) ==
  /\ Goto(t, "take", "boost")
  /\ internal_futex[obj[t]] = NoThread /\ owner[obj[t]] # NoThread
  /\ internal_futex' = [internal_futex EXCEPT ![obj[t]] = t]
  /\ seen' = [seen EXCEPT ![t] = sched_info[t]]
  /\ UNCHANGED <<fields, ceiling, owner, kernel, obj, histories>>

\* Whether the waiter's scheduling replaces the one noted with the mutex.
Raises(th, im) == th.prio > im.prio \/ (th.prio = im.prio /\ im.policy = "rr")

\* tb_inherit_mutex_sched goes on under the owner's lock.
Boost(t) ==
  LET m == obj[t]
      o == owner[m]
      at == FindMutex(inherit_mutexes[o], m)
  IN  /\ Goto(t, "boost", "wait")
      /\ internal_futex' = [internal_futex EXCEPT ![m] = NoThread]
      /\ UNCHANGED <<user_sched_info, protect_mutexes, ceiling, owner>>
      /\ IF at # 0 /\ Raises(seen[t], inherit_mutexes[o][at].sched_info)
         THEN /\ inherit_mutexes' = [inherit_mutexes EXCEPT ![o][at].sched_info = seen[t]]
              /\ Reschedule(t, o)
         ELSE UNCHANGED inherit_mutexes /\ NoReschedule
      /\ seen' = [seen EXCEPT ![t] = Normal]
      /\ boosted' = StillCurrent \cup (IF seen[t] = sched_info[t] THEN {t} ELSE {})
      /\ UNCHANGED <<obj, asked, unsorted>>

\* FUTEX_WAIT sleeps when the word is 1, whoever has set it.
FutexWait(t) ==
  /\ Goto(t, "wait", IF owner[obj[t]] # NoThread THEN "asleep" ELSE "take")
  /\ UNCHANGED <<fields, mutexes, kernel, obj, seen, histories>>

Interrupted(t) ==
  /\ Goto(t, "asleep", "take")
  /\ UNCHANGED <<fields, mutexes, kernel, obj, seen, histories>>

\* Sleepers on m, and the ones FUTEX_WAKE may choose: those of greatest priority.
Sleepers(m) == {t \in Threads : pc[t] = "asleep" /\ obj[t] = m}
First(m) == {s \in Sleepers(m) :
               \A t \in Sleepers(m) : kernel[t].prio <= kernel[s].prio}

\* Mutant of Counted: the scheduler is left alone.
CountedNever(t, im) == FALSE

\* Whether tb_inherit_mutex_unsched computes the scheduler anew.
Counted(t, im) == im.sched_info = sched_info[t]

\* Mutant of MayUnlock: internal_futex is not taken.
MayUnlockAlways(m) == TRUE

MayUnlock(m) == internal_futex[m] = NoThread

\* unlock_prio_inherit, with tb_inherit_mutex_unsched: one sleeper is woken, and the
\* entry with what all of them have passed on is gone.
UnlockInherit(t, m) ==
  LET at == FindMutex(inherit_mutexes[t], m)
  IN  /\ pc[t] = "idle" /\ owner[m] = t
      /\ MayUnlock(m)
      /\ UNCHANGED <<user_sched_info, protect_mutexes, ceiling, internal_futex>>
      /\ inherit_mutexes' = [inherit_mutexes EXCEPT ![t] = ListRm(@, at)]
      /\ IF Counted(t, inherit_mutexes[t][at]) THEN Reschedule(t, t) ELSE NoReschedule
      /\ owner' = [owner EXCEPT ![m] = NoThread]
      /\ IF Sleepers(m) = {}
         THEN UNCHANGED pc
         ELSE \E s \in First(m) : pc' = [pc EXCEPT ![s] = "take"]
      /\ boosted' = {s \in boosted : obj[s] # m}
      /\ UNCHANGED <<obj, seen, asked, unsorted>>

-----------------------------------------------------------------------------
(* Requests of the program                                                 *)

\* used_desc: everybody who was created, until the join, which is left to module
\* Threads.  The initial thread has no descriptor there.
Known(u) == u # Main /\ pc[u] # "none"

\* tbthread_setschedparam(u, ...): user_sched_info is stored before the kernel is
\* asked; the program takes the request for granted only if the call succeeds.
SetSchedParam(t, u) ==
  /\ pc[t] = "idle"
  /\ Known(u)
  /\ \E r \in Requests :
       /\ user_sched_info' = [user_sched_info EXCEPT ![u] = r]
       /\ UNCHANGED <<protect_mutexes, inherit_mutexes, mutexes>>
       /\ Reschedule(t, u)
       /\ asked' = IF u \in uncomputed' THEN asked ELSE [asked EXCEPT ![u] = r]
  /\ boosted' = StillCurrent
  /\ UNCHANGED <<locals, unsorted>>

\* tbthread_create with TBTHREAD_INHERIT_SCHED copies sched_info into a cleared
\* descriptor.  Threads is the bound on how many are created.
CreateCopy(t) ==
  /\ \E u \in Threads : pc[u] = "none"
  /\ Goto(t, "idle", "clone")
  /\ seen' = [seen EXCEPT ![t] = sched_info[t]]
  /\ UNCHANGED <<fields, mutexes, kernel, obj, histories>>

\* The new thread u has sched_info, and user_sched_info is as memset leaves it.
Given(u, info) ==
  /\ sched_info' = [sched_info EXCEPT ![u] = info]
  /\ asked' = [asked EXCEPT ![u] = info]
  /\ uncomputed' = IF info = user_sched_info[u] THEN uncomputed ELSE uncomputed \cup {u}
  /\ UNCHANGED <<user_sched_info, protect_mutexes, inherit_mutexes, mutexes, obj,
                 boosted, unsorted>>

\* The kernel copies what is in force for the creator by now.
Clone(t, u) ==
  /\ pc[t] = "clone" /\ pc[u] = "none"
  /\ pc' = [pc EXCEPT ![t] = "idle", ![u] = "idle"]
  /\ Given(u, seen[t])
  /\ kernel' = [kernel EXCEPT ![u] = kernel[t]]
  /\ seen' = [seen EXCEPT ![t] = Normal]

\* TBTHREAD_EXPLICIT_SCHED: tb_set_sched before the thread runs, which it never does
\* if that fails.
CreateExplicit(t, u) ==
  /\ pc[t] = "idle" /\ pc[u] = "none"
  /\ pc' = [pc EXCEPT ![u] = "idle"]
  /\ \E r \in Requests :
       /\ Valid(r)
       /\ Given(u, r)
       /\ kernel' = [kernel EXCEPT ![u] = r]
  /\ UNCHANGED seen

\* A thread that holds nothing ends; its descriptor is found until it is joined.
Exit(t) ==
  /\ t # Main
  /\ \A m \in Mutexes : owner[m] # t
  /\ Goto(t, "idle", "gone")
  /\ UNCHANGED <<fields, mutexes, kernel, obj, seen, histories>>

-----------------------------------------------------------------------------
Next ==
  \E t \in Threads :
    \/ \E m \in Protect : LockProtect(t, m) \/ UnlockProtect(t, m)
                            \/ SetPrioCeilingHeld(t, m)
    \/ ProtectSched(t) \/ ProtectUnsched(t) \/ Free(t) \/ SetPrioCeiling(t)
    \/ \E m \in Inherit : LockInherit(t, m) \/ UnlockInherit(t, m)
    \/ TakeInherit(t) \/ ReadSched(t) \/ Boost(t) \/ FutexWait(t) \/ Interrupted(t)
    \/ \E u \in Threads : SetSchedParam(t, u) \/ Clone(t, u) \/ CreateExplicit(t, u)
    \/ CreateCopy(t) \/ Exit(t)

Spec == Init /\ [][Next]_vars

-----------------------------------------------------------------------------
\* Every variable has its type.
TypeOK ==
  /\ sched_info \in [Threads -> SchedInfo]
  /\ user_sched_info \in [Threads -> SchedInfo]
  /\ protect_mutexes \in [Threads -> Seq(Protect)]
  /\ inherit_mutexes \in [Threads -> Seq([mutex : Inherit, sched_info : SchedInfo])]
  /\ ceiling \in [Protect -> SchedInfo]
  /\ owner \in [Mutexes -> Threads \cup {NoThread}]
  /\ internal_futex \in [Inherit -> Threads \cup {NoThread}]
  /\ kernel \in [Threads -> SchedInfo]
  /\ pc \in [Threads -> PC]
  /\ obj \in [Threads -> Mutexes \cup {NoMutex}]
  /\ seen \in [Threads -> SchedInfo]
  /\ asked \in [Threads -> SchedInfo]
  /\ boosted \subseteq Threads /\ uncomputed \subseteq Threads /\ unsorted \subseteq Threads

\* Everything that has a say in the scheduling of t.
Claims(t) ==
  {user_sched_info[t]}
    \cup {ceiling[m] : m \in ToSet(protect_mutexes[t])}
    \cup {im.sched_info : im \in ToSet(inherit_mutexes[t])}

\* sched_info is what all the claims together amount to, although it is computed from
\* the first PRIO_PROTECT mutex only, and only when a change seems to matter: the
\* greatest priority, SCHED_FIFO where any claim of that priority is.  Not so for a
\* thread that still runs as it was created to or whose scheduling the kernel refused
\* (uncomputed), nor for one whose mutexes get other ceilings while it holds them.
RunsAsComputed ==
  \A t \in Threads : t \notin uncomputed \cup unsorted /\ pc[t] # "c_unsched" =>
    /\ sched_info[t].prio = (CHOOSE p \in {c.prio : c \in Claims(t)} :
                               \A c \in Claims(t) : c.prio <= p)
    /\ sched_info[t].prio > 0 =>
         (sched_info[t].policy = "fifo" <=> Fifo(sched_info[t].prio) \in Claims(t))

\* Priority inheritance: the owner of a PRIO_INHERIT mutex has at least the priority of
\* everybody who has passed its own on to it and waits or sleeps, the mutex has an
\* owner as long as there is somebody who has, and only a refusal of the kernel is an
\* excuse.  A sleeper that an unlock leaves behind, and one that falls asleep after
\* the owner has changed, have passed nothing on to the next owner.
NoInversion ==
  \A t \in boosted :
    /\ owner[obj[t]] # NoThread
    /\ owner[obj[t]] \notin uncomputed =>
         sched_info[owner[obj[t]]].prio >= sched_info[t].prio

\* Priority protection: between lock and unlock the owner of a PRIO_PROTECT mutex
\* has at least its ceiling as priority, unless the owner has changed a ceiling since
\* it had no such mutex, is about to end a call of setprioceiling, or the kernel has
\* refused the priority.
CeilingHonoured ==
  \A m \in Protect : LET t == owner[m] IN
    /\ t # NoThread /\ obj[t] # m
    /\ t \notin uncomputed \cup unsorted /\ pc[t] # "c_unsched"
    => sched_info[t].prio >= ceiling[m].prio

\* Between its two critical sections tb_inherit_mutex_sched finds an owner, and in
\* the owner's list the entry of the mutex, once.
EntryFound ==
  \A t \in Threads : pc[t] = "boost" =>
    /\ owner[obj[t]] # NoThread
    /\ LET list == inherit_mutexes[owner[obj[t]]]
       IN  \E i \in 1 .. Len(list) : \A j \in 1 .. Len(list) :
             list[j].mutex = obj[t] <=> j = i

\* A thread that holds no mutex runs as the program last asked for, if that is what
\* user_sched_info says (creation does not store it, a refused request does) and the
\* kernel has not refused to return to it.
RequestKept ==
  \A t \in Threads \ uncomputed :
    protect_mutexes[t] = <<>> /\ inherit_mutexes[t] = <<>>
      /\ user_sched_info[t] = asked[t]
      => sched_info[t] = asked[t]
=============================================================================
