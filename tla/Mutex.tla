------------------------------- MODULE Mutex --------------------------------
(***************************************************************************)
(* tbthread_mutex_lock, trylock and unlock (tb-mutexes.c) for one mutex of *)
(* any type, over the protocols PRIO_NONE and PRIO_INHERIT.  The fields    *)
(* owner and counter are read and written without a lock of their own, at  *)
(* moments when the futex may be in other hands.                           *)
(*                                                                         *)
(* With PRIO_NONE the word is taken by tb_futex_lock, here the one step    *)
(* AbstractLock!Acquire that module FutexLock implements.  With            *)
(* PRIO_INHERIT the word is set under internal_futex, one action per       *)
(* critical section, and the mutex has a sleep and a wake-up of its own.   *)
(* PRIO_PROTECT locks like PRIO_NONE.  What the protocols do to the        *)
(* owner's scheduling is not part of this module.                          *)
(***************************************************************************)
EXTENDS Integers

CONSTANTS
  Threads,
  NoThread,    \* a null tbthread_t
  Attributes,  \* the attributes tbthread_mutex_init may be given
  MaxCounter   \* the largest value of counter, 2^64 - 1 in the code

ASSUME ConstantsAssumption ==
  /\ NoThread \notin Threads
  /\ Attributes \subseteq [type : {"normal", "errorcheck", "recursive"},
                            protocol : {"none", "inherit"}]
  /\ MaxCounter \in Nat \ {0}

VARIABLES
  attr,                   (* the mutex's type and protocol, never changed       *)
  futex, owner, counter,  (* the fields of tbthread_mutex_t                     *)
  pc,
  try,                    (* the threads whose call in progress is a trylock    *)
  depth                   (* how many locks the program has been granted        *)

vars == <<attr, futex, owner, counter, pc, try, depth>>

(***************************************************************************)
(* idle    in user code                                                    *)
(* check   in lock, about to look at owner      take    about to take      *)
(* wait    about to FUTEX_WAIT (inherit)        asleep  in it              *)
(* own     word taken, about to store owner     count   about to count     *)
(* disown  in unlock, about to clear owner      free    about to clear it  *)
(***************************************************************************)
PC == {"idle", "check", "take", "wait", "asleep", "own", "count", "disown",
       "free", "crashed"}

Goto(t, from, to) == pc[t] = from /\ pc' = [pc EXCEPT ![t] = to]

Init ==
  /\ attr \in Attributes
  /\ futex = 0 /\ owner = NoThread /\ counter = 0
  /\ pc = [t \in Threads |-> "idle"]
  /\ try = {}
  /\ depth = [t \in Threads |-> 0]

\* The call is granted: the program holds the mutex once more.
Grant(t) == depth' = [depth EXCEPT ![t] = @ + 1]

-----------------------------------------------------------------------------
(* lock and trylock                                                        *)

\* A program does not lock a normal mutex that it holds: it would wait for ever.
Call(t) ==
  /\ Goto(t, "idle", "check")
  /\ \/ (attr.type = "normal" => depth[t] = 0) /\ try' = try \ {t}
     \/ try' = try \cup {t}
  /\ UNCHANGED <<attr, futex, owner, counter, depth>>

\* A recursive mutex that the caller holds is only counted.
Relocks(t) == attr.type = "recursive" /\ owner = t

\* -EDEADLK from lock_errorcheck.
SelfDeadlock(t) == attr.type = "errorcheck" /\ owner = t /\ t \notin try

Check(t) ==
  /\ Goto(t, "check", IF Relocks(t) THEN "count"
                      ELSE IF SelfDeadlock(t) THEN "idle" ELSE "take")
  /\ UNCHANGED <<attr, futex, owner, counter, try, depth>>

WordFree == futex = 0

\* lock_recursive and trylock_recursive go on to set the owner (again) and count.
TakeNone(t) ==
  /\ WordFree
  /\ Goto(t, "take", "own")
  /\ futex' = 1
  /\ UNCHANGED <<attr, owner, counter, try, depth>>

TakeInherit(t) ==
  /\ WordFree
  /\ futex' = 1
  /\ owner' = t
  /\ IF attr.type = "recursive"
     THEN Goto(t, "take", "own") /\ UNCHANGED depth
     ELSE Goto(t, "take", "idle") /\ Grant(t)
  /\ UNCHANGED <<attr, counter, try>>

\* A trylock gives up; a lock waits inside tb_futex_lock (the step is disabled)
\* or, with PRIO_INHERIT, goes to sleep.
TakeFailed(t) ==
  /\ futex = 1
  /\ \/ t \in try /\ Goto(t, "take", "idle")                          \* -EBUSY
     \/ t \notin try /\ attr.protocol = "inherit" /\ Goto(t, "take", "wait")
  /\ UNCHANGED <<attr, futex, owner, counter, try, depth>>

Take(t) ==
  \/ attr.protocol = "none" /\ TakeNone(t)
  \/ attr.protocol = "inherit" /\ TakeInherit(t)
  \/ TakeFailed(t)

\* FUTEX_WAIT with the expected value 1.
FutexWait(t) ==
  /\ Goto(t, "wait", IF futex = 1 THEN "asleep" ELSE "take")
  /\ UNCHANGED <<attr, futex, owner, counter, try, depth>>

Interrupted(t) ==
  /\ Goto(t, "asleep", "take")
  /\ UNCHANGED <<attr, futex, owner, counter, try, depth>>

Own(t) ==
  /\ owner' = t
  /\ IF attr.type = "recursive"
     THEN Goto(t, "own", "count") /\ UNCHANGED depth
     ELSE Goto(t, "own", "idle") /\ Grant(t)
  /\ UNCHANGED <<attr, futex, counter, try>>

\* Mutant of Full: the counter overflows.
FullNever == FALSE

Full == counter = MaxCounter

Count(t) ==
  /\ Goto(t, "count", "idle")
  /\ IF Full
     THEN UNCHANGED <<counter, depth>>                               \* -EAGAIN
     ELSE counter' = (counter + 1) % (MaxCounter + 1) /\ Grant(t)
  /\ UNCHANGED <<attr, futex, owner, try>>

-----------------------------------------------------------------------------
(* unlock                                                                  *)

\* -EPERM from unlock_errorcheck and unlock_recursive.
Refused(t) ==
  \/ attr.type = "errorcheck" /\ (owner # t \/ futex = 0)
  \/ attr.type = "recursive" /\ owner # t

\* A program unlocks a normal mutex only when it holds it.  unlock_recursive
\* clears the owner itself before it calls the protocol's function.
UnlockCall(t) ==
  /\ pc[t] = "idle"
  /\ attr.type = "normal" => depth[t] > 0
  /\ ~Refused(t)
  /\ depth' = [depth EXCEPT ![t] = @ - 1]
  /\ IF attr.type = "recursive"
     THEN /\ counter' = (counter + MaxCounter) % (MaxCounter + 1)
          /\ IF counter' = 0
             THEN Goto(t, "idle", "disown") /\ owner' = NoThread
             ELSE UNCHANGED <<owner, pc>>
     ELSE Goto(t, "idle", "disown") /\ UNCHANGED <<counter, owner>>
  /\ UNCHANGED <<attr, futex, try>>

\* Mutant of Disown: the owner is left in place.
DisownForgotten(t) ==
  /\ attr.protocol = "none"
  /\ Goto(t, "disown", "free")
  /\ UNCHANGED <<attr, futex, owner, counter, try, depth>>

Disown(t) ==
  /\ attr.protocol = "none"
  /\ Goto(t, "disown", "free")
  /\ owner' = NoThread
  /\ UNCHANGED <<attr, futex, counter, try, depth>>

\* tb_futex_unlock; who sleeps in tb_futex_lock may take the word again.
Free(t) ==
  /\ Goto(t, "free", "idle")
  /\ futex' = 0
  /\ UNCHANGED <<attr, owner, counter, try, depth>>

\* Mutant of Sleepers: FUTEX_WAKE is left out.
SleepersNone == {}

Sleepers == {t \in Threads : pc[t] = "asleep"}

\* unlock_prio_inherit: tb_inherit_mutex_unsched follows mutex->owner, then the
\* word is cleared and one sleeper woken.
FreeInherit(t) ==
  /\ attr.protocol = "inherit"
  /\ IF owner = NoThread
     THEN Goto(t, "disown", "crashed") /\ UNCHANGED <<futex, owner>>
     ELSE /\ pc[t] = "disown"
          /\ owner' = NoThread
          /\ futex' = 0
          /\ IF Sleepers = {}
             THEN pc' = [pc EXCEPT ![t] = "idle"]
             ELSE \E s \in Sleepers : pc' = [pc EXCEPT ![t] = "idle", ![s] = "take"]
  /\ UNCHANGED <<attr, counter, try, depth>>

-----------------------------------------------------------------------------
\* What a thread inside a call does next.
Step(t) ==
  \/ Check(t) \/ Take(t) \/ FutexWait(t) \/ Own(t) \/ Count(t)
  \/ Disown(t) \/ Free(t) \/ FreeInherit(t)

Crashed == \E t \in Threads : pc[t] = "crashed"

Next ==
  /\ ~Crashed
  /\ \E t \in Threads : Step(t) \/ Call(t) \/ UnlockCall(t) \/ Interrupted(t)

Spec == Init /\ [][Next]_vars

\* Threads run and holders unlock.  Of the threads that try to take the word some
\* one does: tb_futex_lock promises no more (AbstractLock!FairSpec).
FairSpec ==
  /\ Spec
  /\ \A t \in Threads :
       /\ WF_vars(Step(t) /\ pc[t] # "take")
       /\ WF_vars(UnlockCall(t) /\ depth[t] > 0)
  /\ WF_vars(\E t \in Threads : Take(t))

-----------------------------------------------------------------------------
\* Every variable has its type.
TypeOK ==
  /\ attr \in Attributes
  /\ futex \in {0, 1}
  /\ owner \in Threads \cup {NoThread}
  /\ counter \in 0 .. MaxCounter
  /\ pc \in [Threads -> PC]
  /\ try \subseteq Threads
  /\ depth \in [Threads -> Nat]

\* The unguarded field owner never deceives the thread that compares it with
\* itself: it names a thread exactly when that thread has the mutex.  -EDEADLK
\* and -EPERM are returned when they are true, a relock never by a stranger.
OwnerTellsHolder ==
  \A t \in Threads : pc[t] \in {"idle", "check"} => (owner = t <=> depth[t] > 0)

\* The counter of a recursive mutex is the number of unlocks still owed.
CounterIsDepth ==
  \A t \in Threads : attr.type = "recursive" /\ depth[t] > 0 => counter = depth[t]

Holders == {t \in Threads : \/ depth[t] > 0
                            \/ pc[t] \in {"own", "count", "disown", "free"}}

Waiting == {t \in Threads \ try : pc[t] \in {"take", "wait", "asleep"}}

Abs == INSTANCE AbstractLock WITH holders <- Holders, waiting <- Waiting

\* The mutex implements the abstract lock: one thread at a time between the first
\* lock granted and the last unlock, nobody waits for a mutex that it holds, and
\* no wake-up of the sleepers on a PRIO_INHERIT mutex is lost.
ImplementsAbstractLock == Abs!FairSpec

\* The protocol functions that follow mutex->owner find a thread there.
UnschedHasOwner == ~Crashed
=============================================================================
