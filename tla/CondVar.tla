------------------------------ MODULE CondVar -------------------------------
(***************************************************************************)
(* The condition variable of tb-condvar.c with the mutexes it is used      *)
(* with.  cond->lock is the futex lock of module FutexLock, so what a call *)
(* does under it is one action, the FUTEX_WAKE and the unlock of the       *)
(* caller's mutex included.  The mutexes are error-checking ones, so that  *)
(* tbthread_mutex_unlock may refuse.                                       *)
(*                                                                         *)
(* futex and broadcast_seq are only compared for equality with a value     *)
(* read earlier.  The model keeps, for each waiter, whether the value it   *)
(* read is still the word's: "fresh" for futex, "called" (it is not) for   *)
(* broadcast_seq.  This is exact until one of the numbers wraps.           *)
(***************************************************************************)
EXTENDS Integers, FiniteSets

CONSTANTS
  Threads,
  Mutexes,
  NoThread, NoMutex,  \* null pointers
  MaxPosts,           \* bounds the effective signals and broadcasts of a run
  MaxSignals          \* bounds how many sleeps are interrupted by signal handlers

ASSUME ConstantsAssumption ==
  /\ IsFiniteSet(Threads)
  /\ NoThread \notin Threads
  /\ NoMutex \notin Mutexes
  /\ MaxPosts \in Nat
  /\ MaxSignals \in Nat

VARIABLES
  mutex, waiters, signal_num,  (* the fields of tbthread_cond_t               *)
  fresh,                       (* waiters whose futex is that of the cond     *)
  called,                      (* waiters whose bseq is not that of the cond  *)
  owner,                       (* the owner of each mutex                     *)
  mine,                        (* the mutex each thread holds or waits with   *)
  pc,
  bounds                       (* how many posts and signals are still to come *)

cond == <<mutex, waiters, signal_num, fresh, called>>
vars == <<cond, owner, mine, pc, bounds>>

(***************************************************************************)
(* idle      without a mutex          in      holds a mutex                *)
(* w_futex   about to FUTEX_WAIT      asleep  in FUTEX_WAIT                *)
(* w_check   about to lock and look   relock  about to lock its mutex      *)
(***************************************************************************)
PC == {"idle", "in", "w_futex", "asleep", "w_check", "relock"}

At(places) == {t \in Threads : pc[t] \in places}

Waiting == At({"w_futex", "asleep", "w_check"})

Goto(t, from, to) == pc[t] = from /\ pc' = [pc EXCEPT ![t] = to]

Init ==
  /\ mutex = NoMutex /\ waiters = 0 /\ signal_num = 0
  /\ fresh = {} /\ called = {}
  /\ owner = [m \in Mutexes |-> NoThread]
  /\ mine = [t \in Threads |-> NoMutex]
  /\ pc = [t \in Threads |-> "idle"]
  /\ bounds = [posts |-> MaxPosts, signals |-> MaxSignals]

-----------------------------------------------------------------------------
(* The program's own use of the mutexes                                    *)

Lock(t) == \E m \in Mutexes :
  /\ owner[m] = NoThread
  /\ Goto(t, "idle", "in")
  /\ owner' = [owner EXCEPT ![m] = t]
  /\ mine' = [mine EXCEPT ![t] = m]
  /\ UNCHANGED <<cond, bounds>>

Unlock(t) ==
  /\ Goto(t, "in", "idle")
  /\ owner' = [owner EXCEPT ![mine[t]] = NoThread]
  /\ mine' = [mine EXCEPT ![t] = NoMutex]
  /\ UNCHANGED <<cond, bounds>>

-----------------------------------------------------------------------------
(* tbthread_cond_signal and tbthread_cond_broadcast, from any user code    *)

\* Mutant of AllSignalled: signals are not counted against the waiters.
NobodyWaits == waiters = 0

\* Every waiter has a signal to come back on.
AllSignalled == waiters = signal_num

\* Mutant of Wake: the futex word is not incremented.
WakeOnly(sleepers) ==
  /\ pc' = [t \in Threads |-> IF t \in sleepers THEN "w_check" ELSE pc[t]]
  /\ UNCHANGED fresh

\* ++cond->futex, then FUTEX_WAKE, which ends the sleep of these threads.
Wake(sleepers) ==
  /\ pc' = [t \in Threads |-> IF t \in sleepers THEN "w_check" ELSE pc[t]]
  /\ fresh' = {}

Signal(t) ==
  /\ pc[t] \in {"idle", "in"} /\ bounds.posts > 0
  /\ ~AllSignalled
  /\ signal_num' = signal_num + 1
  /\ IF At({"asleep"}) = {} THEN Wake({}) ELSE \E s \in At({"asleep"}) : Wake({s})
  /\ bounds' = [bounds EXCEPT !.posts = @ - 1]
  /\ UNCHANGED <<mutex, waiters, called, owner, mine>>

Broadcast(t) ==
  /\ pc[t] \in {"idle", "in"} /\ bounds.posts > 0
  /\ waiters > 0
  /\ called' = Waiting
  /\ Wake(At({"asleep"}))
  /\ bounds' = [bounds EXCEPT !.posts = @ - 1]
  /\ UNCHANGED <<mutex, waiters, signal_num, owner, mine>>

-----------------------------------------------------------------------------
(* tbthread_cond_wait                                                      *)

\* Mutant of Bound: the condition variable keeps its mutex for ever.
BoundForEver(m, n) == m

\* The mutex a condition variable with n waiters is bound to, m while it has any.
Bound(m, n) == IF n = 0 THEN NoMutex ELSE m

\* -EINVAL for a second mutex, -EPERM for a mutex that is not the caller's.
WaitRefused(t, m) ==
  LET bound == IF mutex = NoMutex THEN m ELSE mutex IN
  /\ pc[t] \in {"idle", "in"}
  /\ bound # m \/ owner[m] # t
  /\ mutex' = Bound(bound, waiters)
  /\ UNCHANGED <<waiters, signal_num, fresh, called, owner, mine, pc, bounds>>

Wait(t) ==
  /\ pc[t] = "in"
  /\ mutex \in {NoMutex, mine[t]}
  /\ mutex' = mine[t]
  /\ owner' = [owner EXCEPT ![mine[t]] = NoThread]
  /\ waiters' = waiters + 1
  /\ fresh' = fresh \cup {t}
  /\ Goto(t, "in", "w_futex")
  /\ UNCHANGED <<signal_num, called, mine, bounds>>

\* Sleep, or -EWOULDBLOCK because the word has changed.
FutexWait(t) ==
  /\ Goto(t, "w_futex", IF t \in fresh THEN "asleep" ELSE "w_check")
  /\ UNCHANGED <<cond, owner, mine, bounds>>

\* -EINTR goes back to FUTEX_WAIT without looking at the condition variable.
Interrupted(t) ==
  /\ bounds.signals > 0
  /\ bounds' = [bounds EXCEPT !.signals = @ - 1]
  /\ Goto(t, "asleep", "w_futex")
  /\ UNCHANGED <<cond, owner, mine>>

\* signal_num after thread t has come back: a pending signal is taken first,
\* even by a thread that a broadcast has called.
SignalsLeft(t) == IF signal_num > 0 THEN signal_num - 1 ELSE 0

\* Mutant of MayReturn: any wake-up will do.
MayReturnWoken(t) == TRUE

\* A waiter comes back on a signal or a broadcast.
MayReturn(t) == signal_num > 0 \/ t \in called

\* A waiter that has a signal or was called leaves; another one goes round the
\* loop, and FUTEX_WAIT is given the futex value it read at the start.
Check(t) ==
  /\ pc[t] = "w_check"
  /\ IF MayReturn(t)
     THEN /\ pc' = [pc EXCEPT ![t] = "relock"]
          /\ signal_num' = SignalsLeft(t)
          /\ waiters' = waiters - 1
          /\ mutex' = Bound(mutex, waiters - 1)
          /\ fresh' = fresh \ {t}
          /\ called' = called \ {t}
     ELSE /\ pc' = [pc EXCEPT ![t] = "w_futex"]
          /\ UNCHANGED cond
  /\ UNCHANGED <<owner, mine, bounds>>

Relock(t) ==
  /\ pc[t] = "relock"
  /\ owner[mine[t]] = NoThread
  /\ owner' = [owner EXCEPT ![mine[t]] = t]
  /\ Goto(t, "relock", "in")
  /\ UNCHANGED <<cond, mine, bounds>>

-----------------------------------------------------------------------------
Next == \E t \in Threads :
  \/ Lock(t) \/ Unlock(t) \/ Signal(t) \/ Broadcast(t)
  \/ Wait(t) \/ \E m \in Mutexes : WaitRefused(t, m)
  \/ FutexWait(t) \/ Interrupted(t) \/ Check(t) \/ Relock(t)

Spec == Init /\ [][Next]_vars

\* FUTEX_WAIT returns at once or sleeps, and some thread that waits for
\* cond->lock gets it; MaxSignals bounds the interrupted sleeps.  Nothing is assumed
\* of the program's mutexes.
FairSpec ==
  /\ Spec
  /\ \A t \in Threads : WF_vars(FutexWait(t))
  /\ WF_vars(\E t \in Threads : Check(t))

-----------------------------------------------------------------------------
\* Every variable has its type.
TypeOK ==
  /\ mutex \in Mutexes \cup {NoMutex}
  /\ waiters \in Nat /\ signal_num \in Nat
  /\ bounds \in [posts : 0 .. MaxPosts, signals : 0 .. MaxSignals]
  /\ fresh \subseteq Threads /\ called \subseteq Threads
  /\ owner \in [Mutexes -> Threads \cup {NoThread}]
  /\ mine \in [Threads -> Mutexes \cup {NoMutex}]
  /\ pc \in [Threads -> PC]

\* A thread that sleeps or will as soon as it calls FUTEX_WAIT.
Sleeping == {t \in Threads : pc[t] = "asleep" \/ (pc[t] = "w_futex" /\ t \in fresh)}

\* No lost signal: waiters counts the threads inside the wait, and for every signal
\* that nobody has come back on yet there is one that is awake and will look.
NoLostSignal ==
  /\ waiters = Cardinality(Waiting)
  /\ signal_num + Cardinality(Sleeping) <= waiters

\* No lost broadcast: a waiter that was there at a broadcast does not sleep.
NoLostBroadcast == called \cap Sleeping = {}

\* A condition variable has a mutex exactly while it has waiters, and it is the
\* mutex of each of them.
OneMutex ==
  /\ mutex = NoMutex <=> Waiting = {}
  /\ \A t \in Waiting : mine[t] = mutex

Abs == INSTANCE AbstractCond WITH waiting <- Waiting, signals <- signal_num

\* A wait does not return spuriously, whatever changes the futex word and ends the
\* sleep; and no signal survives the waiters it was sent to.
ImplementsAbstractCond == Abs!Spec

\* A signal is taken: while signals are pending, waiters come back.
SignalsTaken == signal_num > 0 ~> signal_num = 0
=============================================================================
