----------------------------- MODULE FutexLock ------------------------------
(***************************************************************************)
(* The low-level lock of tb-mutexes.c: tb_futex_lock, tb_futex_trylock and *)
(* tb_futex_unlock on one futex word.  It guards every shared structure of *)
(* the library (the heap, the thread descriptors' schedules, rwlocks,      *)
(* condition variables) and is the core of every mutex.                    *)
(*                                                                         *)
(* One action per atomic instruction or system call.  The kernel is        *)
(* modelled by what the code relies on: FUTEX_WAIT compares the word and   *)
(* puts the caller to sleep in one step, FUTEX_WAKE wakes one sleeper of   *)
(* its choice, and a signal handler interrupts a sleep at any time.        *)
(***************************************************************************)
EXTENDS Naturals

CONSTANT Threads

VARIABLES
  futex,  (* the lock word: 0 free, 1 taken                   *)
  pc      (* what each thread does next with this lock, below *)

vars == <<futex, pc>>

(***************************************************************************)
(* idle    outside the lock          held    in the critical section       *)
(* cas     about to try 0 -> 1       wake    word is 0, about to wake one  *)
(* wait    about to call FUTEX_WAIT  asleep  queued in the kernel          *)
(***************************************************************************)
PC == {"idle", "cas", "wait", "asleep", "held", "wake"}

Goto(t, from, to) ==
  /\ pc[t] = from
  /\ pc' = [pc EXCEPT ![t] = to]

Init ==
  /\ futex = 0
  /\ pc = [t \in Threads |-> "idle"]

-----------------------------------------------------------------------------
\* Mutant of TakeWord: the swap without the comparison.
SwapWord == futex' = 1

\* The successful outcome of __sync_bool_compare_and_swap(futex, 0, 1).
TakeWord == futex = 0 /\ futex' = 1

LockCall(t) == Goto(t, "idle", "cas") /\ UNCHANGED futex

LockCas(t) ==
  \/ TakeWord /\ Goto(t, "cas", "held")
  \/ futex # 0 /\ Goto(t, "cas", "wait") /\ UNCHANGED futex

\* Mutant of FutexWait: the kernel does not compare the word again.
SleepUnchecked(t) == Goto(t, "wait", "asleep") /\ UNCHANGED futex

\* FUTEX_WAIT with the expected value 1: sleep, or return at once (EWOULDBLOCK)
\* because the word has changed.  Either way the loop tries the swap again.
FutexWait(t) ==
  /\ \/ futex = 1 /\ Goto(t, "wait", "asleep")
     \/ futex # 1 /\ Goto(t, "wait", "cas")
  /\ UNCHANGED futex

\* A signal ends the sleep (EINTR); the loop does not look at the result.
Interrupted(t) == Goto(t, "asleep", "cas") /\ UNCHANGED futex

TryLock(t) ==
  \/ TakeWord /\ Goto(t, "idle", "held")
  \/ futex # 0 /\ Goto(t, "idle", "idle") /\ UNCHANGED futex  \* -EBUSY

\* Mutant of Unlock: the wake-up is forgotten.
UnlockNoWake(t) == Goto(t, "held", "idle") /\ futex' = 0

\* compare-and-swap 1 -> 0; the wake-up follows only when it succeeded.
Unlock(t) ==
  /\ Goto(t, "held", IF futex = 1 THEN "wake" ELSE "idle")
  /\ futex' = IF futex = 1 THEN 0 ELSE futex

FutexWake(t) ==
  /\ pc[t] = "wake"
  /\ LET asleep == {s \in Threads : pc[s] = "asleep"} IN
     \/ asleep = {} /\ pc' = [pc EXCEPT ![t] = "idle"]
     \/ \E s \in asleep : pc' = [pc EXCEPT ![t] = "idle", ![s] = "cas"]
  /\ UNCHANGED futex

-----------------------------------------------------------------------------
\* The steps a thread takes once it has started a call or holds the lock.
Step(t) == LockCas(t) \/ FutexWait(t) \/ Unlock(t) \/ FutexWake(t)

Next == \E t \in Threads : Step(t) \/ LockCall(t) \/ TryLock(t) \/ Interrupted(t)

Spec == Init /\ [][Next]_vars

\* Every thread that can run runs; a critical section is finite.  Nobody is
\* obliged to call lock, and no signal is obliged to arrive.
FairSpec == Spec /\ \A t \in Threads : WF_vars(Step(t))

-----------------------------------------------------------------------------
\* The word is 0 or 1 and every thread is at one of the six places.
TypeOK ==
  /\ futex \in {0, 1}
  /\ pc \in [Threads -> PC]

Holders == {t \in Threads : pc[t] = "held"}

Waiting == {t \in Threads : pc[t] \in {"cas", "wait", "asleep"}}

\* Two threads are never both between lock and unlock.
MutualExclusion == \A s, t \in Holders : s = t

\* The word says whether the lock is held: no unlock clears a word it did not
\* take, and no lock is granted without taking it.
WordTellsHolder == futex = 1 <=> Holders # {}

\* No lost wake-up: when the word is 0 and somebody sleeps on it, some thread
\* is still on its way to wake a sleeper or to take the word.
NoLostWakeup ==
  (futex = 0 /\ \E s \in Threads : pc[s] = "asleep")
    => \E t \in Threads : pc[t] \in {"cas", "wait", "wake"}

\* The inductive invariant behind the two.
IInv == TypeOK /\ MutualExclusion /\ WordTellsHolder /\ NoLostWakeup

Abs == INSTANCE AbstractLock WITH holders <- Holders, waiting <- Waiting

\* The lock implements the abstract lock, its progress property included: a
\* free lock with a waiter is eventually taken.
ImplementsAbstractLock == Abs!FairSpec
=============================================================================
