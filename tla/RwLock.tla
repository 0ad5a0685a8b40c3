------------------------------- MODULE RwLock -------------------------------
(***************************************************************************)
(* The read-write lock of tb-rwlock.c.  rwlock->lock is the futex lock of  *)
(* module FutexLock, so what a call does between tb_futex_lock and         *)
(* tb_futex_unlock is one action, the FUTEX_WAKE it makes included.        *)
(*                                                                         *)
(* rd_futex and wr_futex are only ever compared for equality with a value  *)
(* read earlier.  The model keeps, instead of the two 32-bit numbers, the  *)
(* set "current" of threads whose sleep_status is still the value of the   *)
(* word; the two agree as long as a word is not incremented 2^32 times     *)
(* between a thread's unlock and its FUTEX_WAIT.                           *)
(***************************************************************************)
EXTENDS Integers, FiniteSets

CONSTANTS
  Threads,
  NoThread,  \* a null tbthread_t
  MaxSignals \* bounds how many sleeps are interrupted by signal handlers

ASSUME ConstantsAssumption ==
  /\ IsFiniteSet(Threads)
  /\ NoThread \notin Threads
  /\ MaxSignals \in Nat

VARIABLES
  writer, readers, writers_queued,  (* the fields of tbthread_rwlock_t          *)
  current,                          (* whose sleep_status equals the futex word *)
  pc,
  signals                           (* how many signals the bound still admits  *)

vars == <<writer, readers, writers_queued, current, pc, signals>>

(***************************************************************************)
(* rd_try    about to lock and look, in rdlock                             *)
(* rd_wait   about to call FUTEX_WAIT on rd_futex;  rd_asleep  in it       *)
(* wr_call   about to lock and look, in wrlock, queued = 0                 *)
(* wr_retry  the same with queued = 1; wr_wait, wr_asleep as for readers   *)
(***************************************************************************)
PC == {"idle", "rd_try", "rd_wait", "rd_asleep", "reading",
       "wr_call", "wr_retry", "wr_wait", "wr_asleep", "writing"}

At(places) == {t \in Threads : pc[t] \in places}

Goto(t, from, to) == pc[t] = from /\ pc' = [pc EXCEPT ![t] = to]

Init ==
  /\ writer = NoThread /\ readers = 0 /\ writers_queued = 0
  /\ current = {}
  /\ pc = [t \in Threads |-> "idle"]
  /\ signals = MaxSignals

-----------------------------------------------------------------------------
(* tbthread_rwlock_rdlock and tbthread_rwlock_tryrdlock                    *)

ReadCall(t) ==
  /\ Goto(t, "idle", "rd_try")
  /\ UNCHANGED <<writer, readers, writers_queued, current, signals>>

\* Mutant of MayRead: queued writers do not hold readers back.
MayReadPastWriters == writer = NoThread

\* Readers wait for the writer and for the writers that wait.
MayRead == writer = NoThread /\ writers_queued = 0

ReadTry(t) ==
  \/ /\ MayRead
     /\ readers' = readers + 1
     /\ Goto(t, "rd_try", "reading")
     /\ UNCHANGED <<writer, writers_queued, current, signals>>
  \/ /\ ~MayRead
     /\ Goto(t, "rd_try", "rd_wait")
     /\ current' = current \cup {t}
     /\ UNCHANGED <<writer, readers, writers_queued, signals>>

TryRead(t) ==
  /\ MayRead                             \* otherwise -EBUSY
  /\ readers' = readers + 1
  /\ Goto(t, "idle", "reading")
  /\ UNCHANGED <<writer, writers_queued, current, signals>>

-----------------------------------------------------------------------------
(* tbthread_rwlock_wrlock and tbthread_rwlock_trywrlock                    *)

WriteCall(t) ==
  /\ Goto(t, "idle", "wr_call")
  /\ UNCHANGED <<writer, readers, writers_queued, current, signals>>

\* Mutant of MayWrite: the readers are forgotten.
MayWriteDespiteReaders == writer = NoThread

MayWrite == writer = NoThread /\ readers = 0

\* Mutant of Queued: the writer queues again each time round the loop.
QueuedAgain(t) == writers_queued + 1

\* Mutant of Queued: the writer leaves a queue it has not joined.
QueuedNever(t) == writers_queued

\* The writers in the queue once thread t, in wrlock, has joined it.
Queued(t) == writers_queued + (IF pc[t] = "wr_call" THEN 1 ELSE 0)

WriteTry(t) ==
  /\ pc[t] \in {"wr_call", "wr_retry"}
  /\ \/ /\ MayWrite
        /\ writer' = t
        /\ writers_queued' = Queued(t) - 1
        /\ pc' = [pc EXCEPT ![t] = "writing"]
        /\ UNCHANGED <<readers, current, signals>>
     \/ /\ ~MayWrite
        /\ writers_queued' = Queued(t)
        /\ pc' = [pc EXCEPT ![t] = "wr_wait"]
        /\ current' = current \cup {t}
        /\ UNCHANGED <<writer, readers, signals>>

\* A writer that tries overtakes the writers that wait.
TryWrite(t) ==
  /\ MayWrite                            \* otherwise -EBUSY
  /\ writer' = t
  /\ Goto(t, "idle", "writing")
  /\ UNCHANGED <<readers, writers_queued, current, signals>>

-----------------------------------------------------------------------------
(* FUTEX_WAIT: sleep, or return at once because the word has changed; every *)
(* return goes round the loop.                                             *)

FutexWait(t) ==
  /\ \/ t \in current /\ Goto(t, "rd_wait", "rd_asleep")
     \/ t \in current /\ Goto(t, "wr_wait", "wr_asleep")
     \/ t \notin current /\ Goto(t, "rd_wait", "rd_try")
     \/ t \notin current /\ Goto(t, "wr_wait", "wr_retry")
  /\ current' = current \ {t}
  /\ UNCHANGED <<writer, readers, writers_queued, signals>>

Interrupted(t) ==
  /\ signals > 0
  /\ signals' = signals - 1
  /\ Goto(t, "rd_asleep", "rd_try") \/ Goto(t, "wr_asleep", "wr_retry")
  /\ UNCHANGED <<writer, readers, writers_queued, current>>

-----------------------------------------------------------------------------
(* tbthread_rwlock_unlock                                                  *)

\* Increment wr_futex and wake one writer.
WakeWriter(t) ==
  /\ current' = current \ At({"wr_wait"})
  /\ IF At({"wr_asleep"}) = {}
     THEN pc' = [pc EXCEPT ![t] = "idle"]
     ELSE \E s \in At({"wr_asleep"}) :
            pc' = [pc EXCEPT ![t] = "idle", ![s] = "wr_retry"]

\* Mutant of WakeReaders: wakes the sleepers but does not increment rd_futex.
WakeSleepersOnly(t) ==
  /\ pc' = [s \in Threads |-> IF s = t THEN "idle"
                              ELSE IF pc[s] = "rd_asleep" THEN "rd_try" ELSE pc[s]]
  /\ UNCHANGED current

\* Increment rd_futex and wake all readers.
WakeReaders(t) ==
  /\ current' = current \ At({"rd_wait"})
  /\ pc' = [s \in Threads |-> IF s = t THEN "idle"
                              ELSE IF pc[s] = "rd_asleep" THEN "rd_try" ELSE pc[s]]

LastReader == readers = 1

\* The code tells a writer's unlock from a reader's by rwlock->writer, not by
\* the caller.
Unlock(t) ==
  /\ pc[t] \in {"reading", "writing"}
  /\ IF writer # NoThread
     THEN /\ writer' = NoThread
          /\ IF writers_queued > 0 THEN WakeWriter(t) ELSE WakeReaders(t)
          /\ UNCHANGED readers
     ELSE /\ readers' = readers - 1
          /\ IF LastReader /\ writers_queued > 0
             THEN WakeWriter(t)
             ELSE pc' = [pc EXCEPT ![t] = "idle"] /\ UNCHANGED current
          /\ UNCHANGED writer
  /\ UNCHANGED <<writers_queued, signals>>

-----------------------------------------------------------------------------
\* The steps that need rwlock->lock, taken by a thread that waits for it.
Section(t) == ReadTry(t) \/ WriteTry(t) \/ Unlock(t)

Next == \E t \in Threads :
  \/ Section(t) \/ FutexWait(t) \/ Interrupted(t)
  \/ ReadCall(t) \/ TryRead(t) \/ WriteCall(t) \/ TryWrite(t)

Spec == Init /\ [][Next]_vars

\* Some thread that waits for rwlock->lock gets it (what AbstractLock!FairSpec
\* promises: not each of them does), system calls return, holders unlock.  Since
\* MaxSignals bounds the signals, a sleep is not interrupted for ever.
FairSpec ==
  /\ Spec
  /\ WF_vars(\E t \in Threads : Section(t))
  /\ \A t \in Threads : WF_vars(FutexWait(t))

-----------------------------------------------------------------------------
\* Every variable has its type.
TypeOK ==
  /\ writer \in Threads \cup {NoThread}
  /\ readers \in Nat
  /\ writers_queued \in Nat
  /\ signals \in 0 .. MaxSignals
  /\ current \subseteq Threads
  /\ pc \in [Threads -> PC]

\* A writer is alone.
Exclusion ==
  \A s, t \in Threads : pc[s] = "writing" /\ pc[t] \in {"reading", "writing"} => s = t

\* The fields count the threads: nobody is forgotten or counted twice when a
\* wake-up, a failed attempt or a signal sends a thread round the loop.
CountsAgree ==
  /\ readers = Cardinality(At({"reading"}))
  /\ writers_queued = Cardinality(At({"wr_retry", "wr_wait", "wr_asleep"}))
  /\ \A t \in Threads : writer = t <=> pc[t] = "writing"

\* A thread that sleeps on its futex or will as soon as it calls FUTEX_WAIT.
Sleeps(t, wait, asleep) == pc[t] = asleep \/ (pc[t] = wait /\ t \in current)

\* No lost wake-up.  While a reader sleeps, a writer holds the lock or waits for
\* it, whose unlock will wake the readers.  When the lock is free and writers are
\* queued, one of them is awake.
NoLostWakeup ==
  /\ (\E t \in Threads : Sleeps(t, "rd_wait", "rd_asleep"))
       => writer # NoThread \/ writers_queued > 0
  /\ (MayWrite /\ writers_queued > 0)
       => \E t \in Threads : \/ pc[t] = "wr_retry"
                             \/ pc[t] = "wr_wait" /\ t \notin current

Abs == INSTANCE AbstractRwLock WITH
  reading <- At({"reading"}),
  writing <- At({"writing"}),
  queue   <- At({"wr_retry", "wr_wait", "wr_asleep"})

\* What the fields decide is what the threads observe: no interleaving of the
\* critical sections, the sleeps and the signals admits a reader past a queued
\* writer, a writer past anybody, or loses a writer from the queue.
ImplementsAbstractRwLock == Abs!Spec

\* Writers are preferred: a waiting writer gets in whatever the readers do.
WriterGetsIn == writers_queued > 0 ~> writer # NoThread
=============================================================================
