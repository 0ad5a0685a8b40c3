# Verification of thread-bites

thread-bites is a small POSIX-like threading library for Linux/x86-64 written
without libc: threads over `clone`, locks over `futex`, and on top of them
mutexes, read-write locks, condition variables, `once`, cancelation,
thread-local storage and scheduling. This directory holds TLA+ models of its
parts, the TLC configurations that check them on small instances, and proofs,
checked by TLAPS, about all of them for every instance. File and line
references are to the sources at the repository's root (`tb-*.c`, `tb*.h`).

Sections: the system, the plan, the modules, the runs, fairness, the proofs,
what was found, what is not modelled.

## The system

| Component | State | Operations | Interacts with |
|---|---|---|---|
| Futex lock (`tb-mutexes.c:86-106`) | one word, 0 or 1 | lock, trylock, unlock | the kernel's futex queue; used by everything below |
| Mutexes (`tb-mutexes.c`) | `futex`, `owner`, `counter`, type, protocol | lock, trylock, unlock, by type and protocol; ceiling | futex lock; scheduling, through `owner` |
| Threads (`tb-threads.c`) | `used_desc`, `free_desc` under `desc_mutex`; per descriptor `tid`, `join_status`, `joiner`, `start_status`, `retval` | create, start, exit, join, detach | the kernel (clone, the clearing of `tid`, futexes); cancelation; TLS at exit |
| Cancelation (`tb-cancel.c`) | `cancel_status` (four bits, changed by compare-and-swap), the handler stack | cancel, the SIGCANCEL handler, setcancelstate, setcanceltype, testcancel, push, pop | `desc_mutex`; `tbthread_exit` |
| Once (`tb-threads.c:422-473`) | the control word | once, once_cleanup | cancelation and handlers |
| Thread-local storage (`tb-tls.c`) | `keys[]` (sequence number, destructor), `tls[]` of each thread | create, delete, get, set, destructors at exit | exit |
| Read-write lock (`tb-rwlock.c`) | `writer`, `readers`, `writers_queued`, two futex words | rdlock, wrlock, their tries, unlock | futex lock |
| Condition variable (`tb-condvar.c`) | `mutex`, `waiters`, `signal_num`, `broadcast_seq`, a futex word | wait, signal, broadcast | futex lock; the caller's mutex |
| Scheduling (`tb-sched.c`) | `sched_info`, `user_sched_info`, the lists of priority mutexes | get, set, the protocols' hooks | the kernel's scheduler; mutexes, through `owner` |
| Heap and lists (`tb-utils.c`) | the chunk list under `memory_lock` | malloc, calloc, realloc, free, heap_state; list helpers | everybody |

What is hard here: every structure is shared by preemptive threads without a
memory-safe runtime; sleeps end for three reasons (a wake-up, a changed word, a
signal handler); the kernel writes to descriptors on its own (`tid`); a signal
may make a thread leave a function that never returns; and descriptors, slots
and words are recycled while others may still look at them. What makes each part
correct:

* locks exclude, lose no wake-up, and are taken again when they are free;
* a mutex's unguarded `owner` is right for the one thread that compares it with
  itself, and its counter is the depth of the holder;
* a descriptor is never lost, released twice, or reused under a running thread;
  join returns when the thread is gone, with its value; calls return;
* a cancelation is acted upon when the target allows it, never after its stack is
  gone; handlers run once; a thread that exits ends;
* one thread runs a once function, its cancelation lets another take over, and a
  completed function is never run again;
* keys do not share slots, and data reaches only its key and its destructor;
* a condition variable loses no signal or broadcast; writers are not starved;
* a thread runs at what its requests and its mutexes amount to, nobody waits for a
  thread of lower priority, and nothing of that is left when the mutexes are released;
* chunks of the heap do not overlap, have one holder or none, and blocks keep their
  contents.

`PROJECT.json` lists the hazards at their lines with the property that is after
each of them.

## Plan

The modules were written in this order, the ones others rest on first:

1. `FutexLock` and `AbstractLock`: the base.
2. `Mutex`, which implements `AbstractLock` again, one level up.
3. `Threads`: the life of a descriptor, the most intricate part.
4. `RwLock` and `CondVar`, on critical sections that (1) justifies, with `AbstractRwLock`
   and `AbstractCond`, which they implement.
5. `Cancel` and `Once` (which implements `AbstractOnce`), `Tls`.
6. `Sched`, the priorities that (2) leaves out, and `Heap`.
7. The proofs: `LockProofs` (futex lock and mutex), `RwLockProofs`, `CondVarProofs`,
   `CancelProofs` (cancelation and once), `TlsProofs`, `HeapProofs`, `ThreadsProofs`,
   `SchedProofs`. An invariant was checked by TLC before it was proved. No module uses a
   RECURSIVE operator.

Every safety property that a passing run checks is proved, the three refinements that
claim no progress among them.

## Modules

Each component has a module with its variables, one action per atomic
instruction, critical section or system call, and its properties; an `MC` module
with the sets TLC works on; and a `.cfg` per run. Operators named "Mutant of X" are
deliberate errors that no specification uses: each stands for a bug that the
property next to it in `PROJECT.json` detects when it replaces X.

**AbstractLock** is the promise: at most one holder, and a free lock with a
waiter is taken by someone. **FutexLock** implements it by the compare-and-swap
loop: `LockCas`, `FutexWait`, `TryLock`, `Unlock` (the swap to 0), `FutexWake`
(the system call after it), `Interrupted`. `Holders` and `Waiting` map its places
to the abstract state.

**Mutex** has `attr` (type and protocol) and the three fields. A call goes through
`Check` (the look at `owner`), `Take` (`TakeNone`, or under `internal_futex`
`TakeInherit`/`TakeFailed`), `Own`, `Count`; the unlock through `UnlockCall`,
`Disown`, `Free` or `FreeInherit`. `depth` is what the program has been granted. For
PRIO_NONE the futex lock is one step, `TakeNone`, which is `AbstractLock`'s
`Acquire`. PRIO_PROTECT locks in the same way as PRIO_NONE.

**Threads** has the lists and the fields of descriptors. Creation is `CreateReuse`
or `CreateNew` (the first critical section of `get_descriptor`), `CreateAdd` (the
second), `CreateInit`, `CreateClone`, `CreateStoreTid`, `CreateSched`,
`CreateWake`. `wait_for_thread` is `WaitRead`, `WaitFutex`, `WaitInterrupted` and
returns to the place in `after`. A creation without a guard page is `CreateUnguarded`. The
end of a thread is `ExitCall`, `ExitFix`, `Release`, then `KernelExit` (tid is cleared) and
`KernelWake`. Two histories: `handles` has the threads whose handle the program may still
use (it gives a handle up when its descriptor is recycled, as with pthreads), and `spoiled`
the descriptors on which one of five steps came too early for the code (see below).

**Cancel** has `cancel_status` as a set of bits and the handler stack. SIGCANCEL is
in `pending` from `CancelKill` until `Deliver`, which may happen between any two
steps of the thread. `tbthread_exit` begins with `EnterExit`, from user code, from
`testcancel`, or from the signal handler in the middle of anything, the mallocs and frees of
push and pop included (`PushAlloc` to `PopReturn`, with the heap's `memory_lock`).

**Once** follows `tbthread_once` line by line, the save and restore of the
cancelation state included; the calls of `Cancel` are one step each, a cancel
request is remembered in `canceling`, and `ActOnCancel` acts on it where the type of
the thread lets it, inside a tbthread_exit that the thread called by itself (`ExitCall`)
too: `again` has the threads whose `once_cleanup` is then called twice. It implements **AbstractOnce**: one thread at a time is in charge of
the function, and completes it for ever or gives it up. Who is in charge is read off the
places (`Executes`), whether it is completed off the control word.

**Tls** has `keys[]` and `tls[]`, and gives each creation an identity, which stands
for the key the program holds, for its destructor and for its data, so that mixing
them up is visible. `build` says how often the compiled macros read a sequence number: the
repository's default build (`CMakeLists.txt:8` sets `-g` and no optimisation) has
`LoadNew` and `LoadOld` between the test and the compare-and-swap. Creations and deletions
overlap in every way. `clashed` and `overtaken` record where that went wrong.

**RwLock** and **CondVar** have one action for what a call does under the futex lock
of the object, and one for `FUTEX_WAIT`. Futex words and sequence numbers are
replaced by the set of threads whose remembered value is still current. They implement
**AbstractRwLock** (readers share, a writer is alone, nobody begins to read while a writer is
queued) and **AbstractCond** (a wait returns for a signal or for a broadcast made while it
waited, and for nothing else; a signal is kept only while its waiters are there). Both
abstract specifications know threads and no words: neither the error returns of
FUTEX_WAIT nor a sleep that a signal handler ends is a step of theirs.

**Sched** has the four scheduling fields of a descriptor (`sched_info`,
`user_sched_info`, the two lists), the mutexes with `owner` and `ceiling`, and
`kernel`, what the kernel runs a thread at. `ComputeSched` is `tb_compute_sched`, by a
fold over the list with `Merge`; `Reschedule` adds `tb_set_sched`, whose system call
may fail. A PRIO_PROTECT mutex is locked by `LockProtect` and `ProtectSched`, unlocked by
`UnlockProtect`, `ProtectUnsched` and `Free`; `SetPrioCeiling` sits between the two. A
PRIO_INHERIT mutex is taken by `TakeInherit`, or waited for by `ReadSched` and `Boost`
(the two critical sections of `tb_inherit_mutex_sched`), `FutexWait`. Threads are created
with what their creator has (`CreateCopy`, `Clone`) or with any scheduling of their own
(`CreateExplicit`). Histories: `asked` is what the program was last granted, `boosted` has
the waiters that have passed what they run at on to the present owner, `uncomputed` the
threads whose scheduling does not come from `tb_compute_sched`, and `unsorted` those that
have changed the ceiling of a mutex they held.

**Heap** has the chunk list in the order of its addresses, `heap_limit`, and the memory
cell by cell: `Meta` in headers, a thread's mark where it wrote. `Malloc` gives the ways
a call may end; malloc and free are one action each (under `memory_lock`), calloc and
realloc two and three, and `tb_heap_state` (which takes no lock) one per read. `blocks`
is what the program holds and how much of each block it knows. A copy of realloc that
faults leads to `killed`, where everything stops.

### Where the code goes wrong

Some orders of steps, and some calls, are more than the code survives. Except for the four
events of `Cancel` at the end of this section they are all in the models, without a guard:
the step that makes the difference records in a history variable what it happened on, and
the properties say what stays true of everything else, or until then. The last column names
the property that TLC finds violated in the instance of its run when the exception is
struck out.

| Module, record | What happens | Where | Violated without the exception |
|---|---|---|---|
| Threads, `spoiled` (`JoinCall`) | a join is accepted between the two critical sections of the exit of a detached thread; both release the descriptor | `tb-threads.c:134-138` | ReleasesKnown |
| Threads, `spoiled` (`KernelExit`) | the creator stores `tid` after the kernel has cleared it; join, or the reuse of the descriptor, waits for ever | `:303` | CallsReturn |
| Threads, `spoiled` (`KernelWake`) | the kernel's wake-up for the last user of a descriptor ends the wait for the next, as any successful FUTEX_WAIT counts as the exit | `:165` | JoinGetsRetval |
| Threads, `spoiled` (`CreateWake`) | the same with the wake-up of a creator, which follows its store | `:313-314` | RunsOnlyWhenStarted |
| Threads, `spoiled` (`StartWait`) | a signal handler ends the only FUTEX_WAIT before the start | `:102` | RunsOnlyWhenStarted |
| Threads, null descriptor | mprotect fails, and `error` releases `*thread`, which is still null | `:254-258`, `:325` | ReleasesKnown |
| Cancel, `HeapLost` | a thread is canceled inside malloc or free, and `memory_lock` stays locked | `tb-cancel.c:121`, `:140` | ExitEnds |
| Once, `again` | a cancelation ends the tbthread_exit of an executor inside `once_cleanup`, which is then called again and takes the word from the next one | `tb-threads.c:422-427` | OneExecutor, ImplementsAbstractOnce |
| Tls, `clashed` | the default build reads the number again after the test, and another call has changed it: a creation releases a key, or two get the same | `tb-tls.c:42-43` | KeysDistinct |
| Tls, `overtaken` | the destructor is read from the slot after the test; in between it has become another key | `tb-tls.c:113` | OwnData |
| Sched, `uncomputed` | a thread runs as it was created to, or at what the kernel left when it refused something else | `tb-sched.c:36`, `tb-threads.c:282`, `:310` | RunsAsComputed, CeilingHonoured, RequestKept, NoInversion |
| Sched, `user_sched_info` is not `asked` | creation does not store it, and a request that the kernel refuses is stored all the same; the next release of a mutex computes from it | `tb-sched.c:206`, `:270` | RequestKept |
| Sched, `unsorted` | a holder changes the ceiling of its own mutex: nothing is computed, and the list is out of order | `tb-mutexes.c:444-450` | RunsAsComputed, CeilingHonoured |
| Sched, `c_unsched` | inside setprioceiling the list begins with the new ceiling, and another thread's setschedparam or boost computes from it | `tb-mutexes.c:450` | RunsAsComputed; CeilingHonoured with `Ceilings = {0, 1, 2}` |
| Sched, `boosted` (`StillCurrent`) | a waiter gets other scheduling after it has passed the old one on | `tb-sched.c:165` | NoInversion |
| Sched, `boosted` (`UnlockInherit`) | an unlock wakes one sleeper; the next owner has nothing of those that sleep on, nor of a waiter that falls asleep behind it | `tb-mutexes.c:244`, `:272` | NoInversion |
| Heap, `killed` | realloc copies as many bytes as were asked for, past the end of the old chunk and perhaps of the heap, or to the null pointer of a malloc that failed; realloc of a null pointer reads in front of address 0 | `tb-utils.c:351-353` | none: no property says that a call returns |

`DescriptorsConserved`, `HeapConsistent`, `ContentsKept` and `EntryFound` have no exception, nor
have the properties of the locks. The comments of
the code promise more in three of these cases: "make sure that the corresponding thread has
actually exited" (`tb-threads.c:184-185`), "so it's not going to go away" (`:395-396`) and
"before the user function executes" (`:276`).

`Cancel` has a constant `Allowed`, for uses of the library that its functions are not made
for: POSIX allows none of them. Its run admits none; adding one to the `.cfg` makes TLC show
what happens:

| Event | Violated | Where |
|---|---|---|
| `cancel_async`: tbthread_cancel is called with asynchronous cancelation enabled | ExitEnds | `tb-cancel.c:62`: a thread signals itself while it holds `desc_mutex` |
| `exit_async`, `handler_tests`: tbthread_exit is called with asynchronous cancelation enabled, or a handler tests while it is enabled | CleanupOnce | `tb-cancel.c:110`: a second `tbthread_exit` inside the first |
| `late_signal`: SIGCANCEL is delivered only when munmap returns | NoSignalOnGoneStack | `tb-threads.c:146` |

## Runs

| Run | Instance | Shows |
|---|---|---|
| `futex_lock` | 4 threads | mutual exclusion, no lost wake-up, refinement of AbstractLock with its progress |
| `mutex` | 3 threads, the 5 combinations of type and protocol, counter up to 3 | the owner field, the counter at its limit, refinement of AbstractLock |
| `threads` | main and 3 threads that all create, join and detach; 2 descriptors, until both are spoiled | six invariants of descriptors, joins, starts and sleepers |
| `threads_live` | main creates 2 threads | calls return, threads end |
| `rwlock` | 4 threads, 2 interrupted sleeps | exclusion, counting, no lost wake-up, refinement of AbstractRwLock, writers get in |
| `condvar` | 4 threads, 2 mutexes, 4 posts, 1 interrupted sleep | signals, broadcasts, the bound mutex, refinement of AbstractCond, signals are taken |
| `cancel` | 2 threads, 2 handlers, 2 cancel calls, 2 pushes | lost, late and repeated cancelations, handlers, the end of exits |
| `once` | 3 threads, 2 of them canceled at any time, each type and state | one executor, refinement of AbstractOnce, calls return |
| `tls` | 3 threads, 2 slots, 2 creations, both builds | slots, reuse, destructors |
| `sched` | main and 2 threads, 2 PRIO_PROTECT and 2 PRIO_INHERIT mutexes, two of them in use at a time, ceilings 0 and 2, requests for SCHED_NORMAL 0, SCHED_RR 2 and the invalid SCHED_NORMAL 2 | what threads run at, inversion, ceilings, the entries waiters look for, requests |
| `heap` | 2 threads with a block each, requests of 5 and 21 bytes, words of 2, two pages of 24; realloc of anything to anything | chunks, contents, the unlocked count |
| `mutex_recursive_inherit` | the combination admitted | the finding below |

The runs leave out the type invariants, which are theorems about their instances
(`TypeCorrect` of the proof module).

Why the bounds are enough for the interesting cases: a lost wake-up of a lock needs
a holder, a sleeper, a thread between its look and its sleep, and a newcomer, which
is four threads. A descriptor must be used, freed, reused and named by an old
waiter: three threads over two descriptors reuse one while the others join, and one
descriptor can be spoiled while the other is whole (`SomeDescriptorWhole` ends the search
when neither is: only `DescriptorsConserved` still speaks then, and it is proved). The
recursion counter reaches its limit with three nested locks. A thread can be canceled
once (`CANCELING` is never cleared), so two calls reach both threads or the second
finds the first's mark. Two creations in two slots overlap in one slot, or the second
reuses it while data of the first is still stored or being destroyed. Nested inheritance needs a thread that waits for one mutex and holds another
that a third waits for; equal priorities of SCHED_FIFO (a ceiling) and SCHED_RR (a request)
need the ceiling 2. `TwoMutexesInUse` keeps the search of `sched` to two mutexes at a time,
ceilings to where they are of interest, and three threads to the PRIO_INHERIT mutexes with
one request and one refusal: two threads are enough for the ceilings, as only the thread
that computes and the one that holds matter. What three threads do with all of it at once
is left to the proofs. Two pages and requests below and near the size of a page split a
chunk, give one out whole, extend the heap, reuse a freed chunk and run out of memory.
Bounds that are not in the code: `MaxCounter` (2^64-1), `MaxPosts`,
`MaxSignals`, `MaxCancels`, `MaxPushes`, `MaxCreates`, `MaxKeys` (1024), `Descs`, `Tids`, `Top` and
`MaxBlocks`. Where symmetry is used, no definition tells the members of the set apart
and the run has no temporal property.

Deadlock is checked for the futex lock, the mutex, the read-write lock and the heap. It is
not for Threads, Cancel, Once and Tls, where all threads may have ended, nor for CondVar,
where everybody may wait for a signal that the program never sends, nor for Sched, whose
programs may lock two mutexes in either order.

## Fairness

Weak fairness of the steps of a thread inside a library call: the kernel
schedules threads that can run. Nothing is assumed of threads in user code, except
where a property needs it and says so: holders unlock (`FutexLock`, `Mutex`, `RwLock`),
user functions return (`Threads`, `Once`). Weak fairness is not assumed of an
individual thread that competes for a futex lock, since `tb_futex_unlock` lets newcomers
overtake the threads it wakes: `Mutex`, `RwLock` and `CondVar` only assume what
`AbstractLock!FairSpec` says, that some competitor gets it. `Cancel` and `Threads`
take `desc_mutex` a bounded number of times, so there it comes to the same.
Signals that interrupt a sleep have no fairness, and where they could keep a loop
going for ever their number is bounded.

## Proofs

Each proof module defines an inductive invariant, proves that the initial states have
it and every step keeps it (a lemma per action or group of actions), and reads the
theorems off it. They hold for every value of the constants that the module's
`ConstantsAssumption` admits. Four hypotheses on constants are more than that, and stand in
the theorem's ASSUME: `AttributesUsable` of the mutex, `Careful`, `SignalsInTime` and
`QuietHandlers` of cancelation (the table of `Allowed` above), and `VictimsKnown` of once,
which only says that `Guarded` and `Victims` are sets of the right kind. Where the code goes
wrong is no hypothesis of the others: the steps are in the specification, and the property
says which descriptors, slots or threads it still speaks of.

* **LockProofs**, the futex lock (`Word!`, for every set of threads, finite or not):
  `WordTypeCorrect`, `WordExclusion` and `WordWakeupKept`. Mutual exclusion is not
  inductive alone: a successful swap breaks it unless a free word means that nobody
  holds the lock, which is `WordTellsHolder`. `NoLostWakeup` needs the same fact at the
  unlock, which must find 1 in the word, or no wake-up would follow. `WordRefinement`:
  `Spec => Abs!Spec`, each action mapped to the abstract step of its kind or a stutter.
* **LockProofs**, the mutex: `OwnerTruthful`, `CounterTruthful`, `UnschedSafe`, `Refinement`,
  under `AttributesUsable` (no mutex is recursive and PRIO_INHERIT, the combination of the
  finding below). `owner` alone is not inductive: it is tied to the places between its
  store and its removal, to the word, and to the depth the program was granted.
* **ThreadsProofs** (any threads, creators and descriptors): `NoDescriptorLost`,
  `NoUnknownRelease`, `NoSharedDescriptor`, `JoinResult`, `StartOrdered`, `NobodyForgotten`.
  No property is inductive, and none can be proved alone: whether a creation may reuse a
  descriptor depends on what the kernel still does to the last thread on it, and whether that thread's descriptor is released once depends on the
  statuses that a join, a detach and an exit leave. `AllInv` says for each actor what it
  may assume of the descriptor it works on, by its role (it has the descriptor in its
  hand, it has listed it, it has cloned a thread on it, that thread failed, it joins).
  All of this is said of sound descriptors only (`Sound`: not in `spoiled`), except where the
  descriptors are: the lists stay in order whatever happens. So the proof of each step also
  shows that what goes wrong with one descriptor does not spread to the next.
  The parts are where a call returns to (`PlacesInv`), where descriptors are (`ListsInv`),
  who runs on them (`ThreadsInv`), what `tid` says (`TidInv`), the two kinds of calls
  (`CreateInv`, `JoinInv`), what a handle may still be used for (`HandlesInv`) and the
  statuses (`StatusInv`). `NobodyForgotten` is the safety half of the return of join and
  create: with `AllInv`, `SleepInv` (a sleeper's remembered tid is that of a thread on its
  descriptor which is not past the kernel's wake-up; a thread told to wait has a creator
  that has not stored `start_status`) gives that two sleepers on one descriptor would wait
  for the same thread, hence be one, so that the single FUTEX_WAKE reaches whom it must.
* **SchedProofs** (any threads, mutexes, requests and ceilings), in three layers, without
  hypotheses. `StructureInv`: the lists name exactly the mutexes a thread owns, each once,
  and an entry is there for whom `tb_inherit_mutex_boost` looks it up (`EntryAlwaysFound`).
  `ClaimsInv` gives `SchedulingComputed`, `RequestRestored` and `CeilingsKept`: `sched_info`
  is what *all* claims amount to, although `tb_compute_sched` takes the first ceiling only
  and is not called at every change. It needs that the fold over the list is the maximum of
  what it goes through, with SCHED_FIFO winning a tie (`FoldSteps`, `MergeAmounts`,
  `InheritedAmounts`, `ComputedAmounts`), that the list of ceilings is in order unless its
  thread is in `unsorted` (`InsertOrdered`), and that an entry that is dropped without a
  recomputation was not the greatest (`DropOther`). A thread enters `uncomputed` and
  `unsorted` at one step each and leaves them at the next computation and at the last
  release, so the invariant must be found true again of a thread that comes back
  (`Rescheduled`). That setprioceiling leaves a gap (`Leading`) was found when `CeilingsKept`
  could not be proved without it. `WaiterInv` gives `InversionAvoided`: what a waiter in
  `boosted` has passed on is in the owner's list as long as it waits, whatever others do.
* **RwLockProofs** and **CondVarProofs** (finite sets of threads): counting. The
  fields are cardinalities of sets of threads, and each critical section moves one
  thread in or out. For the condition variable the sleepers are among the waiters, and a
  thread that comes back leaves both counts with the signal it takes. `Refinement` of each:
  `Spec => Abs!Spec`, where the counting decides the guards. A reader is let in only if no
  writer is queued because `writers_queued` is the number of those at the writers' places,
  and a signal counts only if a waiter is left for it because `waiters` is their number.
* **TlsProofs**: `KeysApart`, `DataApart`. A slot in use that is not in `clashed` has one
  owner, a key or a call (`Own`); what a compare-and-swap expects is the truth whenever it can
  succeed, or the slot joins `clashed` with the store (`Loaded`); data whose sequence number is
  the slot's is the key's own (`Data`). A clash stays within its slot.
* **CancelProofs**: `CancelKept` under `Careful` (no call of tbthread_cancel or
  tbthread_exit with asynchronous cancelation enabled), `StackThere` under
  `SignalsInTime` too, `HandlersOnce` under `QuietHandlers` too. The heart is `DeafInside`:
  a thread inside tbthread_cancel or tbthread_exit ignores SIGCANCEL, either because its
  type or state says so or because it is canceled already; so the canceler that sees it
  at its end under `desc_mutex` never sends it a signal, and nothing takes a thread out
  of a critical section. For once (`Once!`): `ExecutorAlone`, and
  `OnceRefinement` (`Spec => Abs!Spec` for AbstractOnce), both until `again` has a thread; the
  invariant says where `once_cleanup` is: on the stack of the executor from the push to the
  pop, and later only on that of a thread that ends.
* **HeapProofs** (every alignment, page size, set of requests): `HeapSound` and `NoOverlap`.
  That two blocks do not overlap follows from three facts that are inductive only
  together: chunks tile the heap, lie in the order of their addresses, and are marked as
  used exactly when somebody holds them.  On these rests `MemoryInv`: what malloc, calloc,
  realloc, free and the program write lies in one chunk and so changes nothing in another,
  and between the copy and the free of a realloc the contents are there twice. It gives
  `ContentsAlways`. `WalkInv` gives `StateSound` for `tb_heap_state`, which takes no lock: malloc and free only ever split
  and append chunks (`Longer`), so the chunks behind the cursor stay behind it, those
  ahead of it stay ahead, and a block in use all the time is counted when the cursor
  passes it, or is still to be counted (`UpTo`).

Model-checked only: liveness under fairness (`ImplementsAbstractLock` beyond its safety part,
`CallsReturn`, `WriterGetsIn`, `SignalsTaken`, `ExitEnds`), as the proof system does not
reason about ENABLED. The theorems about the futex lock and once name their properties
through an instance (`Word!`, `Once!`): one proof module serves two components there.

## Findings

* **The last unlock of a recursive PRIO_INHERIT mutex follows a null owner**
  (`mutex_recursive_inherit`). `unlock_recursive` clears `owner` before
  `tb_inherit_mutex_unsched` takes the owner's lock.

The table in "Where the code goes wrong" has what the code gets wrong without a doc or a
comment that says otherwise in so many words. Most of its rows need nothing but an unlucky
schedule (the join inside an exit, the late store of `tid`, the two late wake-ups, the keys
that clash, the destructor read late, the sleepers left behind at an unlock), and some a
plain call: a thread created with a real-time policy, as in `test-09-scheduling.c:110-116` and
`test-10-priority-mutex.c:230-260`, loses it when it first unlocks a PRIO_PROTECT mutex, or a
PRIO_INHERIT mutex that counted; a holder may raise the ceiling of its own mutex; a growing
`realloc` reads behind the old block, and near the end of the heap behind the heap limit. The
others need a signal handler, a cancelation or a failing system call. The initial thread is in no list of descriptors, so it
cannot set its own scheduling parameters: `Known` leaves it out.

## Not modelled

* A malloc that fails for a list node of `tb_protect_mutex_sched` (`tb-sched.c:59-61`) or
  `tb_inherit_mutex_add` (`:107-115`): the mutex is then held without being listed. A thread
  that locks a normal mutex it holds: it waits for ever. (A recursive one is only counted.)
* Linked lists: pointer code called under its clients' locks; the models use sets
  and sequences. `Sched` has the functions by which its lists are searched and sorted.
* `tb-clone.S`, `tb-signal-trampoline.S`, system call wrappers, printing, error names,
  signal set-up: no state of their own beyond the kernel's. What the kernel does for
  the code is part of each module.
* Initialisation and finalisation: before and after all threads.
* The result of `tbthread_cond_wait` (`tb-condvar.c:112` returns that of the last
  FUTEX_WAIT), and which of the waiters a signal reaches when a waiter released by a
  broadcast takes it first (`:88`).
* Sizes and addresses near 2^64 (`tb-utils.c:241`), where the rounding wraps; 2^31
  broadcasts (`tb-condvar.c:78` keeps a 64-bit sequence number in an int).
* Attribute setters: they write a private struct. Argument checks that return
  -EINVAL at once for a null pointer or an unknown constant.
* Memory order weaker than sequential consistency: the target is x86-64, where
  plain stores are seen in order, and the code uses locked instructions.
* The numbers of futex words and sequence counters (they wrap after 2^32 steps).
* Cleanup handlers left behind by a once function: `tbthread_cleanup_pop` then pops the
  wrong one (`tb-threads.c:454`). Once functions of the model pop what they push.
