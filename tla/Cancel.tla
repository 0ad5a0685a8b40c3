------------------------------- MODULE Cancel -------------------------------
(***************************************************************************)
(* Cancelation and cleanup handlers (tb-cancel.c), up to the end of        *)
(* tbthread_exit (tb-threads.c).  Every thread may cancel every thread.    *)
(*                                                                         *)
(* A compare-and-swap loop on cancel_status is the one step of its last    *)
(* round.  SIGCANCEL is pending from tgkill until the handler runs; the    *)
(* handler may run between any two steps of the thread, and before the     *)
(* thread goes on after a system call.                                     *)
(***************************************************************************)
EXTENDS Naturals, Sequences

CONSTANTS
  Threads,
  NoThread, NoHandler,
  Handlers,    \* the cleanup handlers, of which a thread has each on its list once
  MaxCancels,  \* bounds the calls of tbthread_cancel
  MaxPushes,   \* bounds the calls of tbthread_cleanup_push
  Allowed      \* the adverse events a run admits, a subset of Uses

\* cancel_async    calls tbthread_cancel with asynchronous cancelation enabled
\* exit_async      calls tbthread_exit with asynchronous cancelation enabled
\* handler_tests   calls testcancel in a cleanup handler, in a thread that called
\*                 tbthread_exit with cancelation enabled
\* late_signal     gets SIGCANCEL so late that no system call of tbthread_exit
\*                 before munmap delivered it
Uses == {"cancel_async", "exit_async", "handler_tests", "late_signal"}

ASSUME ConstantsAssumption ==
  /\ NoThread \notin Threads
  /\ NoHandler \notin Handlers
  /\ MaxCancels \in Nat
  /\ MaxPushes \in Nat
  /\ Allowed \subseteq Uses

VARIABLES
  status,      (* cancel_status, as the set of its bits                       *)
  pending,     (* the threads with a pending SIGCANCEL                        *)
  desc_mutex,  (* its holder                                                  *)
  pc,
  target,      (* the thread that a tbthread_cancel in progress is about      *)
  stack,       (* cleanup_handlers, the one pushed last in front              *)
  walked,      (* how many of them tb_call_cleanup_handlers has called        *)
  ran,         (* history: the handlers that ran at the end of the thread     *)
  memory_lock, (* the lock of the heap: its holder                            *)
  elem,        (* the handler that a push or a pop in progress has in hand    *)
  pushes,      (* how many pushes the bound still admits                      *)
  cancels      (* how many cancelations the bound still admits                *)

heapVars == <<memory_lock, elem, pushes>>
vars == <<status, pending, desc_mutex, pc, target, stack, walked, ran, heapVars, cancels>>
exitVars == <<stack, walked, ran, heapVars>>

Bits == {"enabled", "deferred", "canceling", "canceled"}

(***************************************************************************)
(* run        user code                test       about to testcancel      *)
(* p_alloc    a push inside malloc     p_link     about to link the handler*)
(* o_call     a pop calls the handler  o_free     about to free it         *)
(* o_unlock   a pop inside free                                            *)
(* c_lock     in tbthread_cancel, about to lock desc_mutex                 *)
(* c_mark     about to set CANCELING   c_kill     about to tgkill          *)
(* c_unlock   about to unlock          ret        user function returned   *)
(* handlers   calling the handlers     h_test     a handler testcancels    *)
(* lock       about to lock            unlock     in the critical section  *)
(* munmap     about to drop the stack  exit       the stack is gone        *)
(***************************************************************************)
CancelPlaces == {"c_lock", "c_mark", "c_kill", "c_unlock"}
ExitPlaces == {"handlers", "h_test", "lock", "unlock", "munmap", "exit"}
UserPlaces == {"run", "p_alloc", "p_link", "o_call", "o_free", "o_unlock"}
PC == CancelPlaces \cup ExitPlaces \cup UserPlaces \cup {"test", "ret", "dead", "crashed"}

Goto(t, from, to) == pc[t] = from /\ pc' = [pc EXCEPT ![t] = to]

With(t, bit) == status' = [status EXCEPT ![t] = @ \cup {bit}]
Without(t, bit) == status' = [status EXCEPT ![t] = @ \ {bit}]

Async(s) == "enabled" \in s /\ "deferred" \notin s

Init ==
  /\ status = [t \in Threads |-> {"enabled", "deferred"}]
  /\ pending = {}
  /\ desc_mutex = NoThread
  /\ pc = [t \in Threads |-> "run"]
  /\ target = [t \in Threads |-> NoThread]
  /\ stack = [t \in Threads |-> <<>>]
  /\ walked = [t \in Threads |-> 0]
  /\ ran = [t \in Threads |-> <<>>]
  /\ memory_lock = NoThread
  /\ elem = [t \in Threads |-> NoHandler]
  /\ pushes = MaxPushes
  /\ cancels = MaxCancels

-----------------------------------------------------------------------------
(* tbthread_setcancelstate, tbthread_setcanceltype, tbthread_testcancel    *)

SetState(t) ==
  /\ \/ With(t, "enabled") /\ Goto(t, "run", "test")
     \/ Without(t, "enabled") /\ Goto(t, "run", "run")
  /\ UNCHANGED <<pending, desc_mutex, target, exitVars, cancels>>

\* Mutant of AfterType: a cancelation that came before the change is not noticed.
AfterTypeRun == "run"

\* Both types test for a cancelation that is already requested.
AfterType == "test"

SetType(t) ==
  /\ With(t, "deferred") \/ Without(t, "deferred")
  /\ Goto(t, "run", AfterType)
  /\ UNCHANGED <<pending, desc_mutex, target, exitVars, cancels>>

\* User code calls testcancel; a cleanup handler does in CallHandler, or where a pop
\* calls it.
TestCall(t) ==
  /\ Goto(t, "run", "test")
  /\ UNCHANGED <<status, pending, desc_mutex, target, exitVars, cancels>>

\* Mutant of MayCancel: a thread that is canceled already is canceled again.
MayCancelAgain(s) == {"enabled", "canceling"} \subseteq s

MayCancel(s) == {"enabled", "canceling"} \subseteq s /\ "canceled" \notin s

\* tbthread_exit begins, perhaps inside another call that never returns.
EnterExit(t) ==
  /\ pc' = [pc EXCEPT ![t] = "handlers"]
  /\ walked' = [walked EXCEPT ![t] = 0]

Test(t) ==
  /\ pc[t] \in {"test", "h_test", "o_call"}
  /\ IF MayCancel(status[t])
     THEN With(t, "canceled") /\ EnterExit(t)
     ELSE /\ Goto(t, "test", "run") \/ Goto(t, "h_test", "handlers")
          /\ UNCHANGED <<status, walked>>
  /\ UNCHANGED <<pending, desc_mutex, target, stack, ran, heapVars, cancels>>

\* tb_cancel_handler.  The kernel cannot run it on a stack that is gone.
Deliver(t) ==
  /\ t \in pending
  /\ pending' = pending \ {t}
  /\ IF pc[t] = "exit"
     THEN pc' = [pc EXCEPT ![t] = "crashed"] /\ UNCHANGED <<status, walked>>
     ELSE IF "deferred" \notin status[t] /\ MayCancel(status[t])
     THEN With(t, "canceled") /\ EnterExit(t)
     ELSE UNCHANGED <<status, pc, walked>>
  /\ UNCHANGED <<desc_mutex, target, stack, ran, heapVars, cancels>>

-----------------------------------------------------------------------------
(* tbthread_cancel                                                         *)

\* Mutant of Unlock: a path out of the function leaves the mutex locked.
UnlockForgotten == UNCHANGED desc_mutex

Unlock == desc_mutex' = NoThread

CancelCall(t) ==
  /\ cancels > 0
  /\ Async(status[t]) => "cancel_async" \in Allowed
  /\ Goto(t, "run", "c_lock")
  /\ \E u \in Threads : target' = [target EXCEPT ![t] = u]
  /\ cancels' = cancels - 1
  /\ UNCHANGED <<status, pending, desc_mutex, exitVars>>

CancelLock(t) ==
  /\ Goto(t, "c_lock", "c_mark")
  /\ desc_mutex = NoThread
  /\ desc_mutex' = t
  /\ UNCHANGED <<status, pending, target, exitVars, cancels>>

\* A thread that will not look by itself gets SIGCANCEL.
NeedsSignal(s) == Async(s)

\* A thread that is no longer in used_desc is not touched; one that exited but
\* was not joined yet is (its bits no longer matter).
CancelMark(t) ==
  LET old == status[target[t]] IN
  /\ pc[t] = "c_mark"
  /\ IF "canceling" \in old \/ pc[target[t]] = "dead"
     THEN Goto(t, "c_mark", "c_unlock") /\ UNCHANGED status
     ELSE /\ With(target[t], "canceling")
          /\ Goto(t, "c_mark", IF NeedsSignal(old) THEN "c_kill" ELSE "c_unlock")
  /\ UNCHANGED <<pending, desc_mutex, target, exitVars, cancels>>

\* tgkill; the tid of a thread that has exited is 0 and nothing is sent.
CancelKill(t) ==
  /\ Goto(t, "c_kill", "c_unlock")
  /\ pending' = IF pc[target[t]] = "dead" THEN pending ELSE pending \cup {target[t]}
  /\ UNCHANGED <<status, desc_mutex, target, exitVars, cancels>>

\* The thread goes on after the system call tgkill.
CancelUnlock(t) ==
  /\ t \notin pending
  /\ Goto(t, "c_unlock", "run")
  /\ Unlock
  /\ target' = [target EXCEPT ![t] = NoThread]
  /\ UNCHANGED <<status, pending, exitVars, cancels>>

-----------------------------------------------------------------------------
(* Cleanup handlers and the end of the thread                              *)

Contents(s) == {s[i] : i \in DOMAIN s}

\* malloc and free hold memory_lock inside; a thread may be canceled there, and then
\* never gives it back.
Lock(t) == memory_lock = NoThread /\ memory_lock' = t
Release == memory_lock' = NoThread

\* tbthread_cleanup_push: the two mallocs ...
PushAlloc(t) == \E h \in Handlers \ Contents(stack[t]) :
  /\ pushes > 0
  /\ Goto(t, "run", "p_alloc")
  /\ Lock(t)
  /\ elem' = [elem EXCEPT ![t] = h]
  /\ pushes' = pushes - 1
  /\ UNCHANGED <<status, pending, desc_mutex, target, stack, walked, ran, cancels>>

PushAllocated(t) ==
  /\ Goto(t, "p_alloc", "p_link")
  /\ Release
  /\ UNCHANGED <<status, pending, desc_mutex, target, stack, walked, ran, elem, pushes,
                 cancels>>

\* ... and list_add.
PushLink(t) ==
  /\ Goto(t, "p_link", "run")
  /\ stack' = [stack EXCEPT ![t] = <<elem[t]>> \o @]
  /\ elem' = [elem EXCEPT ![t] = NoHandler]
  /\ UNCHANGED <<status, pending, desc_mutex, target, walked, ran, memory_lock, pushes,
                 cancels>>

\* tbthread_cleanup_pop unlinks the element before it calls it, if it calls it ...
PopUnlink(t) ==
  /\ Goto(t, "run", "o_call") \/ Goto(t, "run", "o_free")
  /\ stack[t] # <<>>
  /\ stack' = [stack EXCEPT ![t] = Tail(@)]
  /\ elem' = [elem EXCEPT ![t] = Head(stack[t])]
  /\ UNCHANGED <<status, pending, desc_mutex, target, walked, ran, memory_lock, pushes,
                 cancels>>

PopCalled(t) ==
  /\ Goto(t, "o_call", "o_free")
  /\ UNCHANGED <<status, pending, desc_mutex, target, exitVars, cancels>>

\* ... and frees it.
PopFree(t) ==
  /\ Goto(t, "o_free", "o_unlock")
  /\ Lock(t)
  /\ UNCHANGED <<status, pending, desc_mutex, target, stack, walked, ran, elem, pushes,
                 cancels>>

PopReturn(t) ==
  /\ Goto(t, "o_unlock", "run")
  /\ Release
  /\ elem' = [elem EXCEPT ![t] = NoHandler]
  /\ UNCHANGED <<status, pending, desc_mutex, target, stack, walked, ran, pushes, cancels>>

\* Elements are freed: memory_lock is taken and given back, unless there are none.
CanFree(t) == stack[t] # <<>> => memory_lock = NoThread

\* Mutant of Disable: start_thread leaves cancelation as it is.
DisableNot(t) == UNCHANGED status

Disable(t) == Without(t, "enabled")

\* The user function returns: start_thread disables cancelation ...
ReturnFn(t) ==
  /\ Goto(t, "run", "ret")
  /\ Disable(t)
  /\ UNCHANGED <<pending, desc_mutex, target, exitVars, cancels>>

\* ... and drops the handlers.
ClearHandlers(t) ==
  /\ pc[t] = "ret"
  /\ CanFree(t)
  /\ EnterExit(t)
  /\ stack' = [stack EXCEPT ![t] = <<>>]
  /\ UNCHANGED <<status, pending, desc_mutex, target, ran, heapVars, cancels>>

\* The user function calls tbthread_exit.
ExitCall(t) ==
  /\ Async(status[t]) => "exit_async" \in Allowed
  /\ pc[t] = "run"
  /\ EnterExit(t)
  /\ UNCHANGED <<status, pending, desc_mutex, target, stack, ran, heapVars, cancels>>

\* The handler may call testcancel.
CallHandler(t) == \E next \in {"handlers", "h_test"} :
  /\ Goto(t, "handlers", next)
  /\ next = "h_test" /\ "enabled" \in status[t] /\ "canceled" \notin status[t]
       => "handler_tests" \in Allowed
  /\ walked[t] < Len(stack[t])
  /\ walked' = [walked EXCEPT ![t] = @ + 1]
  /\ ran' = [ran EXCEPT ![t] = Append(@, stack[t][walked[t] + 1])]
  /\ UNCHANGED <<status, pending, desc_mutex, target, stack, heapVars, cancels>>

\* The handlers are released; the destructors of thread-local data run.
DropHandlers(t) ==
  /\ Goto(t, "handlers", "lock")
  /\ walked[t] = Len(stack[t])
  /\ CanFree(t)
  /\ stack' = [stack EXCEPT ![t] = <<>>]
  /\ walked' = [walked EXCEPT ![t] = 0]
  /\ UNCHANGED <<status, pending, desc_mutex, target, ran, heapVars, cancels>>

ExitLock(t) ==
  /\ Goto(t, "lock", "unlock")
  /\ desc_mutex = NoThread
  /\ desc_mutex' = t
  /\ UNCHANGED <<status, pending, target, exitVars, cancels>>

ExitUnlock(t) ==
  /\ Goto(t, "unlock", "munmap")
  /\ Unlock
  /\ UNCHANGED <<status, pending, target, exitVars, cancels>>

Munmap(t) ==
  /\ t \in pending => "late_signal" \in Allowed
  /\ Goto(t, "munmap", "exit")
  /\ UNCHANGED <<status, pending, desc_mutex, target, exitVars, cancels>>

KernelExit(t) ==
  /\ t \notin pending   \* or it is delivered first
  /\ Goto(t, "exit", "dead")
  /\ UNCHANGED <<status, pending, desc_mutex, target, exitVars, cancels>>

-----------------------------------------------------------------------------
\* What a thread does next once it is inside a call or has returned.
Step(t) ==
  \/ Test(t) \/ CancelLock(t) \/ CancelMark(t) \/ CancelKill(t) \/ CancelUnlock(t)
  \/ PushAllocated(t) \/ PushLink(t) \/ PopCalled(t) \/ PopFree(t) \/ PopReturn(t)
  \/ ClearHandlers(t) \/ CallHandler(t) \/ DropHandlers(t)
  \/ ExitLock(t) \/ ExitUnlock(t) \/ Munmap(t) \/ KernelExit(t)

Crashed == \E t \in Threads : pc[t] = "crashed"

Next ==
  /\ ~Crashed
  /\ \E t \in Threads :
       \/ Step(t) \/ Deliver(t)
       \/ SetState(t) \/ SetType(t) \/ TestCall(t) \/ CancelCall(t)
       \/ PushAlloc(t) \/ PopUnlink(t) \/ ReturnFn(t) \/ ExitCall(t)

Spec == Init /\ [][Next]_vars

\* Threads that can run run, and the kernel delivers signals.  Since MaxCancels and
\* MaxPushes bound the calls that compete for them, nobody is for ever overtaken at
\* desc_mutex or memory_lock.
FairSpec ==
  /\ Spec
  /\ \A t \in Threads : WF_vars(~Crashed /\ Step(t)) /\ WF_vars(~Crashed /\ Deliver(t))

-----------------------------------------------------------------------------
\* Every variable has its type, and a thread in a critical section of desc_mutex,
\* and no other, holds it.
TypeOK ==
  /\ status \in [Threads -> SUBSET Bits]
  /\ pending \subseteq Threads
  /\ desc_mutex \in Threads \cup {NoThread}
  /\ pc \in [Threads -> PC]
  /\ target \in [Threads -> Threads \cup {NoThread}]
  /\ stack \in [Threads -> Seq(Handlers)]
  /\ walked \in [Threads -> Nat]
  /\ ran \in [Threads -> Seq(Handlers)]
  /\ memory_lock \in Threads \cup {NoThread}
  /\ elem \in [Threads -> Handlers \cup {NoHandler}]
  /\ pushes \in 0 .. MaxPushes
  /\ cancels \in 0 .. MaxCancels
  /\ \A t \in Threads :
       desc_mutex = t <=> pc[t] \in {"c_mark", "c_kill", "c_unlock", "unlock"}

\* The signal is on its way to thread t.
Signalled(t) ==
  t \in pending \/ \E u \in Threads : pc[u] = "c_kill" /\ target[u] = t

\* No lost cancelation: a thread in user code that is to be canceled at any
\* moment gets the signal, however cancel and the setters interleaved.
NoLostCancel ==
  \A t \in Threads :
    pc[t] \in UserPlaces /\ Async(status[t]) /\ "canceling" \in status[t] => Signalled(t)

\* No signal reaches a thread that has unmapped its stack.
NoSignalOnGoneStack == \A t \in Threads : pc[t] = "exit" => ~Signalled(t)

\* Every handler on the list at the end of a thread runs once, in the order of the list,
\* and none runs twice; nor does one that a canceled pop was already running, or that a
\* canceled push had not installed yet.
CleanupOnce ==
  \A t \in Threads :
    /\ \A i, j \in DOMAIN ran[t] : ran[t][i] = ran[t][j] => i = j
    /\ pc[t] \in {"handlers", "h_test"} => ran[t] = SubSeq(stack[t], 1, walked[t])
    /\ elem[t] \notin Contents(ran[t])

\* A thread was canceled inside malloc or free, and left memory_lock locked.
HeapLost == \E t \in Threads : memory_lock = t /\ pc[t] \notin {"p_alloc", "o_unlock"}

\* "Terminate the current thread": a thread that enters tbthread_exit ends, as long as
\* nobody was canceled inside malloc or free.
ExitEnds == \A t \in Threads : pc[t] \in ExitPlaces ~> pc[t] = "dead" \/ HeapLost
=============================================================================
