-------------------------------- MODULE Once --------------------------------
(***************************************************************************)
(* tbthread_once and once_cleanup (tb-threads.c): one control word, one    *)
(* thread that runs the function, the others asleep on the word, and any   *)
(* of them canceled at any moment its cancelation state allows.            *)
(*                                                                         *)
(* The cancelation calls are those of module Cancel in one step each: a    *)
(* request is remembered, and it is acted upon at once by a thread of      *)
(* asynchronous type, at a testcancel by one of deferred type.             *)
(***************************************************************************)
EXTENDS Naturals, Sequences, FiniteSets

CONSTANTS
  Threads,
  Victims,  \* the threads that tbthread_cancel may be called on
  Guarded   \* those of them that may come with cancelation disabled

ASSUME VictimsAssumption == Guarded \subseteq Victims /\ Victims \subseteq Threads

VARIABLES
  once,       (* the control word *)
  pc,
  enabled,    (* the cancelation state of each thread                      *)
  saved,      (* the local variable cancel_state of its call               *)
  async,      (* the threads of asynchronous type                          *)
  canceling,  (* the threads with a request to cancel them                 *)
  canceled,   (* those that have acted upon it                             *)
  stack,      (* their cleanup handlers, once_cleanup among them           *)
  again       (* history: the threads whose once_cleanup was interrupted   *)
              (* by the request, and is called again                       *)

vars == <<once, pc, enabled, saved, async, canceling, canceled, stack, again>>
cancelVars == <<enabled, saved, async, canceling, canceled, again>>

(***************************************************************************)
(* idle     outside the call           fwait   about to call FUTEX_WAIT    *)
(* check    about to read the word     asleep  in FUTEX_WAIT               *)
(* off      about to disable           reread  about to read it again      *)
(* cas      about to compare and swap  off_x   the function has returned   *)
(* push     about to push the handler  pop     about to pop the handler    *)
(* on_*     about to restore the state publish about to store TB_ONCE_DONE *)
(* test_*   the testcancel that ends   wake    about to wake the waiters   *)
(*          the restoring              ending  calling cleanup handlers    *)
(* func     in the user's function     e_wake  the wake of once_cleanup    *)
(*                                     e_drop  releasing the handlers      *)
(***************************************************************************)
Restoring == {"on_x", "on_w", "on_d"}
Testing == {"test_x", "test_w", "test_d"}
Disabled == {"cas", "push", "pop", "publish", "wake"} \cup Restoring
PC == {"idle", "check", "off", "func", "off_x", "fwait", "asleep", "reread",
       "ending", "e_wake", "e_drop", "dead"} \cup Disabled \cup Testing

Goto(t, from, to) == pc[t] = from /\ pc' = [pc EXCEPT ![t] = to]

Init ==
  /\ once = "new"
  /\ pc = [t \in Threads |-> "idle"]
  /\ \E off \in SUBSET Guarded : enabled = [t \in Threads |-> t \notin off]
  /\ saved = [t \in Threads |-> FALSE]
  /\ async \in SUBSET Victims
  /\ canceling = {}
  /\ canceled = {}
  /\ again = {}
  /\ stack = [t \in Threads |-> <<>>]

-----------------------------------------------------------------------------
OnceCall(t) ==
  /\ Goto(t, "idle", "check")
  /\ UNCHANGED <<once, cancelVars, stack>>

CheckDone(t) ==
  /\ Goto(t, "check", IF once = "done" THEN "idle" ELSE "off")
  /\ UNCHANGED <<once, cancelVars, stack>>

\* tbthread_setcancelstate(TBTHREAD_CANCEL_DISABLE, &cancel_state)
Disable(t) ==
  /\ saved' = [saved EXCEPT ![t] = enabled[t]]
  /\ enabled' = [enabled EXCEPT ![t] = FALSE]

DisableState(t) ==
  /\ Goto(t, "off", "cas") \/ Goto(t, "off_x", "pop")
  /\ Disable(t)
  /\ UNCHANGED <<once, async, canceling, canceled, stack, again>>

Cas(t) ==
  /\ \/ once = "new" /\ once' = "in_progress" /\ Goto(t, "cas", "push")
     \/ once # "new" /\ Goto(t, "cas", "on_w") /\ UNCHANGED once
  /\ UNCHANGED <<cancelVars, stack>>

PushCleanup(t) ==
  /\ Goto(t, "push", "on_x")
  /\ stack' = [stack EXCEPT ![t] = <<"once_cleanup">> \o @]
  /\ UNCHANGED <<once, cancelVars>>

\* tbthread_setcancelstate(cancel_state, 0): the state ...
RestoreState(t) ==
  /\ Goto(t, "on_x", "test_x") \/ Goto(t, "on_w", "test_w") \/ Goto(t, "on_d", "test_d")
  /\ enabled' = [enabled EXCEPT ![t] = saved[t]]
  /\ saved' = [saved EXCEPT ![t] = FALSE]   \* the variable is dead
  /\ UNCHANGED <<once, async, canceling, canceled, stack, again>>

MustEnd(t) == enabled[t] /\ t \in canceling \ canceled

\* ... and the testcancel that follows when it is enabled.
TestState(t) ==
  /\ ~MustEnd(t)
  /\ Goto(t, "test_x", "func") \/ Goto(t, "test_w", "fwait") \/ Goto(t, "test_d", "idle")
  /\ UNCHANGED <<once, cancelVars, stack>>

-----------------------------------------------------------------------------
(* The executor                                                            *)

FuncReturn(t) ==
  /\ Goto(t, "func", "off_x")
  /\ UNCHANGED <<once, cancelVars, stack>>

\* Mutant of Popped: the handler is called for, but stays on the list.
PoppedNot(s) == s

Popped(s) == IF s = <<>> THEN s ELSE Tail(s)

PopCleanup(t) ==
  /\ Goto(t, "pop", "publish")
  /\ stack' = [stack EXCEPT ![t] = Popped(@)]
  /\ UNCHANGED <<once, cancelVars>>

PublishDone(t) ==
  /\ Goto(t, "publish", "wake")
  /\ once' = "done"
  /\ UNCHANGED <<cancelVars, stack>>

Sleepers == {t \in Threads : pc[t] = "asleep"}

\* Mutant of Woken: FUTEX_WAKE with the count 1.
WokenOne == IF Sleepers = {} THEN {} ELSE {CHOOSE t \in Sleepers : TRUE}

\* FUTEX_WAKE with the count INT_MAX
Woken == Sleepers

WakeWaiters(t) ==
  /\ \/ pc[t] = "wake" /\ pc' = [u \in Threads |->
          IF u = t THEN "on_d" ELSE IF u \in Woken THEN "reread" ELSE pc[u]]
     \/ pc[t] = "e_wake" /\ pc' = [u \in Threads |->
          IF u = t THEN "e_drop" ELSE IF u \in Woken THEN "reread" ELSE pc[u]]
  /\ UNCHANGED <<once, cancelVars, stack>>

-----------------------------------------------------------------------------
(* The waiters                                                             *)

FutexWait(t) ==
  /\ \/ once = "in_progress" /\ Goto(t, "fwait", "asleep")
     \/ once # "in_progress" /\ Goto(t, "fwait", "reread")
  /\ UNCHANGED <<once, cancelVars, stack>>

\* A signal handler ran.
FutexInterrupted(t) ==
  /\ Goto(t, "asleep", "reread")
  /\ UNCHANGED <<once, cancelVars, stack>>

Reread(t) ==
  /\ Goto(t, "reread", IF once = "in_progress" THEN "fwait" ELSE "check")
  /\ UNCHANGED <<once, cancelVars, stack>>

-----------------------------------------------------------------------------
(* The end of a thread                                                     *)

\* tbthread_cancel by somebody
Cancel(t) ==
  /\ t \in Victims
  /\ pc[t] # "dead"
  /\ canceling' = canceling \cup {t}
  /\ UNCHANGED <<once, pc, enabled, saved, async, canceled, stack, again>>

\* A canceled thread calls tbthread_exit, wherever it is when it is asynchronous, else
\* where it tests; even inside the tbthread_exit that it called for its own reasons.
ActOnCancel(t) ==
  /\ MustEnd(t)
  /\ pc[t] \in Testing \/ (t \in async /\ pc[t] # "dead")
  /\ pc' = [pc EXCEPT ![t] = "ending"]
  /\ canceled' = canceled \cup {t}
  /\ again' = IF pc[t] \in {"e_wake", "e_drop"} THEN again \cup {t} ELSE again
  /\ UNCHANGED <<once, enabled, saved, async, canceling, stack>>

\* User code calls tbthread_exit, which leaves the cancelation state alone.
ExitCall(t) ==
  /\ Goto(t, "idle", "ending") \/ Goto(t, "func", "ending")
  /\ UNCHANGED <<once, cancelVars, stack>>

\* Mutant of AfterCleanup: once_cleanup only wakes the waiters.
AfterCleanupKept == once

AfterCleanup == "new"

\* once_cleanup
CallCleanup(t) ==
  /\ Goto(t, "ending", "e_wake")
  /\ stack[t] # <<>>
  /\ once' = AfterCleanup
  /\ UNCHANGED <<cancelVars, stack>>

\* The handlers leave the list when all have been called.
End(t) ==
  /\ Goto(t, "e_drop", "dead") \/ (Goto(t, "ending", "dead") /\ stack[t] = <<>>)
  /\ stack' = [stack EXCEPT ![t] = <<>>]
  /\ UNCHANGED <<once, cancelVars>>

-----------------------------------------------------------------------------
Step(t) ==
  \/ CheckDone(t) \/ DisableState(t) \/ Cas(t) \/ PushCleanup(t) \/ RestoreState(t)
  \/ TestState(t) \/ FuncReturn(t) \/ PopCleanup(t) \/ PublishDone(t) \/ WakeWaiters(t)
  \/ FutexWait(t) \/ Reread(t) \/ ActOnCancel(t) \/ ExitCall(t) \/ CallCleanup(t) \/ End(t)

Next == \E t \in Threads :
  Step(t) \/ OnceCall(t) \/ FutexInterrupted(t) \/ Cancel(t)

Spec == Init /\ [][Next]_vars

\* Every thread that can run runs; the user's function ends, one way or another.
FairSpec ==
  /\ Spec
  /\ \A t \in Threads : WF_vars(Step(t) /\ pc[t] # "idle")

-----------------------------------------------------------------------------
\* Every variable has its type, and cancelation is disabled wherever tbthread_once
\* relies on it.
TypeOK ==
  /\ once \in {"new", "in_progress", "done"}
  /\ pc \in [Threads -> PC]
  /\ enabled \in [Threads -> BOOLEAN]
  /\ saved \in [Threads -> BOOLEAN]
  /\ async \subseteq Threads
  /\ canceling \subseteq Threads
  /\ canceled \subseteq Threads
  /\ again \subseteq Threads
  /\ stack \in [Threads -> {<<>>, <<"once_cleanup">>}]
  /\ \A t \in Threads : pc[t] \in Disabled => ~enabled[t]

\* The thread will store TB_ONCE_DONE or, through once_cleanup, TB_ONCE_NEW.
Executes(t) ==
  \/ pc[t] \in {"push", "on_x", "test_x", "func", "off_x", "pop", "publish"}
  \/ pc[t] = "ending" /\ stack[t] # <<>>

\* The word says TB_ONCE_IN_PROGRESS exactly while one thread, canceled or not, is
\* going to change it: two never run the function, and no canceled executor leaves
\* the word behind for ever.  (A once_cleanup that is called again takes the word from
\* whoever has it by then.)
OneExecutor ==
  \/ again # {}
  \/ Cardinality({t \in Threads : Executes(t)}) = IF once = "in_progress" THEN 1 ELSE 0

Abs == INSTANCE AbstractOnce WITH
  done   <- once = "done",
  charge <- {t \in Threads : Executes(t)}

\* The function changes hands only by the cancelation or exit of the thread that runs
\* it, and once a thread has completed it nothing makes it run again, not even the
\* later cancelation of that thread; except for a once_cleanup that is called again.
ImplementsAbstractOnce == Abs!Init /\ [][Abs!Next \/ again' # {}]_(Abs!vars)

\* Every call returns, unless its thread ends: whoever waits for an executor that
\* is canceled takes its place, even where a once_cleanup was called again.
CallsReturn ==
  \A t \in Threads : pc[t] = "check" ~> pc[t] \in {"idle", "dead"}
=============================================================================
