---------------------------- MODULE AbstractCond ----------------------------
(***************************************************************************)
(* What tb-condvar.c promises: a wait returns for a signal or a broadcast  *)
(* and for nothing else, a signal is only kept for threads that wait, so   *)
(* that later ones find none left over from an earlier set of waiters, and *)
(* a broadcast is for the threads that wait when it is made.  A signal is  *)
(* not promised to one of the threads that a broadcast has left waiting:   *)
(* whoever returns first takes it, called or not.                          *)
(***************************************************************************)
EXTENDS Naturals, FiniteSets

CONSTANT Threads

VARIABLES
  waiting,  (* the threads inside tbthread_cond_wait          *)
  called,   (* those of them that a broadcast has been for    *)
  signals   (* the signals on which nobody has come back yet  *)

vars == <<waiting, called, signals>>

Init == waiting = {} /\ called = {} /\ signals = 0

Wait(t) ==
  /\ t \notin waiting
  /\ waiting' = waiting \cup {t}
  /\ UNCHANGED <<called, signals>>

\* Nothing happens when every waiter has a signal.
Signal ==
  /\ signals < Cardinality(waiting)
  /\ signals' = signals + 1
  /\ UNCHANGED <<waiting, called>>

Broadcast ==
  /\ called' = waiting
  /\ UNCHANGED <<waiting, signals>>

Return(t) ==
  /\ t \in waiting
  /\ \/ signals > 0 /\ signals' = signals - 1
     \/ signals = 0 /\ t \in called /\ UNCHANGED signals
  /\ waiting' = waiting \ {t}
  /\ called' = called \ {t}

Next == Signal \/ Broadcast \/ \E t \in Threads : Wait(t) \/ Return(t)

Spec == Init /\ [][Next]_vars
=============================================================================
