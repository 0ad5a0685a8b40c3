---------------------------- MODULE AbstractLock ----------------------------
(***************************************************************************)
(* What tb_futex_lock, tb_futex_trylock and tb_futex_unlock promise: one   *)
(* holder at a time, and a free lock that somebody waits for is taken by   *)
(* somebody.  Nothing is promised to an individual waiter: the futex lock  *)
(* lets a newcomer overtake the threads it wakes.                          *)
(***************************************************************************)
CONSTANT Threads

VARIABLES
  holders,  (* the threads between a successful lock and its unlock *)
  waiting   (* the threads inside a blocking lock call              *)

vars == <<holders, waiting>>

Init == holders = {} /\ waiting = {}

Request(t) ==
  /\ t \notin holders \cup waiting
  /\ waiting' = waiting \cup {t}
  /\ UNCHANGED holders

Acquire(t) ==
  /\ t \in waiting
  /\ holders = {}
  /\ holders' = {t}
  /\ waiting' = waiting \ {t}

\* A successful trylock: the caller never waits.
TryAcquire(t) ==
  /\ t \notin waiting
  /\ holders = {}
  /\ holders' = {t}
  /\ UNCHANGED waiting

Release(t) ==
  /\ holders = {t}
  /\ holders' = {}
  /\ UNCHANGED waiting

Next == \E t \in Threads : Request(t) \/ Acquire(t) \/ TryAcquire(t) \/ Release(t)

Spec == Init /\ [][Next]_vars

\* A free lock does not stay free while somebody waits for it.
FairSpec == Spec /\ WF_vars(\E t \in Threads : Acquire(t))
=============================================================================
