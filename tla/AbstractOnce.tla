---------------------------- MODULE AbstractOnce ----------------------------
(***************************************************************************)
(* What tbthread_once promises: one thread at a time is in charge of the   *)
(* function; the one in charge completes it, for ever, or gives it up,     *)
(* and only then may another take charge.                                  *)
(***************************************************************************)
CONSTANT Threads

VARIABLES
  done,    (* the function has been completed   *)
  charge   (* the thread in charge, if there is *)

vars == <<done, charge>>

Init == done = FALSE /\ charge = {}

Take(t) ==
  /\ ~done
  /\ charge = {} /\ charge' = {t}
  /\ UNCHANGED done

Complete(t) ==
  /\ charge = {t} /\ charge' = {}
  /\ done' = TRUE

\* The thread is canceled or exits.
GiveUp(t) ==
  /\ charge = {t} /\ charge' = {}
  /\ UNCHANGED done

Next == \E t \in Threads : Take(t) \/ Complete(t) \/ GiveUp(t)

Spec == Init /\ [][Next]_vars
=============================================================================
