------------------------------- MODULE MCOnce -------------------------------
(* An instance of Once for TLC. *)
EXTENDS Once

CONSTANTS t1, t2, t3

ThreeThreads == {t1, t2, t3}
TwoVictims == {t1, t2}
OneGuarded == {t1}
=============================================================================
