------------------------------ MODULE MCCancel ------------------------------
(* Instances of Cancel for TLC. *)
EXTENDS Cancel, TLC

CONSTANTS t1, t2, t3, h1, h2

TwoThreads == {t1, t2}
ThreeThreads == {t1, t2, t3}
OneHandler == {h1}
TwoHandlers == {h1, h2}

\* No definition of Cancel tells threads, or handlers, apart.
Symmetry == Permutations(Threads) \cup Permutations(Handlers)
=============================================================================
