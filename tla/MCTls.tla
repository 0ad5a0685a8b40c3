------------------------------- MODULE MCTls --------------------------------
(* An instance of Tls for TLC. *)
EXTENDS Tls, TLC

CONSTANTS t1, t2, t3

ThreeThreads == {t1, t2, t3}

\* No definition of Tls tells threads apart.
Symmetry == Permutations(Threads)
=============================================================================
