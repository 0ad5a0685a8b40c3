------------------------------ MODULE MCMutex -------------------------------
(* Instances of Mutex for TLC. *)
EXTENDS Mutex, TLC

CONSTANTS t1, t2, t3

ThreeThreads == {t1, t2, t3}

EveryAttribute == [type : {"normal", "errorcheck", "recursive"},
                   protocol : {"none", "inherit"}]

RecursiveInherit == {[type |-> "recursive", protocol |-> "inherit"]}

\* Every mutex whose last unlock does not crash (run mutex_recursive_inherit).
UsableAttributes == EveryAttribute \ RecursiveInherit
=============================================================================
