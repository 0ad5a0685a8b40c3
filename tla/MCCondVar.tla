----------------------------- MODULE MCCondVar ------------------------------
(* Instance of CondVar for TLC. *)
EXTENDS CondVar

CONSTANTS t1, t2, t3, t4, m1, m2

FourThreads == {t1, t2, t3, t4}
TwoMutexes == {m1, m2}
=============================================================================
