---------------------------- MODULE MCFutexLock -----------------------------
(* Instance of FutexLock for TLC. *)
EXTENDS FutexLock

CONSTANTS t1, t2, t3, t4

FourThreads == {t1, t2, t3, t4}
=============================================================================
