------------------------------ MODULE MCRwLock ------------------------------
(* Instance of RwLock for TLC. *)
EXTENDS RwLock

CONSTANTS t1, t2, t3, t4

FourThreads == {t1, t2, t3, t4}
=============================================================================
