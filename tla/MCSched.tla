------------------------------ MODULE MCSched -------------------------------
(* Instances of Sched for TLC. *)
EXTENDS Sched, FiniteSets, TLC

CONSTANTS t1, t2, p1, p2, i1, i2

ThreeThreads == {Main, t1, t2}

TwoProtect == {p1, p2}
TwoInherit == {i1, i2}

SomeRequests ==
  {Normal, [policy |-> "normal", prio |-> 2], [policy |-> "rr", prio |-> 2]}

\* No definition tells t1 from t2 or p1 from p2.
PairSymmetry == Permutations({t1, t2}) \cup Permutations(TwoProtect)
                  \cup Permutations(TwoInherit)

\* The states that are explored: one or two threads use two of the four mutexes at a
\* time; three threads use the PRIO_INHERIT mutexes, one of them has been given
\* scheduling by setschedparam and one runs at what was not computed, at most.  The
\* PRIO_PROTECT mutexes have ceilings where they are of interest.
InUse == {m \in Mutexes : owner[m] # NoThread \/ \E t \in Threads : obj[t] = m}

CeilingsOf(ms) == \A m \in Protect \ ms : ceiling[m] = Normal

TwoMutexesInUse ==
  /\ Cardinality(InUse) <= 2
  /\ InUse \cap Inherit # {} => CeilingsOf(InUse)
  /\ (\A t \in Threads : pc[t] # "none") =>
       /\ InUse \subseteq Inherit /\ CeilingsOf({})
       /\ Cardinality({t \in Threads : user_sched_info[t] # Normal}) <= 1
       /\ Cardinality(uncomputed) <= 1
=============================================================================
