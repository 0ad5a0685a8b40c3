----------------------------- MODULE MCThreads ------------------------------
(* Instances of Threads for TLC. *)
EXTENDS Threads, TLC

CONSTANTS d1, d2, t1, t2, t3

TwoDescs == {d1, d2}
TwoTids == {t1, t2}
ThreeTids == {t1, t2, t3}

OnlyMain == {Main}
Everybody == Actors

\* Once every descriptor is spoiled only DescriptorsConserved is claimed: the states
\* after that are not searched.
SomeDescriptorWhole == spoiled # Descs

\* No definition tells descriptors apart, nor threads unless Creators does.
FullSymmetry == Permutations(Descs) \cup Permutations(Tids)
=============================================================================
