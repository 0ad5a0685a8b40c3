\* Safety of the futex lock with four threads, and the abstract lock it
\* implements, fairness included.
CONSTANTS
  t1 = t1
  t2 = t2
  t3 = t3
  t4 = t4
  Threads <- FourThreads
SPECIFICATION FairSpec
INVARIANTS
  MutualExclusion
  NoLostWakeup
PROPERTIES
  ImplementsAbstractLock
