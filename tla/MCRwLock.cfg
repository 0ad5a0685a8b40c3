\* The read-write lock with four threads and two interrupted sleeps.
CONSTANTS
  t1 = t1
  t2 = t2
  t3 = t3
  t4 = t4
  NoThread = NoThread
  Threads <- FourThreads
  MaxSignals = 2
SPECIFICATION FairSpec
INVARIANTS
  Exclusion
  CountsAgree
  NoLostWakeup
PROPERTIES
  ImplementsAbstractRwLock
  WriterGetsIn
