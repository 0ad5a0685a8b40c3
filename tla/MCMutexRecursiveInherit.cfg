\* A recursive mutex, PRIO_INHERIT.
CONSTANTS
  t1 = t1
  t2 = t2
  t3 = t3
  NoThread = NoThread
  Threads <- ThreeThreads
  Attributes <- RecursiveInherit
  MaxCounter = 3
SPECIFICATION Spec
INVARIANTS
  UnschedHasOwner
