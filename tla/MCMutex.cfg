\* A mutex of any type and protocol, except recursive with PRIO_INHERIT.
CONSTANTS
  t1 = t1
  t2 = t2
  t3 = t3
  NoThread = NoThread
  Threads <- ThreeThreads
  Attributes <- UsableAttributes
  MaxCounter = 3
SPECIFICATION FairSpec
INVARIANTS
  OwnerTellsHolder
  CounterIsDepth
PROPERTIES
  ImplementsAbstractLock
