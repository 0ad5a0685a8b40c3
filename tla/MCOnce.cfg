\* Three threads, two of them victims, of either cancelation type and one of either state, call tbthread_once.
CONSTANTS
  t1 = t1
  t2 = t2
  t3 = t3
  Threads <- ThreeThreads
  Victims <- TwoVictims
  Guarded <- OneGuarded
SPECIFICATION FairSpec
INVARIANTS
  OneExecutor
PROPERTIES
  ImplementsAbstractOnce
  CallsReturn
CHECK_DEADLOCK FALSE
