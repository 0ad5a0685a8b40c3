\* The condition variable with four threads, two mutexes, four signals or
\* broadcasts and one interrupted sleep.  All threads may end up waiting.
CONSTANTS
  t1 = t1
  t2 = t2
  t3 = t3
  t4 = t4
  m1 = m1
  m2 = m2
  NoThread = NoThread
  NoMutex = NoMutex
  Mutexes <- TwoMutexes
  Threads <- FourThreads
  MaxPosts = 4
  MaxSignals = 1
SPECIFICATION FairSpec
INVARIANTS
  NoLostSignal
  NoLostBroadcast
  OneMutex
PROPERTIES
  ImplementsAbstractCond
  SignalsTaken
CHECK_DEADLOCK FALSE
