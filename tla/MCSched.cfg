\* Two mutexes with ceilings and two with inheritance; requests and refusals of every kind.
CONSTANTS
  Main = Main
  t1 = t1
  t2 = t2
  p1 = p1
  p2 = p2
  i1 = i1
  i2 = i2
  NoThread = NoThread
  NoMutex = NoMutex
  Threads <- ThreeThreads
  Protect <- TwoProtect
  Inherit <- TwoInherit
  Requests <- SomeRequests
  Ceilings = {0, 2}
SPECIFICATION Spec
SYMMETRY PairSymmetry
CONSTRAINT TwoMutexesInUse
INVARIANTS
  RunsAsComputed
  NoInversion
  CeilingHonoured
  EntryFound
  RequestKept
CHECK_DEADLOCK FALSE
