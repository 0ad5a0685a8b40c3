\* Two threads that cancel each other; cancelation and exit used with care.
CONSTANTS
  t1 = t1
  t2 = t2
  t3 = t3
  h1 = h1
  h2 = h2
  NoThread = NoThread
  NoHandler = NoHandler
  Threads <- TwoThreads
  Handlers <- TwoHandlers
  MaxCancels = 2
  MaxPushes = 2
  Allowed = {}
SPECIFICATION FairSpec
INVARIANTS
  NoLostCancel
  NoSignalOnGoneStack
  CleanupOnce
PROPERTIES
  ExitEnds
CHECK_DEADLOCK FALSE
