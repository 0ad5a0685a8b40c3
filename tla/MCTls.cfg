\* Three threads, either build, two slots and two keys, of which the second may reuse the
\* slot of the first.
CONSTANTS
  t1 = t1
  t2 = t2
  t3 = t3
  Threads <- ThreeThreads
  MaxKeys = 2
  MaxCreates = 2
SPECIFICATION Spec
SYMMETRY Symmetry
INVARIANTS
  KeysDistinct
  OwnData
CHECK_DEADLOCK FALSE
