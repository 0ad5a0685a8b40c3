\* Calls return and threads end, under fairness, explicit scheduling included.
CONSTANTS
  d1 = d1
  d2 = d2
  t1 = t1
  t2 = t2
  t3 = t3
  Main = Main
  NoDesc = NoDesc
  NoTid = NoTid
  Descs <- TwoDescs
  Tids <- TwoTids
  Creators <- OnlyMain
SPECIFICATION FairSpec
PROPERTIES
  CallsReturn
CHECK_DEADLOCK FALSE
