\* Everybody creates, joins and detaches; the program may stop at any time.
CONSTANTS
  d1 = d1
  d2 = d2
  t1 = t1
  t2 = t2
  t3 = t3
  Main = Main
  NoDesc = NoDesc
  NoTid = NoTid
  Descs <- TwoDescs
  Tids <- ThreeTids
  Creators <- Everybody
SPECIFICATION Spec
SYMMETRY FullSymmetry
CONSTRAINT SomeDescriptorWhole
INVARIANTS
  DescriptorsConserved
  ReleasesKnown
  DescriptorsOwned
  JoinGetsRetval
  RunsOnlyWhenStarted
  SleepersWoken
CHECK_DEADLOCK FALSE
