\* Words of 2, pages of 24; sizes below, at and above what fits in a page.
CONSTANTS
  t1 = t1
  t2 = t2
  Threads <- TwoThreads
  Align = 2
  Header = 4
  MinAlloc = 4
  Page = 24
  Base = 24
  Top = 72
  Requests = {5, 21}
  MaxBlocks = 1
  Zero = Zero
  Meta = Meta
  Junk = Junk
  NoBlock = NoBlock
SPECIFICATION Spec
SYMMETRY ThreadSymmetry
INVARIANTS
  HeapConsistent
  ContentsKept
  StateCounts
