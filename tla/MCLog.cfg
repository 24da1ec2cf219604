CONSTANTS
  Procs = {p1, p2, p3}
  Blocks = {b1, b2}
  Vals = {0, 1}
  NotCached = NotCached
  LOGSIZE = 4
  MAXOPBLOCKS = 2
  size = 3
  zeroes = 0
  InitDisk <- MCInitDisk
  MaxCrashes = 1
SPECIFICATION FairSpec
INVARIANTS
  Reserved
PROPERTIES
  IsAtomic
  CommittedIsDurable
  
