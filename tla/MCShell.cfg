SPECIFICATION Spec
CONSTANTS
  NPROC = 6
  NFILE = 5
  NOFILE = 5
  NPIPE = 1
  PIPESIZE = 1
  MAXARGS = 3
  Sessions <- MCSessions
INVARIANTS
  
  StartsClean
  NobodyWaitsForGood
  ParserRight
  ProgramsRight
CHECK_DEADLOCK FALSE
