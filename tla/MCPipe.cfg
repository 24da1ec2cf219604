CONSTANTS
  Procs <- MCProcs
  InitHeld <- MCInitHeld
  PIPESIZE = 2
  UintSize = 4
  Bytes = {0, 1}
  MaxN = 2
  MaxKills = 1
SPECIFICATION FairSpec
INVARIANTS
  NoUseAfterFree
  NobodyMissed
PROPERTIES
  IsAQueue
  PeerGoneUnblocks
CHECK_DEADLOCK FALSE
