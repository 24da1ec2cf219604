CONSTANTS
  NPROC = 3
  MAX_BSEM = 2
  MaxSid = 2
SPECIFICATION FairSpec
INVARIANTS
  SlotIsTheOneNamed
  NoLostWakeup
PROPERTIES
  SleepersProgress
