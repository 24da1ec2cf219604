CONSTANTS
  NPROC = 3
  NCPU = 2
  MaxPid = 4
SPECIFICATION Spec
INVARIANTS
  SchedNeverPanics
  StackHasOneUser
  ParentIsAlive
  NoZombieMissed
