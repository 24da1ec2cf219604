CONSTANTS
  NPROC = 2
  PGSIZE = 2
  NPAGES = 20
  MaxSz = 3
  MaxArgs = 1
  MaxPipes = 12
SPECIFICATION Spec
INVARIANTS
  PagesConserved
  ImagesComplete
  CopiesRight
