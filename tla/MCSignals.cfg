CONSTANTS
  Sigs <- MCSigs
  Masks <- MCMasks
  MaxKills = 2
SPECIFICATION FairSpec
INVARIANTS
  HandlersNeverNest
PROPERTIES
  SigretResumes
  
