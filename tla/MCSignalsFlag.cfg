CONSTANTS
  Sigs <- MCSigs
  Masks <- MCMasks
  MaxKills = 1
SPECIFICATION Spec
INVARIANTS
  FlagMeansHandling
