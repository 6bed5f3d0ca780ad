SPECIFICATION FairSpec
CONSTANTS
  MaxAccidents = 3
  WindowMayRaise = TRUE
  MaxPlans = 1
INVARIANTS
  InverseIsPossible
  KeptUnlessCutOff
  EffectIsWatched
PROPERTIES
  PruneComesBack
