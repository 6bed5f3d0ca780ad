SPECIFICATION Spec
CONSTANTS
  MaxAccidents = 0
  WindowMayRaise = FALSE
  MaxPlans = 1
INVARIANTS
  UnknownKeepsItsImage
