SPECIFICATION Spec
CONSTANTS
  Plans <- NewFile
  MaxRuns = 2
  MaxCrashes = 0
  MaxFaults = 1
  MaxEdits = 0
CHECK_DEADLOCK FALSE
INVARIANTS
  OnlyOthersDrift
