SPECIFICATION Spec
CONSTANTS
  Plans <- All
  MaxRuns = 4
  MaxCrashes = 2
  MaxFaults = 1
  MaxEdits = 1
CHECK_DEADLOCK FALSE
INVARIANTS
  UndoRestores
  DoneMeansApplied
  NoLitter
PROPERTIES
  EditsSurvive
