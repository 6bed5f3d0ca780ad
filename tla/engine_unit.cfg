SPECIFICATION Spec
CONSTANTS
  Runbooks <- Unit
  Stacks = 2
  MaxCrashes = 0
  MaxFaults = 0
INVARIANTS
  PendingNeverRan
