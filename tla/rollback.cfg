SPECIFICATION FairSpec
CONSTANTS
  A = A
  B = B
  Services = {A, B}
  Runbooks <- Runs
  Handlers = {h1, h2}
  NoOne = NoOne
  MaxChildren = 2
  MaxCrashes = 2
  MaxFaults = 1
  MaxFlips = 1
INVARIANTS
  RollbackHoldsLock
  RolledBackRestores
PROPERTIES
  UndoneOnceApart
