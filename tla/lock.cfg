CONSTANTS
  Scanners = {s1}
  Rescans = {r1, r2, r3}
  Mutators = {m1, m2}
  NoOne = NoOne
  SafePrune = SafePrune
  MaxMutations = 2
  MaxMaintenance = 1
  MaxStarterFailures = 1
  MaxRestarts = 1
SPECIFICATION FairSpec
INVARIANTS
  TypeOK
  HostIsQuiet
  OneWorker
  WishIsKept
PROPERTIES
  FixIsRescanned
  PendingEnds
