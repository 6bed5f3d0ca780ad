CONSTANTS
  Handlers = {h1, h2}
  Ids = {a1, a2}
  Targets = {t1}
  Plans = {p1, p2}
  NoTarget = NoTarget
  NoPlan = NoPlan
  NoId = NoId
  NoOne = NoOne
  Ttl = 1
  MaxTime = 1
  MaxScans = 0
  MaxRestarts = 0
SPECIFICATION Spec
SYMMETRY Alike
INVARIANTS
  RunHoldsLock
  LockHasAKeeper
PROPERTIES
  ImplementsLedger
