CONSTANTS
  Handlers = {h1, h2}
  Ids = {a1}
  Targets = {t1}
  Plans = {p1, p2}
  NoTarget = NoTarget
  NoPlan = NoPlan
  NoId = NoId
  NoOne = NoOne
  Ttl = 1
  MaxTime = 0
  MaxScans = 2
  MaxRestarts = 1
SPECIFICATION FairSpec
INVARIANTS
  OneCard
PROPERTIES
  IncidentStillCurrent
  LockComesFree
  RunEnds
