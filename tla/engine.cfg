SPECIFICATION FairSpec
CONSTANTS
  Runbooks <- All
  Stacks = 2
  MaxCrashes = 2
  MaxFaults = 2
INVARIANTS
  EffectIsHonest
  MutationsAreCharged
  NothingLeftOpen
  NothingNewAfterAbort
PROPERTIES
  StepsInOrder
  RunEnds
