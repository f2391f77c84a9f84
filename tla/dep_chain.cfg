SPECIFICATION FairSpec
CONSTANTS
  NumSpecs = 3
  MaxExecs = 4
  ChainDeps <- Downstream
  Needs <- SecondNeedsFirst
  Declared <- AllSpecs
  MaxFaults = 1
  UserDeletes = {"queue", "history"}
INVARIANTS
  ReleasedAfterDependencies
  CancelsOnlyWaiting
  NothingLeftUndecided
  Converges
PROPERTIES
  DecisionsAreMade
CHECK_DEADLOCK FALSE
