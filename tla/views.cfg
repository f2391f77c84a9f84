SPECIFICATION Spec
CONSTANTS
  None = None
  a1 = a1
  a2 = a2
  Agents <- TwoAgents
  MaxLimit = 200
  MaxJobs = 4
  Capabilities <- TwoMachines
  Worlds <- ListsAndFleet
  PageSizes = {1, 2}
INVARIANTS
  EveryAttemptHasItsRow
PROPERTIES
  ReadyIsTaken
CHECK_DEADLOCK FALSE
