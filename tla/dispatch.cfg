SPECIFICATION Spec
CONSTANTS
  a1 = a1
  a2 = a2
  NoAgent = NoAgent
  server = server
  ServerControl = server
  Agents <- TwoAgents
  NumJobs = 2
  Timed <- OnlyFirstTimed
  MaxAttempts = 2
  Slots = {1, 2}
  MaxEvents = 2
SYMMETRY Renamings
INVARIANTS
  ExecutorHoldsLease
  OneRunningPerAgent
PROPERTIES
  ImplementsLifecycle
CHECK_DEADLOCK FALSE
