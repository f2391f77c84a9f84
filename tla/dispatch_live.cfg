SPECIFICATION FairSpec
CONSTANTS
  a1 = a1
  a2 = a2
  NoAgent = NoAgent
  server = server
  ServerControl = server
  Agents <- TwoAgents
  NumJobs = 2
  Timed <- OnlyFirstTimed
  MaxAttempts = 2
  Slots = {1, 2}
  MaxEvents = 1
PROPERTIES
  QueuedWorkIsTaken
  CancelledStops
CHECK_DEADLOCK FALSE
