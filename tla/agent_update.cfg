SPECIFICATION Spec
CONSTANTS
  v1 = v1
  v2 = v2
  None = None
  First = v1
  Versions <- TwoVersions
  Known = {v2}
  Events = {"lost", "handover", "agent", "server", "target", "request"}
  MaxEvents = 1
  MaxQueue = 1
  Late = {"late"}
PROPERTIES
  UpdateKillsNoJob
CHECK_DEADLOCK FALSE
