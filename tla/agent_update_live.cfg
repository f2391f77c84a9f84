SPECIFICATION FairSpec
CONSTANTS
  v1 = v1
  v2 = v2
  None = None
  First = v1
  Versions <- TwoVersions
  Known = {v2}
  Events = {"agent", "server"}
  MaxEvents = 1
  MaxQueue = 1
  Late = {"late"}
PROPERTIES
  UpdateIsTried
CHECK_DEADLOCK FALSE
