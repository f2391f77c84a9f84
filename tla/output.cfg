SPECIFICATION FairSpec
CONSTANTS
  v1 = v1
  None = None
  Viewers <- OneViewer
  Slots <- TwoSlots
  PageSize = 1
  Attempts = 2
  MaxOutput = 2
  MaxReports = 2
  Faults = {"lost", "timeout", "append", "user", "maintenance", "crash", "break",
            "deadline", "read"}
  MaxFaults = 1
INVARIANTS
  ViewsFollowTheLog
  EachReportOnce
  OutputIsKept
PROPERTIES
  StoredIsShown
CHECK_DEADLOCK FALSE
