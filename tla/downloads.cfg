SPECIFICATION FairSpec
CONSTANTS
  d1 = d1
  w1 = w1
  w2 = w2
  c1 = c1
  c2 = c2
  None = None
  Ids <- OneDownload
  Workers <- TwoWorkers
  Contents <- TwoContents
  Size = 2
  Temporary = FALSE
  Events = {"break", "source", "expire", "crash", "journal", "stage", "destination", "edit", "other"}
  MaxEvents = 3
CONSTRAINT NotDoubled
INVARIANTS
  JournalIsDurable
PROPERTIES
  CompletedIsWhole
  AttachedDownloadsEnd
CHECK_DEADLOCK FALSE
