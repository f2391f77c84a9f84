\* One job, two agents, two store calls in progress: every race for a row.
SPECIFICATION Spec
CONSTANTS
  a1 = a1
  a2 = a2
  c1 = c1
  c2 = c2
  MaxJobs = 1
  MaxTime = 3
  Agents = {a1, a2}
  NoAgent = NoAgent
  ServerControl = ServerControl
  Calls = {c1, c2}
  CanRun <- MCCanRun
  Adhoc <- MCAdhoc
  Timeout <- MCTimeout
  LeaseStaleAfter = 1
  ReaperGrace = 0
  RetryDelay = 1
SYMMETRY MCSymmetry
INVARIANTS
  TypeOK
  RowCoherent
  TimelinePossible
  BlockedNeverGranted
PROPERTIES
  TerminalIsFinal
  ImplementsLifecycle
