SPECIFICATION FairSpec
CONSTANTS
  NumOps = 2
  Safe = {2}
  Fingerprint <- Different
  Scope <- Same
  Workers = 1
  Calls = {1, 2}
  None = None
  Payload = Payload
  Payloads = {Payload}
  Keys = {1, 2}
  StoreFails = FALSE
  MaxSessions = 2
  MaxLosses = 1
  MaxRestarts = 1
  MaxQuits = 1
  MaxEnds = 1
INVARIANTS
  NothingForgotten
  SuccessIsReal
  VerifiedBeforeAdmitted
PROPERTIES
  RecoveryEnds
CHECK_DEADLOCK FALSE
