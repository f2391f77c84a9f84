SPECIFICATION Spec
CONSTANTS
  k1 = k1
  k2 = k2
  p1 = p1
  p2 = p2
  c1 = c1
  c2 = c2
  c3 = c3
  None = None
  Keys = {k1, k2}
  Payloads = {p1, p2}
  Calls = {c1, c2, c3}
  StoreFails = TRUE
  MaxRestarts = 2
INVARIANTS
  AtMostOnce
  AnswersAreTrue
  PendingHasAnOwner
PROPERTIES
  ReceiptIsFinal
SYMMETRY Symmetry
CHECK_DEADLOCK FALSE
