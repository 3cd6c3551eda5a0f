SPECIFICATION LoomSpec
CONSTANTS
  w1 = w1
  o1 = o1
  p1 = p1
  Writer = {w1}
  Object = {o1}
  Extracted = {p1}
  MaxVersion = 1
INVARIANTS AcceptIsPossible
CHECK_DEADLOCK FALSE
