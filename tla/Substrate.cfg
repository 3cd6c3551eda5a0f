SPECIFICATION BothSpec
CONSTANTS
  a1 = a1
  a2 = a2
  a3 = a3
  x1 = x1
  x2 = x2
  c1 = c1
  c2 = c2
  Writer = {a1, a2, a3}
  Object = {x1, x2}
  Attempt = {a1, a2, a3}
  Token = {x1, x2}
  Call = {c1, c2}
  MaxVersion = 3
  Lifetime = 2
INVARIANTS GraphIsBacked QuietObjectsAgree OneMutationPerApproval AuditIsTrue
PROPERTIES ImplementsVersionLog
SYMMETRY Symmetry
CHECK_DEADLOCK FALSE
