SPECIFICATION PartSpec
CONSTANTS
  c1 = c1
  c2 = c2
  w1 = w1
  w2 = w2
  o1 = o1
  p1 = p1
  q1 = q1
  q2 = q2
  yes = yes
  no = no
  n1 = n1
  n2 = n2
  n3 = n3
  Capability = {c1, c2}
  Name = {"pattern"}
  BlastRadius = {"safe", "dangerous"}
  None = None
  Threshold = 2
  MaxApprovals = 2
  Value <- MCValue
  Node = {n1, n2, n3}
  LabelOf <- MCLabelOf
  Scoped = {"RepoFile", "MissionTask"}
  Project = {"p"}
  Duration = {1, 2}
  Writer = {w1, w2}
  Object = {o1}
  Extracted = {p1}
  MaxVersion = 2
  Ask = {q1, q2}
  Answer = {yes, no}
  Founder = {"f1", "f2"}
  MaxHeld = 3
  MaxCap = 2
SYMMETRY Symmetry
INVARIANTS GraduationIsEarned CleansUp GraphIsRecorded ResumedWithTheRecord
           ForeignNeverRead
PROPERTIES WorseIsNeverBetter JudgementsAreDurable
CHECK_DEADLOCK FALSE
