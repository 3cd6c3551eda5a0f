SPECIFICATION TasksSpec
CONSTANTS
  k1 = k1
  k2 = k2
  Task = {k1, k2}
  f13 = f13
  f14 = f14
  File = {f13, f14}
  Aligning = f13
  Text = {"a", "b"}
  Jobs = 3
  Scheduled = {2}
  Level = {"feature"}
  MaxRun = 0
  PollMax = 1
INVARIANTS LedgerInSync ReportsHold
PROPERTIES WorkGoesOn
CHECK_DEADLOCK FALSE
