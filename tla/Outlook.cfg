SPECIFICATION OutlookSpec
CONSTANTS
  c1 = c1
  i1 = i1
  i2 = i2
  none = none
  f1 = f1
  f2 = f2
  f3 = f3
  Caller = {"loop", "thread", "request"}
  Rotations = 1
  Call = {c1}
  Installation = {i1, i2}
  NoInstallation = none
  Asker = {"loop", "thread"}
  Chosen = {"conversation_scoping", "orphan_zero_invariant"}
  ApiState = {"up", "5xx"}
  Fact = {"null project"}
  Ttl = 1
  Source = {"daemon"}
  Blocking = {"daemon"}
  Cooldown = 2
  Finding = {f1, f2, f3}
  k1 = k1
  k2 = k2
  g1 = g1
  p1 = p1
  r1 = r1
  r2 = r2
  s1 = s1
  s2 = s2
  Chat = {k1, k2}
  MaxToolRounds = 1
  MaxDepth = 1
  MaxTurns = 4
  Project = {p1}
  RunId = {r1, r2}
  Evidence = {"source_files", "web_research", "neptune_deep"}
  Server = {s1, s2}
  Fault = {g1}
  Fixable = {g1}
  PrCap = 1
  MaxEdits = 1
  Revisions = 3
  Bootstrap = {"script"}
  Resource = {"function"}
  Label <- SomeLabel
  Signal = {"success rate"}
  Measure <- SomeMeasure
  Version = {1}
  MaxNodes = 2
INVARIANTS TenantsAreSeen RefusedOnlyWhenDisturbed TokenMatchesInstallation
           ServedIsCurrent OperatorsKnow AnsweredIsOnRecord
           ResearchingMeansRunning ShowsItsOwnPatch
CHECK_DEADLOCK FALSE
