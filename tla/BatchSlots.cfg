SPECIFICATION Spec
CONSTANTS
  s1 = s1
  t1 = t1
  t2 = t2
  SensorThread = {s1}
  KickThread = {t1, t2}
  Requests = {"run-batch", "cancel-batch", "batch/cancel"}
  BatchSizes = {2}
  DailyRuns = {0}
  CircuitWindow = 1
  CircuitMin = 1
  ResetLimit = 6
  PendingLimit = 2
  MayTimeOut = TRUE
  MayRestart = TRUE
  MaxBatches = 1
  MaxCounted = 1
  MaxRuns = 2
INVARIANTS BatchNotOverfired
PROPERTIES KeepsLedger
SYMMETRY Symmetry
