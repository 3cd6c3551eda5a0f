SPECIFICATION Spec
CONSTANTS
  s1 = s1
  t1 = t1
  SensorThread = {s1}
  KickThread = {t1}
  Requests = {"run-batch", "batch/cancel"}
  BatchSizes = {2}
  DailyRuns = {0}
  CircuitWindow = 1
  CircuitMin = 1
  ResetLimit = 6
  PendingLimit = 2
  MayTimeOut = FALSE
  MayRestart = FALSE
  MaxBatches = 1
  MaxCounted = 1
  MaxRuns = 2
PROPERTIES CancelledStaysQuiet
