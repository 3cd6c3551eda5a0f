SPECIFICATION FairSpec
CONSTANTS
  s1 = s1
  t1 = t1
  SensorThread = {s1}
  KickThread = {t1}
  Requests = {"run-batch", "batch", "config", "cancel-batch", "schedule"}
  BatchSizes = {1}
  DailyRuns = {0, 1}
  CircuitWindow = 1
  CircuitMin = 1
  ResetLimit = 2
  PendingLimit = 1
  MayTimeOut = FALSE
  MayRestart = FALSE
  MaxBatches = 2
  MaxCounted = 0
  MaxRuns = 2
PROPERTIES BatchDrains RunsEnd
