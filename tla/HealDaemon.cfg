SPECIFICATION FairSpec
CONSTANTS
  Source = {"learning daemon"}
  None = "none"
  MaxTotalAttempts = 3
  CooldownTime = 1
  GraceTime = 1
  DedupTime = 1
  BudgetTime = 3
  BudgetSize = 2
  Target <- MCTarget
  Observations <- MCObservations
  Action <- MCAction
  Capability <- MCCapability
  ActionCapability <- MCActionCapability
  Exempt <- MCExempt
  Chain <- MCChain
INVARIANTS AttemptsWithinCap
PROPERTIES GivesUpLoudly EveryHealIsBudgeted ChainEnds HealthResolves FaultReachesOperator
