SPECIFICATION Spec
CONSTANTS
  Source = {"tenant:T"}
  None = "none"
  MaxTotalAttempts = 3
  CooldownTime = 1
  GraceTime = 1
  DedupTime = 1
  BudgetTime = 2
  BudgetSize = 1
  Target <- MCTarget
  Observations <- MCObservations
  Action <- MCAction
  Capability <- MCCapability
  ActionCapability <- MCActionCapability
  Exempt <- MCExempt
  Chain <- MCChain
PROPERTY HealedMeansHealed
