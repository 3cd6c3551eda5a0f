SPECIFICATION EchoSpec
CONSTANTS
  k1 = k1
  Chat = {k1}
  MaxToolRounds = 2
  MaxDepth = 20
  MaxTurns = 5
INVARIANTS ReasonerProgresses
CHECK_DEADLOCK FALSE
