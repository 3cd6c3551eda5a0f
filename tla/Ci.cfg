SPECIFICATION FairSpec
CONSTANTS
  j1 = j1
  j2 = j2
  r1 = r1
  r2 = r2
  Job = {j1, j2}
  Runner = {r1, r2}
  Alike <- OneAlike
  MaxKills = 1
  Hour = 2
  Recurring = 3
  MaxRestarts = 1
INVARIANTS HealedWasSeenTwice
PROPERTIES WedgedJobIsHandled
