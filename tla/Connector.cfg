SPECIFICATION FairSpec
CONSTANTS
  None = None
  Requests = {r1, r2}
  Tests = {t1}
  Workers = 1
  Patches = {TRUE, FALSE}
  InitialTokens = {"none", "unused"}
  MaxFaults = 1
  MaxDrains = 1
  MaxReloads = 1
INVARIANTS TokenKept
PROPERTIES DrainAnswers RefusedAtLimit RequestAnswered StatusSettles Connects
CHECK_DEADLOCK FALSE
