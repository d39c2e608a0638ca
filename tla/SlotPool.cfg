SPECIFICATION FairSpec
CONSTANTS
  Callers = {c1, c2, c3, c4}
  Limits <- MCLimits
INVARIANTS HeldIsOwned NoStalledWaiter
PROPERTIES ArrivalOrder NoGrantOverLimit EveryWaitEnds
