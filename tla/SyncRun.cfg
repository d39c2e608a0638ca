SPECIFICATION Spec
CONSTANTS
  None = None
  Damaged = Damaged
  Timers = {t1, t2}
  Order <- MCOrder
  Under <- MCUnder
  Shadowing <- MCShadowing
  Length <- MCLength
  MaxRefLen = 4
  MaxArgBytes = 17
  BatchRefs = 2
  Tables <- MCTables
  MaxAttempts = 3
  MaxEdits = 1
  MaxFaults = 2
INVARIANTS DeletesComeLast BatchesAreSound CleanRunSucceeds RecordIsTrue NothingForgotten
PROPERTY KeepsPromise
