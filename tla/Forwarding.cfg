SPECIFICATION FairSpec
CONSTANTS
  None = None
  Invalid = Invalid
  Providers = {p1}
  Registered = {p1}
  DefaultBundle = FALSE
  Creds <- MCCreds
  Operators = {o1}
  q1 = q1
  q2 = q2
  Requests = {q1, q2}
  Replayable = {q2}
  Bundles = {"one", "bad"}
  MaxEdits = 1
  MaxRotations = 1
  MaxHups = 2
INVARIANTS SentAsConfigured BundleIsCurrent MarkerIsTrue
PROPERTY ReloadApplies
CHECK_DEADLOCK FALSE
