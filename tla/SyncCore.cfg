SPECIFICATION Spec
CONSTANTS
  None = None
  o1 = o1
  o2 = o2
  u1 = u1
  u2 = u2
  p1 = p1
  Repos = {r1, r2}
  Origins = {o1}
  Replicas = {u1}
  Providers = {p1}
  Creds = {c1}
  ServedBy <- MCServedBy
  Configs <- MCListings
  Limits = {1, 2}
  LoadedRuns <- MCNoRuns
  MaxEvents = 3
SYMMETRY MCSymmetry
INVARIANTS TriggerKept IdleAfterWait
