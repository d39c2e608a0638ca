SPECIFICATION FairSpec
CONSTANTS
  None = None
  o1 = o1
  o2 = o2
  u1 = u1
  u2 = u2
  p1 = p1
  Repos = {r1}
  Origins = {o1, o2}
  Replicas = {u1, u2}
  Providers = {p1}
  Creds = {c1, c2}
  ServedBy <- MCServedBy
  Configs <- MCOrigins
  Limits = {1}
  LoadedRuns <- MCOldRuns
  MaxEvents = 4
INVARIANTS RevokedIsCancelled ResultIsCurrent RunRecordIsCurrent MarkFollowsRun
PROPERTIES TriggerAnswered ShutdownDrains
