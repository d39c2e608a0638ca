SPECIFICATION Spec
CONSTANTS
  None = None
  k1 = k1
  k2 = k2
  b1 = b1
  b2 = b2
  Repos = {r1}
  Keys = {k1, k2}
  Binds = {b1, b2}
  BindOf <- MCBindOf
  Wanted <- MCRebind
  Requests = {r1, "all"}
  Suspensions = {TRUE, FALSE}
  Accepting <- MCRefusesOne
  Interval = 1
  Cap = 2
  Gap = 1
  Jitter = 0
  MaxFailures = 1
  MaxConfigs = 1
  MaxReloads = 1
INVARIANTS PassHasGate BackoffKept
VIEW MCView
