SPECIFICATION Spec
CONSTANTS
  None = None
  k1 = k1
  k2 = k2
  b1 = b1
  b2 = b2
  Repos = {r1, r2}
  Keys = {k1}
  Binds = {b1}
  BindOf <- MCBindOf
  Wanted <- MCAlways
  Requests = {}
  Suspensions = {}
  Accepting <- MCAnyVerdict
  Interval = 1
  Cap = 2
  Gap = 1
  Jitter = 0
  MaxFailures = 1
  MaxConfigs = 0
  MaxReloads = 0
SYMMETRY MCSymmetry
INVARIANTS RefusalKeepsGate
