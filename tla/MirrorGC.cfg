SPECIFICATION FairSpec
CONSTANTS
  None = None
  m1 = m1
  m2 = m2
  Mirrors = {m1, m2}
  Found = {m1, m2}
  Bound = {m1}
  Configs <- MCSome
  Grace = 1
  MaxConfigs = 3
  MaxRestarts = 1
  Patches = {TRUE, FALSE}
INVARIANTS SyncHasMirror
PROPERTIES ConfiguredKept OrphanCollected TrashEmptied
