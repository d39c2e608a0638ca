SPECIFICATION FairSpec
CONSTANTS
  None = None
  Absent = Absent
  Unusable = Unusable
  Garbled = Garbled
  p1 = p1
  p2 = p2
  Providers = {p1, p2}
  Texts <- MCTexts
  Tokens = {t1, t2}
  MaxEdits = 2
  MaxHups = 0
PROPERTY RevocationHeeded
