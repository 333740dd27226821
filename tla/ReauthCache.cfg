SPECIFICATION Spec
CONSTANTS
  g1 = g1
  g2 = g2
  g3 = g3
  Gs <- MCGs
  None = None
  ReauthTimeout = 1
  Ttl = 2
  Configs <- MCConfigs
  MaxTime = 3
SYMMETRY Symmetry
INVARIANT TypeOK
PROPERTIES RevocationTakesEffect ValidEntryKept BackstopHolds
CHECK_DEADLOCK FALSE
