SPECIFICATION FairSpec
CONSTANTS
  s1 = s1
  r1 = r1
  r2 = r2
  None = None
  Names <- MCNames
  Sids = {s1}
  CommonNames <- MCCommonNames
  Reqs = {r1, r2}
  Configs <- MCConfigs
  Tokens <- MCTokens
  Accounts <- MCAccounts
  Kids = {"k1", "k2"}
  Times = {0, 1, 2, 5}
  Faults = {"router", "keyEndpoint", "cognito", "queue", "revoked"}
INVARIANTS TypeOK AllowedOnlyVerified RefusedForCause PageIsTrue LookupOutlivesState
PROPERTIES ProcessingEnds ImplementsSessionStore
CHECK_DEADLOCK FALSE
