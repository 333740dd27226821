SPECIFICATION FairSpec
CONSTANTS
  c1 = c1
  c2 = c2
  r1 = r1
  r2 = r2
  alice = alice
  Cids <- OneCid
  Identities <- MCIdentities
  IdentityOf <- MCIdentityOf
  Reqs <- OneReq
  Loop = Loop
  None = None
  Leavers <- NobodyLeaves
  QueueCap = 1
  MaxSessionDuration = TRUE
  Faults = {}

PROPERTY SessionsAreBounded
CHECK_DEADLOCK FALSE
