SPECIFICATION FairSpec
CONSTANTS
  alice = alice
  bob = bob
  NCids = 2
  Identities <- MCIdentities
  IdentityOf <- MCIdentityOf
  None = None
  MaxTime = 1
  MaxSessionDuration = TRUE
  MaxLosses = 2
  MaxRestarts = 1
  Faults = {"ackLost", "restart", "lag", "lateDeadline"}
INVARIANTS TypeOK NewestKept UpIsTracked StaleReclaimed
PROPERTIES DuplicatesResolve ExpiredGo
CHECK_DEADLOCK FALSE
