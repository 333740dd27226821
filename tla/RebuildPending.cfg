SPECIFICATION Spec
CONSTANTS
  alice = alice
  bob = bob
  NCids = 1
  Identities <- MCIdentities
  IdentityOf <- MCIdentityOf
  None = None
  MaxTime = 0
  MaxSessionDuration = FALSE
  MaxLosses = 1
  MaxRestarts = 0
  Faults = {"restart"}
INVARIANT AuthorizedTracked
CHECK_DEADLOCK FALSE
