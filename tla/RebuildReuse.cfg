SPECIFICATION Spec
CONSTANTS
  alice = alice
  bob = bob
  NCids = 1
  Identities <- TwoIdentities
  IdentityOf <- TwoIdentityOf
  None = None
  MaxTime = 0
  MaxSessionDuration = TRUE
  MaxLosses = 1
  MaxRestarts = 1
  Faults = {}
INVARIANT TrackingStartsFresh
CHECK_DEADLOCK FALSE
