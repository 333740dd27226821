SPECIFICATION Spec
CONSTANTS
  alice = alice
  bob = bob
  NCids = 2
  Identities <- MCIdentities
  IdentityOf <- MCIdentityOf
  None = None
  MaxTime = 0
  MaxSessionDuration = FALSE
  MaxLosses = 1
  MaxRestarts = 0
  Faults = {"ackLost"}
PROPERTY ReplacementKept
CHECK_DEADLOCK FALSE
