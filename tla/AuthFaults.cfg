SPECIFICATION SpecEither
CONSTANTS
  c1 = c1
  c2 = c2
  r1 = r1
  r2 = r2
  alice = alice
  Cids <- MCCids
  Identities <- MCIdentities
  IdentityOf <- MCIdentityOf
  Reqs <- OneReq
  Loop = Loop
  None = None
  Leavers <- AllLeave
  QueueCap = 1
  MaxSessionDuration = TRUE
  Faults = {"keyFetch", "slowSocket", "status"}

INVARIANTS TypeOK DecidedOnce OneOwner AttemptIndexExact ActiveIsReal
PROPERTIES TrackingOutlivesClient ImplementsSessionStore
CHECK_DEADLOCK FALSE
