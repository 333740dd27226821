SPECIFICATION FairSpec
CONSTANTS
  NCmds = 1
  QueueCap = 1
  NotifCap = 1
  MaxEvents = 2
  MaxConns = 2
  Faults = {"loss", "slow", "refused", "noise", "garbled", "shutdown"}
INVARIANTS TypeOK InSync OrderedOnce
PROPERTY LoopNeverHangs
CHECK_DEADLOCK FALSE
