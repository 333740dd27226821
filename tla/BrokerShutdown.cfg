SPECIFICATION Spec
CONSTANTS
  NCmds = 1
  QueueCap = 1
  NotifCap = 1
  MaxEvents = 0
  MaxConns = 1
  Faults = {"shutdown"}
INVARIANT WriterOutlivesDrain
CHECK_DEADLOCK FALSE
