SPECIFICATION Spec
CONSTANTS
  c1 = c1
  c2 = c2
  t1 = t1
  t2 = t2
  Calls = {c1, c2}
  SameId = {}
  Opaque = {}
  Threads = {t1}
  ThreadOf <- OneThread
  Owned = {c1, c2}
  Permission <- FirstAsks
  IdleExit = TRUE
  Modes = {"stream"}
  HasStore = FALSE
  SendRetries = 2
  ConflictRetries = 2
  Faults = {"crash", "send", "interrupt"}
  MaxFaults = 3
  MaxLog = 6
INVARIANTS
  EndTurnArmsTimer
CHECK_DEADLOCK FALSE
