SPECIFICATION Spec
CONSTANTS
  c1 = c1
  c2 = c2
  t1 = t1
  t2 = t2
  Calls = {c1, c2}
  SameId = {c1}
  Opaque = {"o1"}
  Threads = {t1}
  ThreadOf <- OneThread
  Owned = {c1}
  Permission <- AllAllowed
  IdleExit = TRUE
  Modes = {"stream", "list"}
  HasStore = FALSE
  SendRetries = 2
  ConflictRetries = 2
  Faults = {"network", "send", "crash", "interrupt"}
  MaxFaults = 2
  MaxLog = 5
INVARIANTS
  AnsweredIsResolved
PROPERTIES
  IdleLeavesNothingOpen
CHECK_DEADLOCK FALSE
