SPECIFICATION Spec
CONSTANTS
  c1 = c1
  c2 = c2
  t1 = t1
  t2 = t2
  Calls = {c1}
  SameId = {}
  Opaque = {}
  Threads = {t1}
  ThreadOf <- OneThread
  Owned = {c1}
  Permission <- AllAllowed
  IdleExit = TRUE
  Modes = {"stream"}
  HasStore = TRUE
  SendRetries = 1
  ConflictRetries = 2
  Faults = {"network", "send", "conflict", "refuse", "store", "timeout", "crash", "cancel", "reschedule", "terminate"}
  MaxFaults = 4
  MaxLog = 6
INVARIANTS
  TypeOK
  SentIsDelivered
PROPERTIES
  NeverExecutedTwice
CHECK_DEADLOCK FALSE
