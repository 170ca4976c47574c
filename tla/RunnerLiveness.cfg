SPECIFICATION FairSpec
CONSTANTS
  c1 = c1
  c2 = c2
  t1 = t1
  t2 = t2
  Calls = {c1, c2}
  SameId = {}
  Opaque = {}
  Threads = {t1}
  ThreadOf <- OneThread
  Owned = {c1, c2}
  Permission <- FirstAsks
  IdleExit = TRUE
  Modes = {"stream", "list"}
  HasStore = TRUE
  SendRetries = 2
  ConflictRetries = 2
  Faults = {"crash", "send", "network"}
  MaxFaults = 1
  MaxLog = 6
PROPERTIES
  AwaitedIsResolved
CHECK_DEADLOCK FALSE
