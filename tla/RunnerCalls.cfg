SPECIFICATION Spec
CONSTANTS
  c1 = c1
  c2 = c2
  t1 = t1
  t2 = t2
  Calls = {c1, c2}
  SameId = {}
  Opaque = {}
  Threads = {t1, t2}
  ThreadOf <- TwoThreads
  Owned = {c1, c2}
  Permission <- SecondAsks
  IdleExit = TRUE
  Modes = {"stream", "list"}
  HasStore = TRUE
  SendRetries = 2
  ConflictRetries = 2
  Faults = {"crash", "send", "timeout", "interrupt"}
  MaxFaults = 2
  MaxLog = 4
INVARIANTS
  OneResultPerCall
  InterruptIsFinal
  ScheduledIsQueued
PROPERTIES
  NoExecutionWithoutConsent
  NeverExecutedAgain
CHECK_DEADLOCK FALSE
