CONSTANTS
  c1 = c1
  c2 = c2
  c3 = c3
  NoCall = NoCall
  Calls = {c1, c2, c3}
  MaxCalls = 2
  Restarts = {c3}
  Hanging = {c1}
  Faults = {"start", "io", "death"}
  MaxFaults = 2
SPECIFICATION Spec
INVARIANTS OkMeansDone BufferIsOfCurrentProcess OnlyAbandonedCallsDisturb AtMostOneProcess
PROPERTY EveryCallReturns
CHECK_DEADLOCK FALSE
