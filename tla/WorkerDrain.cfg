SPECIFICATION Spec
CONSTANTS
  k1 = k1
  k2 = k2
  w1 = w1
  w2 = w2
  Workers = {k1, k2}
  Works = {w1}
  Invalid = {}
  NoWorker = NoWorker
  NoWork = NoWork
  TTL = 2
  Faults = {"shutdown", "drain"}
  MaxFaults = 1
PROPERTIES
  StopsOnlyOwnWork
