SPECIFICATION FairSpec
CONSTANTS
  k1 = k1
  k2 = k2
  w1 = w1
  w2 = w2
  Workers = {k1, k2}
  Works = {w1, w2}
  Invalid = {w2}
  NoWorker = NoWorker
  NoWork = NoWork
  TTL = 2
  Faults = {"timeout", "heartbeat", "network", "auth", "setup", "runner", "shutdown", "stop", "crash"}
  MaxFaults = 2
PROPERTIES
  StopsOthersOnlyAfterLease
  EveryWorkEnds
  CompletedMeansDone
INVARIANTS
  TypeOK
  StaleLeaseIsGivenUp
  QuietBeforeStop
