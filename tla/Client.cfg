CONSTANTS
  r1 = r1
  r2 = r2
  r3 = r3
  x1 = x1
  x2 = x2
  Requests = {r1, r2, r3}
  Resources = {x1, x2}
  ResourceOf <- TwoResources
  Uses <- AllUses
  RetryTimes = 1
  Life = 4
  Advisory = 3
  Mandatory = 2
  OpenAfter = 3
  RetryAfters = {0, 2}
  Faults = {"sts", "throttle", "network", "cancel"}
  MaxFaults = 2
SPECIFICATION Spec
INVARIANTS TypeOK WaitersHavePlaces OneBreaker
PROPERTIES SentTokenIsValid RefreshesOnlyWhenDue EveryRequestEnds
CHECK_DEADLOCK FALSE
