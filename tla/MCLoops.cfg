SPECIFICATION LoopsSpec
CONSTANTS
  c1 = c1
  c2 = c2
  Consumers = {c1, c2}
  Partitions = {p1, p2}
  Events = {e1}
  Idempotent = FALSE
  None = None
  MaxLog = 2
  MaxCrashes = 1
  MaxRebalances = 2
  Crawlers = {c1, c2}
  Token = 4
  Rate = 3
  Burst = 8
  Grace = 2
  Ahead <- Clocks
  MaxSkew = 1
  MaxLag = 1
  Nil = Nil
  LastCall = 3
  MaxTime = 8
  MaxCalls = 4
CHECK_DEADLOCK FALSE
INVARIANTS CommittedSettled LimiterTypeOK PermitsBounded
PROPERTIES Drained Served
