CONSTANTS
  Consumers = {c1, c2}
  Partitions = {p1}
  Events = {e1}
  Idempotent = TRUE
  None = None
  MaxLog = 1
  MaxCrashes = 1
  MaxRebalances = 0
SPECIFICATION Spec
CHECK_DEADLOCK FALSE
INVARIANTS ExactlyOnce
