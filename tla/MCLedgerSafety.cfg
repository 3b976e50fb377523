CONSTANTS
  Consumers = {c1, c2, c3}
  Partitions = {p1, p2}
  Events = {e1, e2}
  Idempotent = TRUE
  None = None
  MaxLog = 2
  MaxCrashes = 2
  MaxRebalances = 1
SPECIFICATION Spec
SYMMETRY Symmetry
CHECK_DEADLOCK FALSE
INVARIANTS TypeOK AtMostOnce CommittedSettled LossNeedsCrash
PROPERTIES CommitsAdvance ImplementsEffectOnce
