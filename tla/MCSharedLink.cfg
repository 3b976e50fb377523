SPECIFICATION Spec
CONSTANTS
  j1 = j1
  j2 = j2
  a = a
  b = b
  c = c
  Nil = Nil
  Jobs = {j1}
  Seeds <- TwoSeeds
  Incremental = {}
  Urls = {a, b, c}
  Links <- SharedLink
  MaxDepth = 1
  Crawlers = {c1, c2}
  Parsers = {p1}
  Cleaners = {k1}
  Retriers = {r1}
  Replayers = {d1}
  WorkerMaxAttempts = 2
  RetryMaxAttempts = 2
  MaxReplays = 1
  MaxErrors = 0
  MaxFaults = 0
INVARIANTS RowBeforeEvent AnnouncedOnce
SYMMETRY Symmetry
