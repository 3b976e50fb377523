SPECIFICATION FairSpec
CONSTANTS
  j1 = j1
  j2 = j2
  a = a
  b = b
  c = c
  Nil = Nil
  Jobs = {j1, j2}
  Seeds <- TwoJobs
  Incremental = {j2}
  Urls = {a}
  Links <- NoLink
  MaxDepth = 0
  Crawlers = {c1}
  Parsers = {p1}
  Cleaners = {k1}
  Retriers = {r1}
  Replayers = {d1}
  WorkerMaxAttempts = 2
  RetryMaxAttempts = 1
  MaxReplays = 1
  MaxErrors = 0
  MaxFaults = 1
INVARIANTS OneRowPerFault
PROPERTIES Drains
