SPECIFICATION Spec
CONSTANTS
  j1 = j1
  j2 = j2
  a = a
  b = b
  c = c
  Nil = Nil
  Jobs = {j1}
  Seeds <- OneSeed
  Incremental = {}
  Urls = {a}
  Links <- SelfLink
  MaxDepth = 1
  Crawlers = {c1}
  Parsers = {p1}
  Cleaners = {k1}
  Retriers = {r1}
  Replayers = {d1}
  WorkerMaxAttempts = 2
  RetryMaxAttempts = 2
  MaxReplays = 1
  MaxErrors = 3
  MaxFaults = 1
INVARIANTS TypeOK ArtifactBeforeEvent ClaimsFollowPipeline AttemptsBounded OneRowPerFault AnnouncedOnce
PROPERTY ImplementsCrawlFlow
