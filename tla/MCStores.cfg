SPECIFICATION MCSpec
CONSTANTS
  Schedules = {s1, s2}
  Crons = {hourly, daily, invalid}
  Valid = {hourly, daily}
  Requests = {r1, r2}
  Nil = Nil
  Contents = {x, y}
  Jobs = {j1, j2}
  Visits = {v1, v2, v3}
  j1 = j1
  j2 = j2
  v1 = v1
  v2 = v2
  v3 = v3
  JobOf <- TwoJobs
  a = a
  b = b
  Names = {a, b}
  Paths <- PathsOfPages
  Queries <- QueriesOfPages
  MaxSlashes = 2
  Bases <- PlainPages
  NoHash = NoHash
  MaxChanges = 2
  MaxFaults = 1
SYMMETRY Symmetry
CHECK_DEADLOCK FALSE
INVARIANTS TypeOK EntriesFollowRows ContentTypeOK RowsAgree TextHasChecksum SkippedWasKept VisitSettles UrlTypeOK KeyNamesPage SeedsAndLinksAgree
PROPERTY NoRunAfterDisable
