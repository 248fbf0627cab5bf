CONSTANTS
  Callers = {c1, c2}
  RouteVersion = 2
  MaxData = 1
  MaxVersion = 3
  Faults = 1
  File <- MCFile
  Rank <- MCRank
  Fields = {"pagerank", "betweenness"}
  BatchSize = 3
  PageSize = 4
  Statements = 2
  Syncs = {s1, s2}
  MaxSyncs = 2
  MaxImports = 2
  MaxFailures = 1
  MaxLimit = 2
SPECIFICATION DataSpec
SYMMETRY Symmetry
INVARIANTS TypeOK NothingOldRemains GraphTypeOK ScoresOfOneRun WalkIsComplete ImportIsCounted NobodyIsPassedOver
PROPERTY VersionGrows
CHECK_DEADLOCK FALSE
