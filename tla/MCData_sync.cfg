CONSTANTS
  Callers = {c1}
  RouteVersion = 1
  MaxData = 0
  MaxVersion = 1
  Faults = 0
  File <- MCFile
  Rank <- MCRank
  Fields = {"pagerank"}
  BatchSize = 4
  PageSize = 4
  Statements = 0
  Syncs = {s1}
  MaxSyncs = 1
  MaxImports = 1
  MaxFailures = 0
  MaxLimit = 0
SPECIFICATION DataSpec
PROPERTY SyncGoesOn
CHECK_DEADLOCK FALSE
