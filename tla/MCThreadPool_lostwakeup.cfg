CONSTANTS
  Workers = {w1, w2}
  Clients = {c1}
  Tasks = {t1}
  Depths = {}
  ShutdownModes = {"graceful"}
  PendingModulus = 8
  NoTask = NoTask
  Nobody = Nobody
SPECIFICATION FairSpec
PROPERTY ShutdownReturns
CHECK_DEADLOCK FALSE
