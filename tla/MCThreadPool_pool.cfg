CONSTANTS
  Workers = {w1, w2}
  Clients = {c1, c2}
  Tasks = {t1, t2}
  Depths = {0, 1}
  ShutdownModes = {"graceful", "now"}
  PendingModulus = 8
  NoTask = NoTask
  Nobody = Nobody
SPECIFICATION FairSpec
INVARIANTS TypeOK PendingExact
PROPERTIES ImplementsService AcceptedIsRun ImmediateShutdownReturns
CHECK_DEADLOCK FALSE
