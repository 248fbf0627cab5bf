CONSTANTS
  Callers = {c1, listener}
  Listener = listener
  Stores = {"redis", "mysql", "mongo", "neo4j"}
  MaxClients = 3
  MaxAttempts = 2
  PoolMax = 2
  Faults = 1
  MaxInbox = 1
  Records = {r1, r2, r3, r4}
  BatchSize = 2
  QueueFactor = 1
SPECIFICATION StorageSpec
INVARIANTS TypeOK OneClient OneListener StoredOnce DestructorDrains
PROPERTIES CallsEnd ListenerReconnects DestructorReturns
CHECK_DEADLOCK FALSE
