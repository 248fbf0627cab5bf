CONSTANTS
  Callers = {c1, c2}
  Nobody = nobody
  PoolSize = 1
  MaxRetries = 2
  MaxCalls = 3
  MaxConns = 2
  MaxClients = 2
  EngineFaults = 1
  Requests = {r1, r2, r3}
  Limit = 1
  Window = 2
  MaxTime = 3
  TrafficFaults = 1
  Live = {l1, l2, l3}
  Analysis = {a1}
  NoSocket = nosocket
SPECIFICATION Spec
INVARIANTS TypeOK RightReply WindowBound LoggedOnce
PROPERTIES EngineAnswers FeedServes
CHECK_DEADLOCK FALSE
