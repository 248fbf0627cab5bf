CONSTANTS
  Records = {r1, r2}
  BatchSize = 1
  QueueFactor = 2
SPECIFICATION WriterSpec
INVARIANT WrittenIsStored
CHECK_DEADLOCK FALSE
