CONSTANTS
  Calls = {c1, c2}
  Users = {u1, u2}
  MaxCalls = 4
  MaxAttempts = 2
  KeyTTL = 2
  MaxHold = 1
  Faults = 1
  RedisAtStart = "up"
  Dates = "aware"
SPECIFICATION Spec
SYMMETRY Symmetry
INVARIANTS TypeOK OneLivePerLogin GuardOverrun StalenessIsBounded
PROPERTY LogoutIsFinal
CHECK_DEADLOCK FALSE
