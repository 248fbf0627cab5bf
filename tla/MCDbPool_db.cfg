CONSTANTS
  Threads = {t1, t2, t3}
  Conns = {c1, c2, c3, c4, c5}
  MinConns = 1
  MaxConns = 2
  MaxIdle = 1
  CanFail = TRUE
  NoConn = NoConn
  Nobody = Nobody
SPECIFICATION Spec
SYMMETRY Symmetry
INVARIANTS TypeOK ExclusiveUse SlotsMatchCallers NoMissedRelease
CHECK_DEADLOCK FALSE
