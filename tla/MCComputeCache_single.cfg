CONSTANTS
  Requests = {r1, r2}
  LockTimeout = 2
  MaxHold = 3
  MaxVersion = 0
  LegacyEntries = {None}
  CanFail = FALSE
  Evictions = {}
  CanCrash = FALSE
  Large = {FALSE}
  None = None
  Nobody = Nobody
SPECIFICATION Spec
INVARIANT FirstComputes
