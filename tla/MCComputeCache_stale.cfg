CONSTANTS
  Requests = {r1, r2}
  LockTimeout = 2
  MaxHold = 1
  MaxVersion = 1
  LegacyEntries = {None}
  CanFail = FALSE
  Evictions = {"all"}
  CanCrash = FALSE
  Large = {FALSE}
  None = None
  Nobody = Nobody
SPECIFICATION Spec
INVARIANT FreshAfterInvalidate
