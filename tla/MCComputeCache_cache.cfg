CONSTANTS
  Requests = {r1, r2}
  LockTimeout = 2
  MaxHold = 3
  MaxVersion = 1
  LegacyEntries = {None, 0}
  CanFail = TRUE
  Evictions = {"expire", "all", "admin"}
  CanCrash = TRUE
  Large = {FALSE, TRUE}
  None = None
  Nobody = Nobody
SPECIFICATION FairSpec
INVARIANTS TypeOK OneComputes FreshUnlessSpoilt
PROPERTY EveryRequestAnswered
