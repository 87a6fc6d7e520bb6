SPECIFICATION Spec
CONSTANTS
  Requests = {r1, r2}
  Path = Path
  CacheTTL = 2
  Leases = {0, 1, 5}
  LoginEnds = {0, 9}
  VaultTimeout = 1
  MaxTime = 4
  Second = 1
  HalfRange = 4
  NoSecret = NoSecret
  NoEntry = NoEntry
CHECK_DEADLOCK FALSE
INVARIANT TypeOK
PROPERTIES InjectsLikeOAuth InjectedWithinLease
