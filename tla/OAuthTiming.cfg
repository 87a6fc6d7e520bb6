SPECIFICATION Spec
CONSTANTS
  s1 = s1
  s2 = s2
  s3 = s3
  k1 = k1
  k2 = k2
  r1 = r1
  r2 = r2
  Requests <- TwoRequests
  Subjects <- DistinctSubjects
  Keys <- DistinctKeys
  CacheKey <- DistinctPrefix
  CacheTTL = 2
  Lifetimes = {0, 1, 3, 5}
  HttpTimeout = 1
  MaxTime = 4
  Second = 1
  HalfRange = 4
  NoSubject = NoSubject
  NoToken = NoToken
  NoEntry = NoEntry
SYMMETRY Symmetry
INVARIANT OwnTokenServed
PROPERTIES InjectedSoonAfterExpiryAtMost ReusedForCacheTTLAtMost ImplementsInjection
