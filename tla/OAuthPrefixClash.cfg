SPECIFICATION Spec
CONSTANTS
  s1 = s1
  s2 = s2
  s3 = s3
  k1 = k1
  k2 = k2
  r1 = r1
  r2 = r2
  Requests <- TwoRequests
  Subjects <- ClashSubjects
  Keys <- ClashKeys
  CacheKey <- ClashPrefix
  CacheTTL = 2
  Lifetimes = {0}
  HttpTimeout = 1
  MaxTime = 1
  Second = 1
  HalfRange = 64
  NoSubject = NoSubject
  NoToken = NoToken
  NoEntry = NoEntry
INVARIANT OwnTokenServed
