SPECIFICATION ATSpec
CONSTANTS
  Requests = {r1, r2}
  Period = 2
  ReadTime = 1
  MaxTime = 5
  MaxVersions = 3
  NoToken = NoToken
  Lifetimes <- MCLifetimes
  BufferPart = 2
INVARIANT ATTypeOK
PROPERTIES ReturnedTokenIsRecent CachedSVIDIsValid AuthTokenReturns
