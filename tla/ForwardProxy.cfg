SPECIFICATION FPSpec
CONSTANTS
  s1 = s1
  s2 = s2
  s3 = s3
  k1 = k1
  k2 = k2
  r1 = r1
  r2 = r2
  Requests <- TwoRequests
  Subjects <- SharedSubjects
  Keys <- SharedKeys
  CacheKey <- SharedPrefix
  CacheTTL = 2
  Lifetimes = {0}
  HttpTimeout = 0
  MaxTime = 0
  Second = 1
  HalfRange = 64
  NoSubject = NoSubject
  NoToken = NoToken
  NoEntry = NoEntry
  hostA = hostA
  hostB = hostB
  hostC = hostC
  Hosts <- MCHosts
  Rules <- MCRules
  DefaultMode = "passthrough"
  NoRequest = NoRequest
  MaxPieces = 1
  MaxTunnels = 1
INVARIANTS FPTypeOK SameKeyServed 
PROPERTIES InjectReturns LeavesAsRuled RequestsAnswered TunnelUnwinds
