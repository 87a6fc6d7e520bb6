SPECIFICATION Spec
CONSTANTS
  c1 = c1
  c2 = c2
  kA = kA
  kB = kB
  Callers <- TwoCallers
  Kids <- TwoKids
  TTL = 2
  CustomClient = TRUE
  FetchTimeout = 1
  MaxTime = 1
  Nil = Nil
  Free = Free
  Tokens <- SomeTokens
  NoKid = NoKid
  Stranger = Stranger
  Issuer <- MCIssuer
  Audience <- MCAudience
  RequiredScopes <- MCScopes
  NoToken = NoToken
INVARIANT GetReturnsKeysOrError
