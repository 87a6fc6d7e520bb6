SPECIFICATION Spec
CONSTANTS
  c1 = c1
  c2 = c2
  kA = kA
  kB = kB
  Callers <- TwoCallers
  Kids <- OneKid
  TTL = 2
  CustomClient = TRUE
  FetchTimeout = 1
  MaxTime = 4
  Nil = Nil
  Free = Free
  Tokens <- SomeTokens
  NoKid = NoKid
  Stranger = Stranger
  Issuer <- MCIssuer
  Audience <- MCAudience
  RequiredScopes <- MCScopes
  NoToken = NoToken
PROPERTIES VerifyReturns AcceptedKeyIsCurrent NoFetchWhileFresh
