SPECIFICATION RPSpec
CONSTANTS
  c1 = c1
  c2 = c2
  kA = kA
  kB = kB
  Callers <- TwoCallers
  Kids <- OneKid
  TTL = 1
  CustomClient = TRUE
  FetchTimeout = 1
  MaxTime = 2
  Nil = Nil
  Free = Free
  Tokens <- MCTokens
  NoKid = NoKid
  Stranger = Stranger
  Issuer <- MCIssuer
  Audience <- MCAudience
  RequiredScopes <- MCScopes
  NoToken = NoToken
  Requests <- MCRequests
  NoRequest = NoRequest
  Credentials = {t1, t2}
SYMMETRY Symmetry
INVARIANTS RPTypeOK AnsweredAreCounted
PROPERTIES OnlyVerifiedForwarded RevokedIsTurnedAway
