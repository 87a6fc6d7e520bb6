SPECIFICATION Spec
CONSTANTS
  Keys = {k1, k2}
  Tokens = {tokA, tokB}
  NoEntry = NoEntry
  NoToken = NoToken
  TTLs <- MCTTLs
  MaxTime = 4
INVARIANT TypeOK
PROPERTIES ImplementsStore ExpiredArePurged
