--------------------------- MODULE TokenCacheProofs ---------------------------
(***************************************************************************)
(* TokenCache implements TokenStore, for every set of keys, tokens and     *)
(* time-to-live values.                                                    *)
(***************************************************************************)
EXTENDS TokenCache, TLAPS

(* The cache, the clock and the replies keep their types under every       *)
(* sequence of operations (token_cache.go:36-107).                         *)
THEOREM TypeCorrect == Spec => []TypeOK
<1> USE NoEntryAssumption, CacheAssumption DEF TypeOK, Entry
<1>1. Init => TypeOK
  BY DEF Init, EmptyCache
<1>2. TypeOK /\ [Next]_vars => TypeOK'
  <2> SUFFICES ASSUME TypeOK, [Next]_vars PROVE TypeOK'
    OBVIOUS
  <2>1. ASSUME NEW k \in Keys, Get(k) PROVE TypeOK'
    BY <2>1 DEF Get, Hit
  <2>2. ASSUME NEW k \in Keys, Delete(k) PROVE TypeOK'
    BY <2>2 DEF Delete, Drop
  <2>3. ASSUME NEW k \in Keys, NEW token \in Tokens, NEW ttl \in TTLs,
               Set(k, token, ttl)
        PROVE  TypeOK'
    BY <2>3 DEF Set, Put
  <2>4. CASE Clear
    BY <2>4 DEF Clear, EmptyCache
  <2>5. CASE cleanupExpired
    BY <2>5 DEF cleanupExpired, Purge
  <2>6. CASE Tick
    BY <2>6 DEF Tick
  <2>7. CASE UNCHANGED vars
    BY <2>7 DEF vars
  <2>8. QED
    BY <2>1, <2>2, <2>3, <2>4, <2>5, <2>6, <2>7 DEF Next
<1>3. QED
  BY <1>1, <1>2, PTL DEF Spec

-----------------------------------------------------------------------------
(* One step of the cache is one step of the store or leaves it alone.      *)
LEMMA StepSimulation ==
  ASSUME TypeOK, [Next]_vars
  PROVE  [Store!Next]_(Store!vars)
<1> USE NoEntryAssumption, CacheAssumption
        DEF TypeOK, Entry, Visible, Hit, Expired
<1>1. ASSUME NEW k \in Keys, Get(k) PROVE Store!Ask(k)
  BY <1>1 DEF Get, Store!Ask
<1>2. ASSUME NEW k \in Keys, Delete(k) PROVE Store!Forget({k})
  BY <1>2 DEF Delete, Drop, Store!Forget
<1>3. ASSUME NEW k \in Keys, NEW token \in Tokens, NEW ttl \in TTLs,
             Set(k, token, ttl)
      PROVE  Store!Keep(k, token, ttl)
  <2>1. /\ now' = now /\ reply' = reply
        /\ cache' = [cache EXCEPT ![k] = [token |-> token,
                                          expiresAt |-> now + ttl]]
    BY <1>3 DEF Set, Put
  <2>2. ttl \in Int /\ now \in Int /\ cache \in [Keys -> Entry \union {NoEntry}]
    OBVIOUS
  <2>3. [token |-> token, expiresAt |-> now + ttl] # NoEntry
    BY <2>2
  <2>4. ASSUME NEW j \in Keys
        PROVE  Visible'[j] = [Visible EXCEPT ![k] =
                                IF ttl < 0 THEN NoToken
                                ELSE [token |-> token, until |-> now + ttl]][j]
    <3>1. CASE j = k
      BY <3>1, <2>1, <2>2, <2>3
    <3>2. CASE j # k
      BY <3>2, <2>1, <2>2
    <3>3. QED
      BY <3>1, <3>2
  <2>5. QED
    BY <2>1, <2>4 DEF Store!Keep
<1>4. ASSUME Clear PROVE Store!Forget(Keys)
  BY <1>4 DEF Clear, EmptyCache, Store!Forget
<1>5. ASSUME cleanupExpired PROVE UNCHANGED Store!vars
  BY <1>5 DEF cleanupExpired, Purge, Store!vars
<1>6. ASSUME Tick PROVE Store!Tick
  <2>1. /\ now' = now + 1 /\ reply' = reply /\ cache' = cache
        /\ now \in Int
    BY <1>6 DEF Tick
  <2>2. ASSUME NEW k \in Keys
        PROVE  Visible'[k] = IF Visible[k] # NoToken /\ Visible[k].until >= now'
                             THEN Visible[k] ELSE NoToken
    BY <2>1
  <2>3. QED
    BY <2>1, <2>2 DEF Store!Tick
<1>7. ASSUME UNCHANGED vars PROVE UNCHANGED Store!vars
  BY <1>7 DEF vars, Store!vars
<1>8. QED
  BY <1>1, <1>2, <1>3, <1>4, <1>5, <1>6, <1>7 DEF Next, Store!Next

(* A caller of the cache cannot tell lazy expiry from tokens that vanish   *)
(* at their deadline (token_cache.go:36-107).                              *)
THEOREM CacheImplementsStore == Spec => ImplementsStore
<1>1. Init => Store!Init
  BY NoEntryAssumption DEF Init, Store!Init, Visible, EmptyCache, Hit
<1>2. TypeOK /\ [Next]_vars => [Store!Next]_(Store!vars)
  BY StepSimulation
<1>3. QED
  BY <1>1, <1>2, TypeCorrect, PTL DEF Spec, ImplementsStore, Store!Spec
=============================================================================
