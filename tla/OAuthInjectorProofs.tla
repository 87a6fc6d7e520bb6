-------------------------- MODULE OAuthInjectorProofs --------------------------
(***************************************************************************)
(* Which token a request leaves with, and how old it can be: proofs for    *)
(* any number of requests, subjects and keys, any cacheTtl, any expires_in *)
(* and any width of a Duration.                                            *)
(***************************************************************************)
EXTENDS OAuthInjector, TLAPS

(* Wrapping a non-negative product never makes it larger.                  *)
LEMMA WrapBelow ==
  ASSUME NEW x \in Nat
  PROVE  Wrap(x) \in Int /\ Wrap(x) <= x
<1>1. /\ HalfRange \in Nat /\ HalfRange > 0
  BY DurationAssumption
<1>2. ASSUME NEW a \in Nat, NEW b \in Nat, b > 0
      PROVE  a % b \in Int /\ a % b <= a
  BY <1>2
<1>3. (x + HalfRange) % (2 * HalfRange) \in Int
      /\ (x + HalfRange) % (2 * HalfRange) <= x + HalfRange
  BY <1>1, <1>2
<1>4. QED
  BY <1>1, <1>3 DEF Wrap

(* The ttl handed to the cache never exceeds cacheTtl, and never exceeds a *)
(* positive expires_in or lease_duration, even when the conversion to a    *)
(* Duration overflows (oauth_exchange.go:167-176, vault_injector.go:147-157). *)
THEOREM EffectiveTTLBounded ==
  ASSUME NEW cap \in Int, NEW secs \in Int
  PROVE  /\ EffectiveTTL(cap, secs) \in Int
         /\ EffectiveTTL(cap, secs) <= cap
         /\ secs > 0 => EffectiveTTL(cap, secs) <= secs * Second
<1>1. CASE secs > 0
  <2>1. secs * Second \in Nat
    BY <1>1, DurationAssumption
  <2>2. Wrap(secs * Second) \in Int /\ Wrap(secs * Second) <= secs * Second
    BY <2>1, WrapBelow
  <2> HIDE DEF Wrap
  <2>3. QED
    BY <1>1, <2>1, <2>2 DEF EffectiveTTL
<1>2. CASE ~(secs > 0)
  BY <1>2 DEF EffectiveTTL
<1>3. QED
  BY <1>1, <1>2

-----------------------------------------------------------------------------
\* Every cached token was exchanged for a subject with the key it is under.
CacheAgrees ==
  \A k \in Keys : cache[k] # NoEntry => CacheKey[cache[k].token.sub] = k

\* An answer exists only during its exchange, and is for its own subject.
AnswerAgrees ==
  \A r \in Requests :
    answer[r] # NoToken => pc[r] = "exchange" /\ answer[r].sub = subject[r]

\* An exchange lasts HttpTimeout at most, and its token is issued during it.
ExchangeInTime ==
  \A r \in Requests :
    pc[r] = "exchange" =>
      /\ sentAt[r] <= now /\ now <= sentAt[r] + HttpTimeout
      /\ answer[r] # NoToken => sentAt[r] <= answer[r].issued

\* When a token with a lifetime, and any token at all, must be gone.
Fresh(token, t) ==
  /\ token.life > 0 => t <= token.issued + token.life * Second + HttpTimeout
  /\ t <= token.issued + CacheTTL + HttpTimeout

DeadlinesBounded ==
  \A k \in Keys : cache[k] # NoEntry => Fresh(cache[k].token, cache[k].expiresAt)

\* A token is only put into a request that brought a subject.
HeaderAgrees == \A r \in Requests : header[r] # NoToken => subject[r] \in Subjects

IInv == /\ TypeOK
        /\ HeaderAgrees
        /\ CacheAgrees
        /\ AnswerAgrees
        /\ ExchangeInTime
        /\ DeadlinesBounded
        /\ SameKeyServed

-----------------------------------------------------------------------------
(* The ttl of an answer, with its bounds.                                  *)
LEMMA TTLOfAnswer ==
  ASSUME NEW life \in Lifetimes
  PROVE  /\ EffectiveTTL(CacheTTL, life) \in Int
         /\ EffectiveTTL(CacheTTL, life) <= CacheTTL
         /\ life > 0 => EffectiveTTL(CacheTTL, life) <= life * Second
<1>1. CacheTTL \in Int /\ life \in Int
  BY OAuthAssumption, DurationAssumption
<1>2. QED
  BY <1>1, EffectiveTTLBounded

(* A token stored or injected when its response is in is still Fresh, and  *)
(* so is its deadline.                                                     *)
LEMMA AnswerIsFresh ==
  ASSUME TypeOK, ExchangeInTime, NEW r \in Requests,
         pc[r] = "exchange", answer[r] # NoToken
  PROVE  /\ Fresh(answer[r], now)
         /\ Fresh(answer[r], now + EffectiveTTL(CacheTTL, answer[r].life))
<1>1. /\ answer[r] \in ExchangedToken /\ now \in Nat /\ sentAt[r] \in Nat
      /\ HttpTimeout \in Nat /\ CacheTTL \in Nat /\ Second \in Nat
  BY OAuthAssumption, DurationAssumption DEF TypeOK
<1>2. now <= answer[r].issued + HttpTimeout
  BY <1>1 DEF ExchangeInTime, ExchangedToken
<1> DEFINE life == answer[r].life
           ttl  == EffectiveTTL(CacheTTL, life)
           span == life * Second
<1>3. /\ life \in Int /\ answer[r].issued \in Int /\ ttl \in Int /\ span \in Int
      /\ ttl <= CacheTTL
      /\ life > 0 => ttl <= span
  <2>1. life \in Lifetimes /\ life \in Int /\ answer[r].issued \in Int
    BY <1>1, OAuthAssumption DEF ExchangedToken
  <2>2. span \in Int
    BY <1>1, <2>1
  <2>3. QED
    BY <2>1, <2>2, TTLOfAnswer
<1>4. life > 0 => span >= 0
  BY <1>1, <1>3
<1> HIDE DEF ttl, span
<1>5. Fresh(answer[r], now)
  <2>1. now <= answer[r].issued + CacheTTL + HttpTimeout
    BY <1>1, <1>2, <1>3
  <2>2. life > 0 => now <= answer[r].issued + span + HttpTimeout
    BY <1>1, <1>2, <1>3, <1>4
  <2>3. QED
    BY <2>1, <2>2 DEF Fresh, span
<1>6. Fresh(answer[r], now + ttl)
  <2>1. now + ttl <= answer[r].issued + CacheTTL + HttpTimeout
    BY <1>1, <1>2, <1>3
  <2>2. life > 0 => now + ttl <= answer[r].issued + span + HttpTimeout
    BY <1>1, <1>2, <1>3
  <2>3. QED
    BY <2>1, <2>2 DEF Fresh, span
<1>7. QED
  BY <1>5, <1>6 DEF ttl

-----------------------------------------------------------------------------
(* The invariant holds before the first request.                           *)
LEMMA InitIInv == Init => IInv
<1> SUFFICES ASSUME Init PROVE IInv
  OBVIOUS
<1>1. TypeOK
  BY DEF Init, TypeOK, Phases, Cache!EmptyCache
<1>2. QED
  BY <1>1 DEF Init, IInv, CacheAgrees, AnswerAgrees, ExchangeInTime,
              DeadlinesBounded, SameKeyServed, HeaderAgrees, Cache!EmptyCache

(* Every step of the injector keeps the invariant.                         *)
LEMMA StepIInv == IInv /\ [Next]_vars => IInv'
<1> SUFFICES ASSUME IInv, [Next]_vars PROVE IInv'
  OBVIOUS
<1> USE OAuthAssumption DEF IInv
<1>1. ASSUME NEW r \in Requests, Arrive(r) PROVE IInv'
  <2>1. TypeOK'
    BY <1>1 DEF Arrive, TypeOK, Phases
  <2>2. pc[r] # "exchange" /\ answer[r] = NoToken
    BY <1>1 DEF Arrive, AnswerAgrees
  <2>3. AnswerAgrees' /\ ExchangeInTime'
    BY <1>1, <2>2 DEF Arrive, TypeOK, AnswerAgrees, ExchangeInTime
  <2>4. SameKeyServed' /\ HeaderAgrees'
    BY <1>1 DEF Arrive, TypeOK, SameKeyServed, HeaderAgrees
  <2>5. CacheAgrees' /\ DeadlinesBounded'
    BY <1>1 DEF Arrive, CacheAgrees, DeadlinesBounded
  <2>6. QED
    BY <2>1, <2>3, <2>4, <2>5
<1>2. ASSUME NEW r \in Requests, LookupHit(r) PROVE IInv'
  <2> DEFINE k == CacheKey[subject[r]]
  <2>1. /\ subject[r] \in Subjects /\ k \in Keys
        /\ cache[k] # NoEntry /\ cache[k] \in Cache!Entry
    BY <1>2 DEF LookupHit, TypeOK, getCacheKey, Cache!Hit
  <2>2. cache[k].token \in ExchangedToken
    BY <2>1 DEF Cache!Entry
  <2>3. /\ header' = [header EXCEPT ![r] = cache[k].token]
        /\ pc' = [pc EXCEPT ![r] = "done"]
        /\ UNCHANGED <<now, cache, subject, sentAt, answer>>
        /\ pc[r] = "lookup"
    BY <1>2 DEF LookupHit, getCacheKey
  <2>4. TypeOK'
    BY <2>2, <2>3 DEF TypeOK, Phases
  <2>5. AnswerAgrees' /\ ExchangeInTime'
    BY <2>3 DEF TypeOK, AnswerAgrees, ExchangeInTime
  <2>6. SameKeyServed' /\ HeaderAgrees'
    BY <2>1, <2>3 DEF TypeOK, SameKeyServed, HeaderAgrees, CacheAgrees
  <2>7. CacheAgrees' /\ DeadlinesBounded'
    BY <2>3 DEF CacheAgrees, DeadlinesBounded
  <2>8. QED
    BY <2>4, <2>5, <2>6, <2>7
<1>3. ASSUME NEW r \in Requests, LookupMiss(r) PROVE IInv'
  BY <1>3 DEF LookupMiss, TypeOK, Phases, CacheAgrees, AnswerAgrees,
              ExchangeInTime, DeadlinesBounded, SameKeyServed, HeaderAgrees
<1>4. ASSUME NEW r \in Requests, SendExchange(r) PROVE IInv'
  <2>1. TypeOK' /\ SameKeyServed' /\ HeaderAgrees' /\ CacheAgrees'
        /\ DeadlinesBounded'
    BY <1>4 DEF SendExchange, TypeOK, Phases, SameKeyServed, HeaderAgrees, CacheAgrees,
                DeadlinesBounded
  <2>2. answer[r] = NoToken
    BY <1>4 DEF SendExchange, AnswerAgrees
  <2>3. AnswerAgrees' /\ ExchangeInTime'
    BY <1>4, <2>2 DEF SendExchange, TypeOK, AnswerAgrees, ExchangeInTime
  <2>4. QED
    BY <2>1, <2>3
<1>5. ASSUME NEW r \in Requests, IssueToken(r) PROVE IInv'
  <2>1. PICK life \in Lifetimes :
          answer' = [answer EXCEPT ![r] =
                       [sub |-> subject[r], issued |-> now, life |-> life]]
    BY <1>5 DEF IssueToken
  <2>2. pc[r] = "exchange" /\ UNCHANGED <<now, cache, pc, subject, sentAt, header>>
    BY <1>5 DEF IssueToken
  <2>3. [sub |-> subject[r], issued |-> now, life |-> life] \in ExchangedToken
    BY <2>2 DEF TypeOK, ExchangedToken
  <2>4. TypeOK' /\ SameKeyServed' /\ HeaderAgrees' /\ CacheAgrees'
        /\ DeadlinesBounded'
    BY <2>1, <2>2, <2>3 DEF TypeOK, SameKeyServed, HeaderAgrees, CacheAgrees, DeadlinesBounded
  <2>5. AnswerAgrees'
    BY <2>1, <2>2 DEF TypeOK, AnswerAgrees
  <2>6. now \in Nat /\ sentAt[r] \in Nat /\ sentAt[r] <= now
    BY <2>2 DEF TypeOK, ExchangeInTime
  <2>7. ExchangeInTime'
    BY <2>1, <2>2, <2>6 DEF TypeOK, ExchangeInTime
  <2>8. QED
    BY <2>4, <2>5, <2>7
<1>6. ASSUME NEW r \in Requests, StoreAndInject(r) PROVE IInv'
  <2> DEFINE k   == CacheKey[subject[r]]
             ttl == EffectiveTTL(CacheTTL, answer[r].life)
             new == [token |-> answer[r], expiresAt |-> now + ttl]
  <2>1. /\ pc[r] = "exchange" /\ answer[r] # NoToken
        /\ answer[r] \in ExchangedToken /\ answer[r].life \in Lifetimes
        /\ subject[r] \in Subjects /\ k \in Keys
        /\ answer[r].sub = subject[r]
    BY <1>6 DEF StoreAndInject, TypeOK, AnswerAgrees, ExchangedToken
  <2>2. /\ cache' = [cache EXCEPT ![k] = new]
        /\ header' = [header EXCEPT ![r] = answer[r]]
        /\ pc' = [pc EXCEPT ![r] = "done"]
        /\ sentAt' = [sentAt EXCEPT ![r] = 0]
        /\ answer' = [answer EXCEPT ![r] = NoToken]
        /\ UNCHANGED <<now, subject>>
    BY <1>6 DEF StoreAndInject, getCacheKey, Cache!Put
  <2>3. Fresh(answer[r], now + ttl)
    BY <2>1, AnswerIsFresh
  <2>4. new \in Cache!Entry
    <3>1. ttl \in Int
      BY <2>1, TTLOfAnswer
    <3>2. now + ttl \in Int
      BY <3>1 DEF TypeOK
    <3>3. QED
      BY <2>1, <3>2 DEF Cache!Entry
  <2> HIDE DEF new
  <2>5. TypeOK'
    BY <2>1, <2>2, <2>4 DEF TypeOK, Phases
  <2>6. new.token = answer[r] /\ new.expiresAt = now + ttl
    BY DEF new
  <2>7. CacheAgrees'
    BY <2>1, <2>2, <2>6 DEF CacheAgrees, TypeOK
  <2>8. DeadlinesBounded'
    <3>1. Fresh(new.token, new.expiresAt)
      BY <2>3, <2>6
    <3>2. QED
      BY <2>2, <3>1 DEF DeadlinesBounded, TypeOK, Fresh
  <2>9. AnswerAgrees' /\ ExchangeInTime' /\ SameKeyServed' /\ HeaderAgrees'
    BY <2>1, <2>2 DEF TypeOK, AnswerAgrees, ExchangeInTime, SameKeyServed, HeaderAgrees
  <2>10. QED
    BY <2>5, <2>7, <2>8, <2>9
<1>7. ASSUME NEW r \in Requests, Fail(r) PROVE IInv'
  <2>1. TypeOK' /\ SameKeyServed' /\ HeaderAgrees' /\ CacheAgrees'
        /\ DeadlinesBounded'
    BY <1>7 DEF Fail, TypeOK, Phases, SameKeyServed, HeaderAgrees, CacheAgrees, DeadlinesBounded
  <2>2. AnswerAgrees' /\ ExchangeInTime'
    BY <1>7 DEF Fail, TypeOK, AnswerAgrees, ExchangeInTime
  <2>3. QED
    BY <2>1, <2>2
<1>8. ASSUME CleanupCache \/ Close PROVE IInv'
  <2>1. /\ cache' \in [Keys -> Cache!Entry \union {NoEntry}]
        /\ \A k \in Keys : cache'[k] # NoEntry => cache'[k] = cache[k]
        /\ UNCHANGED <<now, pc, subject, sentAt, answer, header>>
    BY <1>8 DEF CleanupCache, Close, Cache!Purge, Cache!EmptyCache, TypeOK
  <2>2. TypeOK' /\ SameKeyServed' /\ HeaderAgrees' /\ AnswerAgrees' /\ ExchangeInTime'
    BY <2>1 DEF TypeOK, SameKeyServed, HeaderAgrees, AnswerAgrees, ExchangeInTime
  <2>3. CacheAgrees' /\ DeadlinesBounded'
    BY <2>1 DEF CacheAgrees, DeadlinesBounded, Fresh
  <2>4. QED
    BY <2>2, <2>3
<1>9. CASE Tick
  <2>1. TypeOK' /\ SameKeyServed' /\ HeaderAgrees' /\ AnswerAgrees'
    BY <1>9 DEF Tick, TypeOK, SameKeyServed, HeaderAgrees, AnswerAgrees
  <2>2. CacheAgrees' /\ DeadlinesBounded' /\ ExchangeInTime'
    BY <1>9 DEF Tick, TypeOK, CacheAgrees, DeadlinesBounded, ExchangeInTime
  <2>3. QED
    BY <2>1, <2>2
<1>10. CASE UNCHANGED vars
  BY <1>10 DEF vars, TypeOK, SameKeyServed, HeaderAgrees, CacheAgrees, AnswerAgrees,
               ExchangeInTime, DeadlinesBounded
<1>11. QED
  BY <1>1, <1>2, <1>3, <1>4, <1>5, <1>6, <1>7, <1>8, <1>9, <1>10
     DEF Next, Inject

-----------------------------------------------------------------------------
(* The inductive invariant holds in every reachable state.                 *)
THEOREM InvariantHolds == Spec => []IInv
  BY InitIInv, StepIInv, PTL DEF Spec

(* The state of the injector keeps its types (oauth_exchange.go:132-393).  *)
THEOREM TypeCorrect == Spec => []TypeOK
<1>1. IInv => TypeOK
  BY DEF IInv
<1>2. QED
  BY <1>1, InvariantHolds, PTL

(* No interleaving of requests, hits, purges and Close makes a request     *)
(* leave with a token exchanged under another cache key.                   *)
THEOREM ServesSameKey == Spec => []SameKeyServed
<1>1. IInv => SameKeyServed
  BY DEF IInv
<1>2. QED
  BY <1>1, InvariantHolds, PTL

(* If no two subjects had the same first 16 characters, every request      *)
(* would leave with the token exchanged for its own subject.               *)
THEOREM ServesOwnToken ==
  ASSUME \A s, t \in Subjects : CacheKey[s] = CacheKey[t] => s = t
  PROVE  Spec => []OwnTokenServed
<1>1. IInv => OwnTokenServed
  <2> SUFFICES ASSUME IInv, NEW r \in Requests, header[r] # NoToken
               PROVE  header[r].sub = subject[r]
    BY DEF OwnTokenServed
  <2>1. CacheKey[header[r].sub] = CacheKey[subject[r]]
    BY DEF IInv, SameKeyServed
  <2>2. header[r].sub \in Subjects /\ subject[r] \in Subjects
    BY DEF IInv, HeaderAgrees, TypeOK, ExchangedToken
  <2>3. QED
    BY <2>1, <2>2
<1>2. QED
  BY <1>1, InvariantHolds, PTL

-----------------------------------------------------------------------------
(* A hit puts in a fresh token: its entry was good, and so is its token.   *)
LEMMA HitIsFresh ==
  ASSUME IInv, NEW r \in Requests, LookupHit(r)
  PROVE  /\ header'[r] \in ExchangedToken /\ Fresh(header'[r], now)
         /\ header' = [header EXCEPT ![r] = header'[r]]
<1> USE OAuthAssumption DEF IInv
<1> DEFINE k == CacheKey[subject[r]]
<1>1. /\ k \in Keys /\ cache[k] # NoEntry /\ cache[k] \in Cache!Entry
      /\ now <= cache[k].expiresAt
      /\ header' = [header EXCEPT ![r] = cache[k].token]
  BY DEF LookupHit, getCacheKey, Cache!Hit, Cache!Expired, Cache!Entry, TypeOK
<1>2. header'[r] = cache[k].token
  BY <1>1 DEF TypeOK
<1>3. /\ cache[k].token \in ExchangedToken /\ cache[k].expiresAt \in Int
      /\ Fresh(cache[k].token, cache[k].expiresAt)
  BY <1>1 DEF Cache!Entry, DeadlinesBounded
<1>4. Fresh(cache[k].token, now)
  <2> DEFINE span == cache[k].token.life * Second
  <2>1. /\ now \in Int /\ HttpTimeout \in Int /\ CacheTTL \in Int
        /\ cache[k].token.issued \in Int /\ cache[k].token.life \in Int
    <3>1. CacheTTL \in Int /\ HttpTimeout \in Int /\ now \in Int
      BY DurationAssumption DEF TypeOK
    <3>2. QED
      BY <1>3, <3>1 DEF ExchangedToken
  <2>2. span \in Int
    BY <2>1, DurationAssumption
  <2>3. cache[k].token.life > 0 =>
          cache[k].expiresAt <= cache[k].token.issued + span + HttpTimeout
    BY <1>3 DEF Fresh
  <2>4. cache[k].expiresAt <= cache[k].token.issued + CacheTTL + HttpTimeout
    BY <1>3 DEF Fresh
  <2> HIDE DEF span
  <2>5. cache[k].token.life > 0 => now <= cache[k].token.issued + span + HttpTimeout
    BY <1>1, <1>3, <2>1, <2>2, <2>3
  <2>6. now <= cache[k].token.issued + CacheTTL + HttpTimeout
    BY <1>1, <1>3, <2>1, <2>4
  <2>7. QED
    BY <2>5, <2>6 DEF Fresh, span
<1>5. QED
  BY <1>1, <1>2, <1>3, <1>4

(* So does a goroutine whose exchange is over.                             *)
LEMMA StoredIsFresh ==
  ASSUME IInv, NEW r \in Requests, StoreAndInject(r)
  PROVE  /\ header'[r] \in ExchangedToken /\ Fresh(header'[r], now)
         /\ header' = [header EXCEPT ![r] = header'[r]]
<1>1. /\ pc[r] = "exchange" /\ answer[r] # NoToken
      /\ header' = [header EXCEPT ![r] = answer[r]]
      /\ answer[r] \in ExchangedToken
  BY DEF StoreAndInject, IInv, TypeOK
<1>2. header'[r] = answer[r]
  BY <1>1 DEF IInv, TypeOK
<1>3. QED
  BY <1>1, <1>2, AnswerIsFresh DEF IInv

(* A step that puts a token into a request puts in a fresh one.            *)
LEMMA InjectsFresh ==
  ASSUME IInv, [Next]_vars, NEW r \in Requests, Injects(r)
  PROVE  header'[r] \in ExchangedToken /\ Fresh(header'[r], now)
<1> USE OAuthAssumption DEF IInv, Injects
<1>1. ASSUME NEW q \in Requests, LookupHit(q)
      PROVE  header'[r] \in ExchangedToken /\ Fresh(header'[r], now)
  <2>1. header' = [header EXCEPT ![q] = header'[q]]
    BY <1>1, HitIsFresh
  <2>2. q = r
    BY <2>1 DEF TypeOK
  <2>3. QED
    BY <1>1, <2>2, HitIsFresh
<1>2. ASSUME NEW q \in Requests, StoreAndInject(q)
      PROVE  header'[r] \in ExchangedToken /\ Fresh(header'[r], now)
  <2>1. header' = [header EXCEPT ![q] = header'[q]]
    BY <1>2, StoredIsFresh
  <2>2. q = r
    BY <2>1 DEF TypeOK
  <2>3. QED
    BY <1>2, <2>2, StoredIsFresh
<1>3. ASSUME NEW q \in Requests, Arrive(q) PROVE FALSE
  BY <1>3 DEF Arrive, TypeOK
<1>4. ASSUME header' = header PROVE FALSE
  BY <1>4
<1>5. QED
  BY <1>1, <1>2, <1>3, <1>4
     DEF Next, Inject, LookupMiss, SendExchange, IssueToken, Fail,
         CleanupCache, Close, Tick, vars

LEMMA SafeAges ==
  Init /\ [][Next]_vars => InjectedSoonAfterExpiryAtMost /\ ReusedForCacheTTLAtMost
<1>1. IInv /\ [Next]_vars =>
        [\A r \in Requests :
           (Injects(r) /\ header'[r].life > 0) =>
             now <= header'[r].issued + header'[r].life * Second + HttpTimeout]_vars
  BY InjectsFresh DEF Fresh
<1>2. IInv /\ [Next]_vars =>
        [\A r \in Requests :
           Injects(r) => now <= header'[r].issued + CacheTTL + HttpTimeout]_vars
  BY InjectsFresh DEF Fresh
<1>3. QED
  BY <1>1, <1>2, InitIInv, StepIInv, PTL
     DEF InjectedSoonAfterExpiryAtMost, ReusedForCacheTTLAtMost

(* Lazy expiry, the response's delay and every race between exchanges      *)
(* together add at most one HttpTimeout to a token's stated lifetime.      *)
THEOREM InjectsSoonAfterExpiryAtMost == Spec => InjectedSoonAfterExpiryAtMost
BY SafeAges, PTL DEF Spec

(* ... and at most one HttpTimeout to cacheTtl.                            *)
THEOREM ReusesForCacheTTLAtMost == Spec => ReusedForCacheTTLAtMost
BY SafeAges, PTL DEF Spec

-----------------------------------------------------------------------------
(* What a request sees of a goroutine that moves.                          *)
LEMMA ProgressMoves ==
  ASSUME TypeOK, NEW r \in Requests, NEW p \in Phases, pc' = [pc EXCEPT ![r] = p]
  PROVE  Progress' = [Progress EXCEPT ![r] =
                        IF p \in {"lookup", "auth", "exchange"} THEN "busy" ELSE p]
BY DEF TypeOK, Progress

(* A token that is fresh and of the right key is what was promised.        *)
LEMMA FreshIsUsable ==
  ASSUME IInv', NEW r \in Requests, header'[r] \in ExchangedToken,
         Fresh(header'[r], now), subject'[r] = subject[r]
  PROVE  Promise!Usable(header'[r], subject[r], now)
<1>1. header'[r] # NoToken
  BY OAuthAssumption
<1>2. CacheKey[header'[r].sub] = CacheKey[subject[r]]
  BY <1>1 DEF IInv, SameKeyServed
<1>3. header'[r] \in Promise!Token
  BY DEF ExchangedToken, Promise!Token
<1>4. QED
  BY <1>2, <1>3 DEF Promise!Usable, Fresh

(* Every step of the injector is one of the promise, or not seen.          *)
LEMMA StepOfPromise == IInv /\ [Next]_vars => [Promise!Next]_Promise!vars
<1> SUFFICES ASSUME IInv, [Next]_vars PROVE [Promise!Next]_Promise!vars
  OBVIOUS
<1>1. TypeOK
  BY DEF IInv
<1>2. IInv'
  BY StepIInv
<1>3. ASSUME UNCHANGED pc PROVE Progress' = Progress
  BY <1>3 DEF Progress
<1>4. ASSUME NEW r \in Requests, Arrive(r) PROVE Promise!Arrive(r)
  <2>1. PICK s \in Subjects \union {NoSubject} :
          /\ subject' = [subject EXCEPT ![r] = s]
          /\ pc' = [pc EXCEPT ![r] = IF s = NoSubject THEN "done" ELSE "lookup"]
    BY <1>4 DEF Arrive
  <2>2. Progress' = [Progress EXCEPT ![r] = IF s = NoSubject THEN "done" ELSE "busy"]
    BY <1>1, <2>1, ProgressMoves DEF Phases
  <2>3. Progress[r] # "busy"
    BY <1>4 DEF Arrive, Progress
  <2>4. QED
    BY <1>4, <2>1, <2>2, <2>3 DEF Arrive, Promise!Arrive
<1>5. ASSUME NEW r \in Requests, LookupHit(r) \/ StoreAndInject(r)
      PROVE  Promise!Succeed(r)
  <2>1. /\ Progress[r] = "busy"
        /\ pc' = [pc EXCEPT ![r] = "done"]
        /\ UNCHANGED <<now, subject>>
    BY <1>5 DEF LookupHit, StoreAndInject, Progress
  <2>2. Progress' = [Progress EXCEPT ![r] = "done"]
    BY <1>1, <2>1, ProgressMoves DEF Phases
  <2>3. /\ header'[r] \in ExchangedToken /\ Fresh(header'[r], now)
        /\ header' = [header EXCEPT ![r] = header'[r]]
    BY <1>5, HitIsFresh, StoredIsFresh
  <2>4. Promise!Usable(header'[r], subject[r], now)
    BY <1>2, <2>1, <2>3, FreshIsUsable
  <2>5. QED
    BY <2>1, <2>2, <2>3, <2>4 DEF Promise!Succeed
<1>6. ASSUME NEW r \in Requests, Fail(r) PROVE Promise!Fail(r)
  <2>1. /\ Progress[r] = "busy"
        /\ pc' = [pc EXCEPT ![r] = "failed"]
        /\ UNCHANGED <<now, subject, header>>
    BY <1>6 DEF Fail, Progress
  <2>2. Progress' = [Progress EXCEPT ![r] = "failed"]
    BY <1>1, <2>1, ProgressMoves DEF Phases
  <2>3. QED
    BY <2>1, <2>2 DEF Promise!Fail
<1>7. ASSUME NEW r \in Requests, LookupMiss(r) \/ SendExchange(r) \/ IssueToken(r)
      PROVE  UNCHANGED Promise!vars
  <2>1. UNCHANGED <<now, subject, header>>
    BY <1>7 DEF LookupMiss, SendExchange, IssueToken
  <2>2. Progress' = Progress
    BY <1>1, <1>7 DEF LookupMiss, SendExchange, IssueToken, Progress, TypeOK
  <2>3. QED
    BY <2>1, <2>2 DEF Promise!vars
<1>8. CASE CleanupCache \/ Close \/ UNCHANGED vars
  BY <1>3, <1>8 DEF CleanupCache, Close, vars, Promise!vars
<1>9. CASE Tick
  BY <1>3, <1>9 DEF Tick, Promise!Tick, Promise!Next
<1>10. QED
  BY <1>4, <1>5, <1>6, <1>7, <1>8, <1>9 DEF Next, Inject, Promise!Next

(* The promise needs no fairness.                                          *)
LEMMA SafeInjection == Init /\ [][Next]_vars => ImplementsInjection
<1>1. Init => Promise!Init
  BY DEF Init, Promise!Init, Progress
<1>2. QED
  BY <1>1, InitIInv, StepIInv, StepOfPromise, PTL DEF ImplementsInjection, Promise!Spec

(* For all subjects, keys, lifetimes and timeouts a request sees of the    *)
(* injector what TokenInjection promises, and nothing else.                *)
THEOREM KeepsPromise == Spec => ImplementsInjection
BY SafeInjection, PTL DEF Spec
=============================================================================
