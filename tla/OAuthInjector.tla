----------------------------- MODULE OAuthInjector -----------------------------
(***************************************************************************)
(* internal/tokeninjector/oauth_exchange.go: Inject replaces the bearer    *)
(* token of an outgoing request by one obtained from the token endpoint    *)
(* (RFC 8693), or by a cached one.                                         *)
(*                                                                         *)
(* Each request runs in a goroutine of its own; goroutines share only the  *)
(* token cache.  Nothing joins concurrent exchanges for the same subject,  *)
(* and no lock is held between the miss and the Set.  The token endpoint   *)
(* is external: it issues a token at some instant of the exchange, or the  *)
(* exchange fails.                                                         *)
(***************************************************************************)
EXTENDS TokenTTL

CONSTANTS
  Requests,      \* request goroutines; each handles request after request
  Subjects,      \* bearer tokens found on incoming requests
  Keys,          \* cache keys
  CacheKey,      \* CacheKey[s]: the first 16 characters of s
  CacheTTL,      \* oauth.cacheTtl
  Lifetimes,     \* values of expires_in the endpoint sends; 0 when it sends none
  HttpTimeout,   \* httpClient.Timeout: the longest an exchange can take
  MaxTime,       \* bound on the clock
  NoSubject,     \* no bearer token on the request
  NoToken,       \* no token yet
  NoEntry        \* absent from the cache

\* What the endpoint issues: for whom, when, and the expires_in sent with it.
ExchangedToken == [sub : Subjects, issued : Int, life : Lifetimes]

Cache == INSTANCE TokenCacheOps WITH Tokens <- ExchangedToken

ASSUME OAuthAssumption ==
  /\ CacheKey \in [Subjects -> Keys]
  /\ CacheTTL \in 1 .. (HalfRange - 1)
  /\ Lifetimes \subseteq Int
  /\ HttpTimeout \in Nat
  /\ MaxTime \in Nat
  /\ NoSubject \notin Subjects
  /\ NoToken \notin ExchangedToken
  /\ NoEntry \notin Cache!Entry

VARIABLES
  now,       \* the process's monotonic clock
  cache,     \* the injector's token cache
  pc,        \* pc[r]: where the goroutine stands in Inject
  subject,   \* subject[r]: the token extracted from the request
  sentAt,    \* sentAt[r]: when the exchange in flight was sent
  answer,    \* answer[r]: the token issued for the exchange in flight
  header     \* header[r]: the token Inject put in Authorization

vars == <<now, cache, pc, subject, sentAt, answer, header>>

Phases == {"idle", "lookup", "auth", "exchange", "done", "failed"}

TypeOK ==
  /\ now \in Nat
  /\ cache \in [Keys -> Cache!Entry \union {NoEntry}]
  /\ pc \in [Requests -> Phases]
  /\ subject \in [Requests -> Subjects \union {NoSubject}]
  /\ \A r \in Requests :
       pc[r] \in {"lookup", "auth", "exchange"} => subject[r] \in Subjects
  /\ sentAt \in [Requests -> Nat]
  /\ answer \in [Requests -> ExchangedToken \union {NoToken}]
  /\ header \in [Requests -> ExchangedToken \union {NoToken}]

Init ==
  /\ now = 0
  /\ cache = Cache!EmptyCache
  /\ pc = [r \in Requests |-> "idle"]
  /\ subject = [r \in Requests |-> NoSubject]
  /\ sentAt = [r \in Requests |-> 0]
  /\ answer = [r \in Requests |-> NoToken]
  /\ header = [r \in Requests |-> NoToken]

\* Seeded fault: one key for every subject.
getCacheKeyConstant(s) == CHOOSE k \in Keys : TRUE

getCacheKey(s) == CacheKey[s]

\* A request arrives and extractToken reads its header; without a bearer
\* token Inject returns at once and the request goes on as it came.
Arrive(r) ==
  /\ pc[r] \in {"idle", "done", "failed"}
  /\ now + HttpTimeout <= MaxTime
  /\ \E s \in Subjects \union {NoSubject} :
       /\ subject' = [subject EXCEPT ![r] = s]
       /\ pc' = [pc EXCEPT ![r] = IF s = NoSubject THEN "done" ELSE "lookup"]
  /\ header' = [header EXCEPT ![r] = NoToken]
  /\ UNCHANGED <<now, cache, sentAt, answer>>

LookupHit(r) ==
  LET k == getCacheKey(subject[r]) IN
  /\ pc[r] = "lookup"
  /\ Cache!Hit(cache, k, now)
  /\ header' = [header EXCEPT ![r] = cache[k].token]
  /\ pc' = [pc EXCEPT ![r] = "done"]
  /\ UNCHANGED <<now, cache, subject, sentAt, answer>>

LookupMiss(r) ==
  /\ pc[r] = "lookup"
  /\ ~Cache!Hit(cache, getCacheKey(subject[r]), now)
  /\ pc' = [pc EXCEPT ![r] = "auth"]
  /\ UNCHANGED <<now, cache, subject, sentAt, answer, header>>

\* getAuthToken yields the client's own credential and the POST leaves.
SendExchange(r) ==
  /\ pc[r] = "auth"
  /\ sentAt' = [sentAt EXCEPT ![r] = now]
  /\ pc' = [pc EXCEPT ![r] = "exchange"]
  /\ UNCHANGED <<now, cache, subject, answer, header>>

\* The token endpoint issues a token; its response is on the way.
IssueToken(r) ==
  /\ pc[r] = "exchange"
  /\ answer[r] = NoToken
  /\ \E life \in Lifetimes :
       answer' = [answer EXCEPT ![r] =
                    [sub |-> subject[r], issued |-> now, life |-> life]]
  /\ UNCHANGED <<now, cache, pc, subject, sentAt, header>>

\* The response is decoded, the token cached and put into the request.
StoreAndInject(r) ==
  /\ pc[r] = "exchange"
  /\ answer[r] # NoToken
  /\ cache' = Cache!Put(cache, getCacheKey(subject[r]), answer[r],
                        EffectiveTTL(CacheTTL, answer[r].life), now)
  /\ header' = [header EXCEPT ![r] = answer[r]]
  /\ pc' = [pc EXCEPT ![r] = "done"]
  /\ sentAt' = [sentAt EXCEPT ![r] = 0]
  /\ answer' = [answer EXCEPT ![r] = NoToken]
  /\ UNCHANGED <<now, subject>>

\* Seeded fault: the HTTP client has no timeout and its errors go unnoticed.
FailNoTimeout(r) ==
  /\ pc[r] = "auth"
  /\ pc' = [pc EXCEPT ![r] = "failed"]
  /\ UNCHANGED <<now, cache, subject, sentAt, answer, header>>

\* Seeded fault: when the endpoint fails, what is left in the cache will do.
FailServeStale(r) ==
  LET k == getCacheKey(subject[r]) IN
  /\ pc[r] \in {"auth", "exchange"}
  /\ pc' = [pc EXCEPT ![r] = IF cache[k] = NoEntry THEN "failed" ELSE "done"]
  /\ header' = [header EXCEPT ![r] = IF cache[k] = NoEntry THEN NoToken ELSE cache[k].token]
  /\ sentAt' = [sentAt EXCEPT ![r] = 0]
  /\ answer' = [answer EXCEPT ![r] = NoToken]
  /\ UNCHANGED <<now, cache, subject>>

\* getAuthToken failed, or the exchange: transport error, timeout, cancelled
\* context, a status other than 200, no access_token.  Inject returns an error.
Fail(r) ==
  /\ pc[r] \in {"auth", "exchange"}
  /\ pc' = [pc EXCEPT ![r] = "failed"]
  /\ sentAt' = [sentAt EXCEPT ![r] = 0]
  /\ answer' = [answer EXCEPT ![r] = NoToken]
  /\ UNCHANGED <<now, cache, subject, header>>

\* A round of the cache's cleanup goroutine.
CleanupCache ==
  /\ cache' = Cache!Purge(cache, now)
  /\ UNCHANGED <<now, pc, subject, sentAt, answer, header>>

\* Close clears the cache; requests in flight are not waited for.
Close ==
  /\ cache' = Cache!EmptyCache
  /\ UNCHANGED <<now, pc, subject, sentAt, answer, header>>

\* Time does not run past the instant httpClient gives an exchange up.
Tick ==
  /\ now < MaxTime
  /\ \A r \in Requests : pc[r] = "exchange" => now < sentAt[r] + HttpTimeout
  /\ now' = now + 1
  /\ UNCHANGED <<cache, pc, subject, sentAt, answer, header>>

Inject(r) == \/ LookupHit(r) \/ LookupMiss(r) \/ SendExchange(r)
             \/ StoreAndInject(r) \/ Fail(r)

Next ==
  \/ \E r \in Requests : Arrive(r) \/ Inject(r) \/ IssueToken(r)
  \/ CleanupCache
  \/ Close
  \/ Tick

\* The goroutines run; the client's timeout ends an exchange nobody answers.
Spec == Init /\ [][Next]_vars /\ \A r \in Requests : WF_vars(Inject(r))

-----------------------------------------------------------------------------
(* A request never leaves with a token that was exchanged for a subject    *)
(* with another cache key, however exchanges, hits, purges and Close       *)
(* interleave (oauth_exchange.go:148-187).                                 *)
SameKeyServed ==
  \A r \in Requests :
    header[r] # NoToken => CacheKey[header[r].sub] = CacheKey[subject[r]]

(* A request leaves with the token exchanged for its own subject token     *)
(* (README: "Exchanges incoming token for a new token").                   *)
OwnTokenServed ==
  \A r \in Requests : header[r] # NoToken => header[r].sub = subject[r]

\* This step puts a token into request r.
Injects(r) == header'[r] # header[r] /\ header'[r] # NoToken

(* Counted from the moment the endpoint issued it, a token with a stated   *)
(* lifetime is injected at most one exchange (HttpTimeout) after it ended: *)
(* the deadline is computed when the response is in, not when the token    *)
(* was issued, and hits never move it (oauth_exchange.go:148-176).         *)
InjectedSoonAfterExpiryAtMost ==
  [][\A r \in Requests :
       (Injects(r) /\ header'[r].life > 0) =>
         now <= header'[r].issued + header'[r].life * Second + HttpTimeout]_vars

(* No token is reused for longer than cacheTtl, whatever expires_in says   *)
(* and however many requests store under its key (oauth_exchange.go:168).  *)
ReusedForCacheTTLAtMost ==
  [][\A r \in Requests :
       Injects(r) => now <= header'[r].issued + CacheTTL + HttpTimeout]_vars

\* What a request can see of the steps Inject takes for it.
Progress ==
  [r \in Requests |-> IF pc[r] \in {"lookup", "auth", "exchange"} THEN "busy" ELSE pc[r]]

Promise == INSTANCE TokenInjection WITH progress <- Progress

(* To a request, cache, exchanges and all that run next to them are a      *)
(* single step that fails or puts in one token, of its own cache key and   *)
(* within the two limits above: no failure falls back on what is left in   *)
(* the cache, and nothing touches the request afterwards                   *)
(* (oauth_exchange.go:132-187).                                            *)
ImplementsInjection == Promise!Spec

(* Every Inject returns: with a token, without one, or with an error, and  *)
(* whatever the token endpoint does (oauth_exchange.go:81-83, 132-187).    *)
InjectReturns ==
  \A r \in Requests : pc[r] = "lookup" ~> pc[r] \in {"done", "failed"}
=============================================================================
