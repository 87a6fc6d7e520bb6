------------------------------- MODULE JWKSCache -------------------------------
(***************************************************************************)
(* internal/util/jwks_cache.go: the issuer's public keys, cached for ttl.  *)
(*                                                                         *)
(* Get is called by the goroutine of every incoming request.  It looks     *)
(* under the read lock, and on a miss takes the write lock, looks again,   *)
(* and fetches while it holds it: everybody else waits for that fetch.     *)
(* With a bearerTokenFile or a caFile the fetch goes through a client of   *)
(* its own with a timeout, and the err of that branch is a new variable:   *)
(* the check after it sees none, so a failed fetch stores and returns a    *)
(* nil set.  Without them http.DefaultClient is used: no timeout, and the  *)
(* error is returned.                                                      *)
(*                                                                         *)
(* The issuer is external: it publishes a set of keys, and changes it.     *)
(***************************************************************************)
EXTENDS Integers

CONSTANTS
  Callers,        \* goroutines that call Get
  Kids,           \* key ids; an id names one key for ever
  TTL,            \* jwt.cacheTtl
  CustomClient,   \* bearerTokenFile or caFile is configured
  FetchTimeout,   \* the Timeout of that client
  MaxTime,        \* bound on the clock
  Nil,            \* a nil set; also: no answer from the issuer yet
  Free            \* nobody holds the write lock

ASSUME JWKSAssumption ==
  /\ TTL \in Nat \ {0}
  /\ CustomClient \in BOOLEAN
  /\ FetchTimeout \in Nat
  /\ MaxTime \in Nat
  /\ \A S \in SUBSET Kids : S # Nil
  /\ Free \notin Callers

VARIABLES
  now,         \* the process's monotonic clock
  published,   \* the keys the issuer publishes
  retiredAt,   \* retiredAt[k]: when the issuer last withdrew k
  cache,       \* the cached set
  lastFetch,   \* when it was stored
  lock,        \* the holder of cacheMu's write lock
  gpc,         \* gpc[c]: where c stands in Get
  got,         \* got[c]: the issuer's answer to c, then the set Get returns
  sentAt       \* sentAt[c]: when c's fetch was sent

jwksVars == <<now, published, retiredAt, cache, lastFetch, lock, gpc, got, sentAt>>

Sets == {Nil} \union SUBSET Kids

\* The write lock is held by the goroutine that fetches, and only by it.
JWKSTypeOK ==
  /\ now \in Nat
  /\ published \in SUBSET Kids
  /\ retiredAt \in [Kids -> Int]
  /\ cache \in Sets
  /\ lastFetch \in Int
  /\ lock \in Callers \union {Free}
  /\ gpc \in [Callers -> {"out", "read", "wait", "fetch", "returned", "error"}]
  /\ \A c \in Callers : gpc[c] = "fetch" <=> lock = c
  /\ got \in [Callers -> Sets]
  /\ sentAt \in [Callers -> Nat]

JWKSInit ==
  /\ now = 0
  /\ published \in SUBSET Kids
  /\ retiredAt = [k \in Kids |-> -(TTL + FetchTimeout)]
  /\ cache = Nil
  /\ lastFetch = 0
  /\ lock = Free
  /\ gpc = [c \in Callers |-> "out"]
  /\ got = [c \in Callers |-> Nil]
  /\ sentAt = [c \in Callers |-> 0]

\* Seeded fault: a set once fetched is good for ever.
FreshForever == cache # Nil

\* c.cache != nil && time.Since(c.lastFetch) < c.ttl
Fresh == cache # Nil /\ now - lastFetch < TTL

Call(c) ==
  /\ gpc[c] = "out"
  /\ gpc' = [gpc EXCEPT ![c] = "read"]
  /\ UNCHANGED <<now, published, retiredAt, cache, lastFetch, lock, got, sentAt>>

\* The look under the read lock.
Read(c) ==
  /\ gpc[c] = "read"
  /\ lock = Free
  /\ IF Fresh
     THEN /\ got' = [got EXCEPT ![c] = cache]
          /\ gpc' = [gpc EXCEPT ![c] = "returned"]
     ELSE /\ gpc' = [gpc EXCEPT ![c] = "wait"]
          /\ UNCHANGED got
  /\ UNCHANGED <<now, published, retiredAt, cache, lastFetch, lock, sentAt>>

\* Seeded fault: no second look under the write lock.
AcquireUnchecked(c) ==
  /\ gpc[c] = "wait"
  /\ lock = Free
  /\ lock' = c
  /\ sentAt' = [sentAt EXCEPT ![c] = now]
  /\ gpc' = [gpc EXCEPT ![c] = "fetch"]
  /\ UNCHANGED <<now, published, retiredAt, cache, lastFetch, got>>

\* The write lock is taken; the second look finds the set another goroutine
\* has fetched, and gives the lock back, or the fetch is sent.
Acquire(c) ==
  /\ gpc[c] = "wait"
  /\ lock = Free
  /\ IF Fresh
     THEN /\ got' = [got EXCEPT ![c] = cache]
          /\ gpc' = [gpc EXCEPT ![c] = "returned"]
          /\ UNCHANGED <<lock, sentAt>>
     ELSE /\ lock' = c
          /\ sentAt' = [sentAt EXCEPT ![c] = now]
          /\ gpc' = [gpc EXCEPT ![c] = "fetch"]
          /\ UNCHANGED got
  /\ UNCHANGED <<now, published, retiredAt, cache, lastFetch>>

\* The issuer answers with what it publishes now; the answer is on its way.
Answer(c) ==
  /\ gpc[c] = "fetch"
  /\ got[c] = Nil
  /\ got' = [got EXCEPT ![c] = published]
  /\ UNCHANGED <<now, published, retiredAt, cache, lastFetch, lock, gpc, sentAt>>

FetchOK(c) ==
  /\ gpc[c] = "fetch"
  /\ got[c] # Nil
  /\ cache' = got[c]
  /\ lastFetch' = now
  /\ lock' = Free
  /\ gpc' = [gpc EXCEPT ![c] = "returned"]
  /\ sentAt' = [sentAt EXCEPT ![c] = 0]
  /\ UNCHANGED <<now, published, retiredAt, got>>

\* Seeded fault: the error path forgets to unlock.
FetchFailsLocked(c) ==
  /\ gpc[c] = "fetch"
  /\ gpc' = [gpc EXCEPT ![c] = "error"]
  /\ got' = [got EXCEPT ![c] = Nil]
  /\ sentAt' = [sentAt EXCEPT ![c] = 0]
  /\ UNCHANGED <<now, published, retiredAt, cache, lastFetch, lock>>

\* jwk.Fetch fails: no connection, timeout, cancelled request, a response
\* that is no key set, an unreadable bearer token file.
FetchFails(c) ==
  /\ gpc[c] = "fetch"
  /\ lock' = Free
  /\ IF CustomClient
     THEN /\ cache' = Nil
          /\ lastFetch' = now
          /\ gpc' = [gpc EXCEPT ![c] = "returned"]
     ELSE /\ gpc' = [gpc EXCEPT ![c] = "error"]
          /\ UNCHANGED <<cache, lastFetch>>
  /\ got' = [got EXCEPT ![c] = Nil]
  /\ sentAt' = [sentAt EXCEPT ![c] = 0]
  /\ UNCHANGED <<now, published, retiredAt>>

\* createHTTPClient fails on the CA file; its error is returned.
ClientFails(c) ==
  /\ CustomClient
  /\ gpc[c] = "fetch"
  /\ got[c] = Nil
  /\ lock' = Free
  /\ gpc' = [gpc EXCEPT ![c] = "error"]
  /\ sentAt' = [sentAt EXCEPT ![c] = 0]
  /\ UNCHANGED <<now, published, retiredAt, cache, lastFetch, got>>

\* The caller takes the result.
Return(c) ==
  /\ gpc[c] \in {"returned", "error"}
  /\ gpc' = [gpc EXCEPT ![c] = "out"]
  /\ got' = [got EXCEPT ![c] = Nil]
  /\ UNCHANGED <<now, published, retiredAt, cache, lastFetch, lock, sentAt>>

Clear ==
  /\ lock = Free
  /\ cache' = Nil
  /\ lastFetch' = 0
  /\ UNCHANGED <<now, published, retiredAt, lock, gpc, got, sentAt>>

\* The issuer changes its key set.
Rotate ==
  /\ published' \in SUBSET Kids
  /\ retiredAt' = [k \in Kids |-> IF k \in published \ published' THEN now
                                  ELSE retiredAt[k]]
  /\ UNCHANGED <<now, cache, lastFetch, lock, gpc, got, sentAt>>

\* Time does not run past the timeout of a fetch, nor between the return of
\* Get and what its caller does with the set: nothing blocks there.
Tick ==
  /\ now < MaxTime
  /\ \A c \in Callers : /\ gpc[c] # "returned"
                        /\ (CustomClient /\ gpc[c] = "fetch")
                             => now < sentAt[c] + FetchTimeout
  /\ now' = now + 1
  /\ UNCHANGED <<published, retiredAt, cache, lastFetch, lock, gpc, got, sentAt>>

FetchEnds(c) == FetchOK(c) \/ FetchFails(c) \/ ClientFails(c)
Get(c) == Read(c) \/ Acquire(c) \/ FetchEnds(c)
Environment == (\E c \in Callers : Answer(c)) \/ Clear \/ Rotate \/ Tick

\* A goroutine blocked on cacheMu gets it in the end (sync.RWMutex lets
\* neither readers nor writers starve); only the client of its own bounds the
\* time a fetch takes.
JWKSFairness ==
  \A c \in Callers : /\ SF_jwksVars(Read(c))
                     /\ SF_jwksVars(Acquire(c))
                     /\ CustomClient => WF_jwksVars(FetchEnds(c))

-----------------------------------------------------------------------------
(* However many goroutines miss at the same instant, no fetch is sent      *)
(* while the cache holds a set that is still good (jwks_cache.go:51-59).   *)
NoFetchWhileFresh ==
  [][\A c \in Callers : (gpc[c] # "fetch" /\ gpc'[c] = "fetch") => ~Fresh]_jwksVars

(* Get returns a key set or an error (its comment: "Get returns the cached *)
(* JWKS, fetching if necessary"; jwks_cache.go:41).                        *)
GetReturnsKeysOrError == \A c \in Callers : gpc[c] = "returned" => got[c] # Nil
=============================================================================
