------------------------------ MODULE TokenCache ------------------------------
(***************************************************************************)
(* internal/util/token_cache.go: the cache the OAuth and Vault injectors   *)
(* keep, used by any number of request goroutines next to the goroutine    *)
(* cleanupExpired.  Expiry is lazy: Get hides an expired entry and leaves  *)
(* it in the map until the next cleanup round.                             *)
(***************************************************************************)
EXTENDS TokenCacheOps

CONSTANTS
  TTLs,       \* the ttl values callers pass to Set; negative after a wrap-around
  NoToken,    \* the answer of a miss
  MaxTime     \* bound on the clock

ASSUME CacheAssumption == /\ TTLs \subseteq Int
                          /\ NoToken \notin Tokens
                          /\ NoToken \notin [token : Tokens, until : Int]
                          /\ MaxTime \in Nat

VARIABLES
  now,      \* the process's monotonic clock
  cache,    \* the map, a function on all keys
  reply     \* what the latest Get returned

vars == <<now, cache, reply>>

TypeOK ==
  /\ now \in Nat
  /\ cache \in [Keys -> Entry \union {NoEntry}]
  /\ reply \in Tokens \union {NoToken}

Init ==
  /\ now = 0
  /\ cache = EmptyCache
  /\ reply = NoToken

Get(k) ==
  /\ reply' = IF Hit(cache, k, now) THEN cache[k].token ELSE NoToken
  /\ UNCHANGED <<now, cache>>

Set(k, token, ttl) ==
  /\ cache' = Put(cache, k, token, ttl, now)
  /\ UNCHANGED <<now, reply>>

Delete(k) ==
  /\ cache' = Drop(cache, k)
  /\ UNCHANGED <<now, reply>>

Clear ==
  /\ cache' = EmptyCache
  /\ UNCHANGED <<now, reply>>

\* The ticker's period is abstracted: a round may come at any instant.
cleanupExpired ==
  /\ cache' = Purge(cache, now)
  /\ UNCHANGED <<now, reply>>

Tick ==
  /\ now < MaxTime
  /\ now' = now + 1
  /\ UNCHANGED <<cache, reply>>

Next ==
  \/ \E k \in Keys : Get(k) \/ Delete(k)
  \/ \E k \in Keys, token \in Tokens, ttl \in TTLs : Set(k, token, ttl)
  \/ Clear
  \/ cleanupExpired
  \/ Tick

\* The ticker goroutine started by NewTokenCache never returns.
Spec == Init /\ [][Next]_vars /\ WF_vars(cleanupExpired)

-----------------------------------------------------------------------------
\* What callers can still get: the map without its expired entries.
Visible == [k \in Keys |->
              IF Hit(cache, k, now)
              THEN [token |-> cache[k].token, until |-> cache[k].expiresAt]
              ELSE NoToken]

Store == INSTANCE TokenStore WITH Nothing <- NoToken, held <- Visible

(* Get, Set, Delete, Clear and the cleanup goroutine together behave like  *)
(* a store whose tokens vanish exactly when their ttl is over: no token is *)
(* returned after its deadline, none is lost before it, and a cleanup      *)
(* round is invisible (token_cache.go:36-107).                             *)
ImplementsStore == Store!Spec

(* An expired token does not stay in memory for ever: it is purged, or     *)
(* replaced by a newer Set (cleanupExpired, token_cache.go:91-107).        *)
ExpiredArePurged ==
  \A k \in Keys :
    (cache[k] # NoEntry /\ ~Hit(cache, k, now))
      ~> (cache[k] = NoEntry \/ Hit(cache, k, now))
=============================================================================
