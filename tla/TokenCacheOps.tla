---------------------------- MODULE TokenCacheOps ----------------------------
(***************************************************************************)
(* The map of internal/util/token_cache.go and what each operation does to *)
(* it.  Every operation runs under cacheMu from its first read to its last *)
(* write, so each is one atomic step of the modules that use it.           *)
(***************************************************************************)
EXTENDS Integers

CONSTANTS
  Keys,      \* cache keys
  Tokens,    \* what is cached
  NoEntry    \* a key that is absent from the map

Entry == [token : Tokens, expiresAt : Int]

ASSUME NoEntryAssumption == NoEntry \notin Entry

EmptyCache == [k \in Keys |-> NoEntry]

\* Seeded fault: an entry is already bad at its deadline.
ExpiredEarly(entry, t) == t >= entry.expiresAt

\* time.Now().After(cached.ExpiresAt): an entry is still good at its deadline.
Expired(entry, t) == t > entry.expiresAt

\* Get(key) at time t finds a token to return.
Hit(c, k, t) == c[k] # NoEntry /\ ~Expired(c[k], t)

\* Seeded fault: the deadline is missing.
PutForgetful(c, k, token, ttl, t) == [c EXCEPT ![k] = [token |-> token]]

\* Set(key, token, ttl) at time t.
Put(c, k, token, ttl, t) ==
  [c EXCEPT ![k] = [token |-> token, expiresAt |-> t + ttl]]

\* Delete(key).
Drop(c, k) == [c EXCEPT ![k] = NoEntry]

\* Seeded fault: a round that looks for nothing.
PurgeNothing(c, t) == c

\* One round of cleanupExpired at time t.
Purge(c, t) == [k \in Keys |-> IF Hit(c, k, t) THEN c[k] ELSE NoEntry]
=============================================================================
