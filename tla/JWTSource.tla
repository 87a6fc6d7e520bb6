------------------------------- MODULE JWTSource -------------------------------
(***************************************************************************)
(* internal/spiffe/jwt_source.go: the JWT-SVID the OAuth injector          *)
(* authenticates itself with.  FetchJWTSVID holds a mutex from the look at *)
(* the cached SVID to the store of a new one, over the call of the SPIRE   *)
(* agent, which only the context of the request can end.                   *)
(*                                                                         *)
(* Of an SVID only the time it expires is kept.  The agent is external: it *)
(* answers with an SVID of any remaining lifetime (it keeps them itself,   *)
(* so that one can be about to expire, or just expired), fails, or never   *)
(* answers.  So are the clients, who may go away.                          *)
(***************************************************************************)
EXTENDS Integers

CONSTANTS
  Requests,     \* goroutines that exchange tokens
  Lifetimes,    \* what an SVID has left when it arrives
  BufferPart,   \* 10: a tenth of the lifetime left is kept as a buffer
  NoToken       \* no SVID; also nobody

VARIABLES
  now,          \* the clock
  mu,           \* the goroutine that holds s.mu
  cachedJWT,    \* s.cachedJWT
  cacheExpiry,  \* s.cacheExpiry
  jpc,          \* jpc[r]: where the goroutine stands in FetchJWTSVID
  svid,         \* svid[r]: what it returned
  gone          \* gone[r]: the context of its request is cancelled

svidVars == <<mu, cachedJWT, cacheExpiry, jpc, svid, gone>>

SVIDTypeOK ==
  /\ mu \in {NoToken} \union Requests
  /\ cachedJWT \in {NoToken} \union Int
  /\ cacheExpiry \in Int
  /\ jpc \in [Requests -> {"idle", "lock", "fetch", "done"}]
  /\ svid \in [Requests -> {NoToken} \union Int]
  /\ gone \in [Requests -> BOOLEAN]
  /\ \A r \in Requests : jpc[r] = "fetch" <=> mu = r

SVIDInit ==
  /\ mu = NoToken
  /\ cachedJWT = NoToken
  /\ cacheExpiry = 0
  /\ jpc = [r \in Requests |-> "idle"]
  /\ svid = [r \in Requests |-> NoToken]
  /\ gone = [r \in Requests |-> FALSE]

CallSVID(r) ==
  /\ jpc[r] \in {"idle", "done"}
  /\ jpc' = [jpc EXCEPT ![r] = "lock"]
  /\ svid' = [svid EXCEPT ![r] = NoToken]
  /\ gone' = [gone EXCEPT ![r] = FALSE]
  /\ UNCHANGED <<now, mu, cachedJWT, cacheExpiry>>

\* s.mu.Lock() waits, whatever becomes of the request; a cached SVID before
\* its refresh time is returned at once.
Lock(r) ==
  /\ jpc[r] = "lock"
  /\ mu = NoToken
  /\ IF cachedJWT # NoToken /\ now < cacheExpiry
     THEN /\ jpc' = [jpc EXCEPT ![r] = "done"]
          /\ svid' = [svid EXCEPT ![r] = cachedJWT]
          /\ UNCHANGED mu
     ELSE /\ jpc' = [jpc EXCEPT ![r] = "fetch"]
          /\ mu' = r
          /\ UNCHANGED svid
  /\ UNCHANGED <<now, cachedJWT, cacheExpiry, gone>>

\* Seeded fault: the buffer is added.
RefreshTimeLate(expiry) == expiry + (expiry - now) \div BufferPart

\* The conversion to a Duration cuts a fraction off, towards zero.
RefreshTime(expiry) ==
  IF expiry >= now THEN expiry - (expiry - now) \div BufferPart
                   ELSE expiry + (now - expiry) \div BufferPart

\* The agent answers: the SVID is cached and returned.
FetchSucceeds(r) ==
  /\ jpc[r] = "fetch"
  /\ \E left \in Lifetimes :
       /\ svid' = [svid EXCEPT ![r] = now + left]
       /\ cachedJWT' = now + left
       /\ cacheExpiry' = RefreshTime(now + left)
  /\ mu' = NoToken
  /\ jpc' = [jpc EXCEPT ![r] = "done"]
  /\ UNCHANGED <<now, gone>>

\* Seeded fault: the error path keeps the mutex.
SVIDFetchFailsLocked(r) ==
  /\ jpc[r] = "fetch"
  /\ jpc' = [jpc EXCEPT ![r] = "done"]
  /\ UNCHANGED <<now, mu, cachedJWT, cacheExpiry, svid, gone>>

\* An error of the agent or the end of the context; the old SVID stays.
SVIDFetchFails(r) ==
  /\ jpc[r] = "fetch"
  /\ mu' = NoToken
  /\ jpc' = [jpc EXCEPT ![r] = "done"]
  /\ UNCHANGED <<now, cachedJWT, cacheExpiry, svid, gone>>

FetchCancelled(r) == gone[r] /\ SVIDFetchFails(r)

\* The client of the request goes away.
GoAway(r) ==
  /\ jpc[r] \in {"lock", "fetch"}
  /\ ~gone[r]
  /\ gone' = [gone EXCEPT ![r] = TRUE]
  /\ UNCHANGED <<now, mu, cachedJWT, cacheExpiry, jpc, svid>>

FetchJWTSVID(r) == Lock(r) \/ FetchSucceeds(r) \/ SVIDFetchFails(r)

-----------------------------------------------------------------------------
\* The call of r ends in this step with an SVID from the cache.
ReturnsCached(r) == jpc[r] = "lock" /\ jpc'[r] = "done"

(* A cached SVID is returned only before it expires, however old it was    *)
(* when it came and however long the caller waited for the mutex           *)
(* (jwt_source.go:66-76, 107-111).                                         *)
CachedSVIDIsValid ==
  [][\A r \in Requests : ReturnsCached(r) => now < svid'[r]]_<<now, svidVars>>
=============================================================================
