------------------------------ MODULE JWTVerifier ------------------------------
(***************************************************************************)
(* internal/auth/jwt_verifier.go on top of the key cache: each incoming    *)
(* request's token is parsed, its key looked up in the set Get returns,    *)
(* its signature and its claims checked.  jwt.Parse (external) calls the   *)
(* key function first and checks the signature and the time claims after   *)
(* it, so the clock it compares them with is read after a possible fetch.  *)
(***************************************************************************)
EXTENDS JWKSCache

CONSTANTS
  Tokens,      \* tokens found on requests: see Token
  NoKid,       \* a token without a kid header
  Stranger,    \* whoever signs without a key of the issuer
  Issuer, Audience, RequiredScopes,   \* the jwt section of the configuration
  NoToken      \* a goroutine that serves no request yet

\* What the checks can see of a token: kid and signer, then the claims.
Wellformed(t) ==
  /\ t.kid \in Kids \union {NoKid}
  /\ t.signer \in Kids \union {Stranger}
  /\ t.exp \in Int

ASSUME JWTAssumption ==
  /\ \A t \in Tokens : Wellformed(t)
  /\ NoKid \notin Kids
  /\ Stranger \notin Kids
  /\ NoToken \notin Tokens

VARIABLES
  token,     \* token[c]: the token c verifies
  verdict    \* verdict[c]: what became of it

vars == <<now, published, retiredAt, cache, lastFetch, lock, gpc, got, sentAt,
          token, verdict>>

TypeOK ==
  /\ JWKSTypeOK
  /\ token \in [Callers -> Tokens \union {NoToken}]
  /\ \A c \in Callers : gpc[c] # "out" => token[c] \in Tokens
  /\ verdict \in [Callers -> {"none", "accepted", "rejected", "panicked"}]

Init ==
  /\ JWKSInit
  /\ token = [c \in Callers |-> NoToken]
  /\ verdict = [c \in Callers |-> "none"]

\* The issuer, audience and scope checks, in any order: all must pass.
ClaimsOK(t) ==
  /\ t.iss = Issuer
  /\ Audience \in t.aud
  /\ RequiredScopes \subseteq t.scopes

\* The kid is examined before the set; LookupKeyID on a nil set panics, and
\* net/http recovers in the request's goroutine.
Verdict(t, set) ==
  IF t.kid = NoKid THEN "rejected"
  ELSE IF set = Nil THEN "panicked"
  ELSE IF t.kid \in set /\ t.signer = t.kid /\ now < t.exp /\ ClaimsOK(t)
  THEN "accepted"
  ELSE "rejected"

\* Verify is called; jwt.Parse asks for the key.
Begin(c) ==
  /\ Call(c)
  /\ \E t \in Tokens : token' = [token EXCEPT ![c] = t]
  /\ verdict' = [verdict EXCEPT ![c] = "none"]

\* The key function has its set or its error; Verify runs to its end.
Decide(c) ==
  /\ Return(c)
  /\ verdict' = [verdict EXCEPT ![c] =
                   IF gpc[c] = "error" THEN "rejected"
                   ELSE Verdict(token[c], got[c])]
  /\ UNCHANGED token

Next ==
  \/ \E c \in Callers : \/ Begin(c) \/ Decide(c)
                        \/ Get(c) /\ UNCHANGED <<token, verdict>>
  \/ Environment /\ UNCHANGED <<token, verdict>>

Spec == /\ Init /\ [][Next]_vars
        /\ JWKSFairness
        /\ \A c \in Callers : WF_vars(Decide(c))

-----------------------------------------------------------------------------
\* In this step Verify accepts the token of c.
Accepts(c) == verdict[c] # "accepted" /\ verdict'[c] = "accepted"

(* A token is accepted only if a key of the issuer signed it that is still *)
(* published, or was withdrawn less than cacheTtl and one fetch ago: the   *)
(* age of a set counts from its arrival, not from when the issuer wrote it *)
(* (jwt_verifier.go:65-96, jwks_cache.go:42-86).                           *)
AcceptedKeyIsCurrent ==
  [][\A c \in Callers :
       Accepts(c) =>
         LET k == token[c].signer IN
         /\ k \in Kids
         /\ k \in published \/ now < retiredAt[k] + TTL + FetchTimeout]_vars

(* Verify always answers, even if the issuer never does and every          *)
(* goroutine waits behind the one that fetches, provided the fetch uses    *)
(* the client with a timeout (jwks_cache.go:51-75, 111-118).               *)
VerifyReturns == \A c \in Callers : gpc[c] = "read" ~> gpc[c] = "out"
=============================================================================
