----------------------------- MODULE ReverseProxy -----------------------------
(***************************************************************************)
(* internal/reverseproxy on top of the verifiers: what becomes of an       *)
(* incoming request.  The mux sends health probes and public paths past    *)
(* the authentication; the middleware lets CORS preflights through, turns  *)
(* away what has no bearer token, and has every other token verified in    *)
(* the request's own goroutine.  What passes is forwarded to the backend.  *)
(*                                                                         *)
(* Each of these ends increments requests_total where it stands: the       *)
(* middleware for a 401, the handler when ServeHTTP returns, the error     *)
(* handler for a failed backend.  A panic (of the verifier, or net/http's  *)
(* abort when the backend breaks off within its response) ends a request   *)
(* without an answer and past all that follows.                            *)
(*                                                                         *)
(* auth.NewVerifier chooses the verifier once: JWTVerifier, or one of the  *)
(* two RemoteVerifier stands for, and then there is no key cache.          *)
(***************************************************************************)
EXTENDS JWTVerifier

CONSTANTS
  Requests,     \* what arrives: path, and whether it is OPTIONS, has a bearer token
  NoRequest,    \* a goroutine that serves no request yet
  Credentials   \* tokens found on requests, when another party verifies them

Request == [path : {"health", "public", "guarded"},
            preflight : BOOLEAN, bearer : BOOLEAN]

ASSUME ReverseProxyAssumption ==
  /\ Requests \subseteq Request
  /\ NoRequest \notin Requests
  /\ NoToken \notin Credentials

VARIABLES
  request,    \* request[c]: the request the goroutine serves
  phase,      \* phase[c]: how far it is
  counted,    \* counted[c]: increments of requests_total for it
  mode,       \* the verifier: "jwt", or "remote" for introspection and k8s
  active, query, answer, dead    \* see RemoteVerifier

R == INSTANCE RemoteVerifier WITH Tokens <- Credentials

remoteVars == <<active, query, answer, dead>>
proxyVars == <<request, phase, counted, mode>>
rpVars == <<vars, proxyVars, remoteVars>>

RPTypeOK ==
  /\ TypeOK
  /\ R!RemoteTypeOK
  /\ mode \in {"jwt", "remote"}
  /\ request \in [Callers -> Requests \union {NoRequest}]
  /\ phase \in [Callers -> {"idle", "verify", "forward", "answered", "aborted"}]
  /\ counted \in [Callers -> 0 .. 2]
  /\ \A c \in Callers :
       phase[c] = "verify" <=> gpc[c] # "out" \/ query[c] # NoToken
  /\ \A c \in Callers : IF mode = "jwt" THEN query[c] = NoToken ELSE gpc[c] = "out"
  /\ \A c \in Callers : phase[c] \in {"verify", "forward"} => request[c] # NoRequest

RPInit ==
  /\ Init
  /\ R!RemoteInit
  /\ mode \in {"jwt", "remote"}
  /\ mode = "jwt" => active = {}
  /\ request = [c \in Callers |-> NoRequest]
  /\ phase = [c \in Callers |-> "idle"]
  /\ counted = [c \in Callers |-> 0]

\* A request q arrives at c, and the code it first meets leaves it at phase p,
\* counted n times.
Arrive(c, q, p, n) ==
  /\ phase[c] \in {"idle", "answered", "aborted"}
  /\ request' = [request EXCEPT ![c] = q]
  /\ phase' = [phase EXCEPT ![c] = p]
  /\ counted' = [counted EXCEPT ![c] = n]
  /\ UNCHANGED mode

ServeHealth(c) ==
  /\ \E q \in Requests : q.path = "health" /\ Arrive(c, q, "answered", 0)
  /\ UNCHANGED <<vars, remoteVars>>

PassPublic(c) ==
  /\ \E q \in Requests : q.path = "public" /\ Arrive(c, q, "forward", 0)
  /\ UNCHANGED <<vars, remoteVars>>

\* The middleware, from here on.
PassPreflight(c) ==
  /\ \E q \in Requests :
       q.path = "guarded" /\ q.preflight /\ Arrive(c, q, "forward", 0)
  /\ UNCHANGED <<vars, remoteVars>>

\* Seeded fault: the counter of this branch is forgotten.
RejectBareUncounted(c) ==
  /\ \E q \in Requests :
       /\ q.path = "guarded" /\ ~q.preflight /\ ~q.bearer
       /\ Arrive(c, q, "answered", 0)
  /\ UNCHANGED <<vars, remoteVars>>

\* No Authorization header, or not of the form "bearer" and a token: 401.
RejectBare(c) ==
  /\ \E q \in Requests :
       /\ q.path = "guarded" /\ ~q.preflight /\ ~q.bearer
       /\ Arrive(c, q, "answered", 1)
  /\ UNCHANGED <<vars, remoteVars>>

Authenticate(c) ==
  /\ \E q \in Requests :
       /\ q.path = "guarded" /\ ~q.preflight /\ q.bearer
       /\ Arrive(c, q, "verify", 0)
  /\ \/ mode = "jwt" /\ Begin(c) /\ UNCHANGED remoteVars
     \/ mode = "remote" /\ R!Ask(c) /\ UNCHANGED vars

\* Verify returns claims, or an error, or panics.
Verifies(c, result) ==
  \/ /\ mode = "jwt"
     /\ Decide(c) /\ verdict'[c] = result
     /\ UNCHANGED remoteVars
  \/ /\ mode = "remote"
     /\ \/ result = "accepted" /\ R!Accept(c)
        \/ result = "rejected" /\ R!Reject(c)
     /\ UNCHANGED vars

\* Verify returns claims: on to the backend.
LetThrough(c) ==
  /\ Verifies(c, "accepted")
  /\ phase' = [phase EXCEPT ![c] = "forward"]
  /\ UNCHANGED <<request, counted, mode>>

\* Seeded fault: the 401 is written and the request goes on.
TurnAwayGoOn(c) ==
  /\ Verifies(c, "rejected")
  /\ phase' = [phase EXCEPT ![c] = "forward"]
  /\ UNCHANGED <<request, counted, mode>>

\* Verify returns an error: 401.
TurnAway(c) ==
  /\ Verifies(c, "rejected")
  /\ phase' = [phase EXCEPT ![c] = "answered"]
  /\ counted' = [counted EXCEPT ![c] = 1]
  /\ UNCHANGED <<request, mode>>

VerifyPanics(c) ==
  /\ Verifies(c, "panicked")
  /\ phase' = [phase EXCEPT ![c] = "aborted"]
  /\ UNCHANGED <<request, counted, mode>>

\* The handler's own increment, which public paths bypass.
HandlerCount(c) == IF request[c].path = "public" THEN 0 ELSE 1

BackendAnswers(c) ==
  /\ phase[c] = "forward"
  /\ phase' = [phase EXCEPT ![c] = "answered"]
  /\ counted' = [counted EXCEPT ![c] = HandlerCount(c)]
  /\ UNCHANGED <<request, mode, vars, remoteVars>>

\* The backend cannot be reached: 502 by the error handler, which counts it;
\* ServeHTTP returns, and the handler counts it too.
BackendFails(c) ==
  /\ phase[c] = "forward"
  /\ phase' = [phase EXCEPT ![c] = "answered"]
  /\ counted' = [counted EXCEPT ![c] = 1 + HandlerCount(c)]
  /\ UNCHANGED <<request, mode, vars, remoteVars>>

BackendBreaksOff(c) ==
  /\ phase[c] = "forward"
  /\ phase' = [phase EXCEPT ![c] = "aborted"]
  /\ UNCHANGED <<request, counted, mode, vars, remoteVars>>

Handle(c) ==
  \/ ServeHealth(c) \/ PassPublic(c) \/ PassPreflight(c) \/ RejectBare(c)
  \/ Authenticate(c) \/ LetThrough(c) \/ TurnAway(c) \/ VerifyPanics(c)
  \/ BackendAnswers(c) \/ BackendFails(c) \/ BackendBreaksOff(c)

RPNext ==
  \/ \E c \in Callers : Handle(c)
  \/ /\ mode = "jwt"
     /\ (\E c \in Callers : Get(c)) \/ Environment
     /\ UNCHANGED <<token, verdict, proxyVars, remoteVars>>
  \/ /\ mode = "remote"
     /\ R!RemoteEnvironment
     /\ UNCHANGED <<vars, proxyVars>>

RPSpec == RPInit /\ [][RPNext]_rpVars

-----------------------------------------------------------------------------
\* In this step the request of c is sent on to the backend.
Forwards(c) == phase[c] # "forward" /\ phase'[c] = "forward"

\* ... and it is one that has to be verified.
ForwardsGuarded(c) ==
  Forwards(c) /\ request'[c].path = "guarded" /\ ~request'[c].preflight

(* A guarded request that is no preflight reaches the backend only with a  *)
(* token signed by a key of the issuer, not expired at that instant and    *)
(* with all claims required, whatever other requests and fetches run next  *)
(* to it, if the JWT verifier is configured; and if it fetches with a      *)
(* client that has a timeout, the key is still published, or was withdrawn *)
(* less than cacheTtl and one fetch ago (middleware.go:33-95,              *)
(* jwt_verifier.go:64-201, jwks_cache.go:42-86).                           *)
OnlyVerifiedForwarded ==
  [][\A c \in Callers :
       (ForwardsGuarded(c) /\ mode = "jwt") =>
         LET t == token[c] IN
         /\ t.signer \in Kids /\ now < t.exp /\ ClaimsOK(t)
         /\ CustomClient =>
              \/ t.signer \in published
              \/ now < retiredAt[t.signer] + TTL + FetchTimeout]_rpVars

(* With a remote verifier, a token the authority has revoked is of no use  *)
(* from the next request on: no answer to an earlier request, or to one of *)
(* another goroutine, lets it through (introspection_verifier.go:55-103,   *)
(* k8s_verifier.go:75-145).                                                *)
RevokedIsTurnedAway ==
  [][\A c \in Callers : (ForwardsGuarded(c) /\ mode = "remote") => ~dead[c]]_rpVars

(* Every guarded request that gets an answer is in requests_total by then, *)
(* on each of the ways it can end (middleware.go:47, 60, 77, proxy.go:60,  *)
(* 115; README: "Total reverse proxy requests").                           *)
AnsweredAreCounted ==
  \A c \in Callers :
    (phase[c] = "answered" /\ request[c].path = "guarded") => counted[c] > 0
=============================================================================
