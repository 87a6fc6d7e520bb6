---------------------------- MODULE RemoteVerifier ----------------------------
(***************************************************************************)
(* internal/auth/introspection_verifier.go and k8s_verifier.go: a token is *)
(* verified by asking somebody else, the introspection endpoint or the     *)
(* Kubernetes API, once for every request, with nothing kept in between.   *)
(* The request fails closed: only a well-formed positive answer accepts.   *)
(*                                                                         *)
(* The authority is external.  It decides when the question arrives, and   *)
(* may revoke a token at any time; its answer may take any time, or not    *)
(* arrive in a shape that can be used, or not at all.  Of the Kubernetes   *)
(* API it is assumed that it judges the token of the request, which is so  *)
(* when the configuration found carries no other credential, as the one of *)
(* a pod does not.                                                         *)
(***************************************************************************)
CONSTANTS
  Callers,    \* goroutines that verify
  Tokens,     \* tokens found on requests
  NoToken     \* a goroutine that asks nothing

VARIABLES
  active,     \* the tokens the authority accepts
  query,      \* query[c]: the token c asks about
  answer,     \* answer[c]: what the authority answered
  dead        \* dead[c]: that token was revoked before the request came

remoteVars == <<active, query, answer, dead>>

RemoteTypeOK ==
  /\ active \in SUBSET Tokens
  /\ query \in [Callers -> Tokens \union {NoToken}]
  /\ answer \in [Callers -> {"none", "yes", "no"}]
  /\ dead \in [Callers -> BOOLEAN]

RemoteInit ==
  /\ active \in SUBSET Tokens
  /\ query = [c \in Callers |-> NoToken]
  /\ answer = [c \in Callers |-> "none"]
  /\ dead = [c \in Callers |-> FALSE]

\* Seeded fault: the response is decoded into a variable that is kept.
AskKept(c) ==
  /\ query[c] = NoToken
  /\ \E t \in Tokens :
       /\ query' = [query EXCEPT ![c] = t]
       /\ dead' = [dead EXCEPT ![c] = t \notin active]
  /\ UNCHANGED <<active, answer>>

\* Verify is called and the question sent.
Ask(c) ==
  /\ query[c] = NoToken
  /\ \E t \in Tokens :
       /\ query' = [query EXCEPT ![c] = t]
       /\ dead' = [dead EXCEPT ![c] = t \notin active]
  /\ answer' = [answer EXCEPT ![c] = "none"]
  /\ UNCHANGED active

\* The authority decides: active, or allowed, or not.
Reply(c) ==
  /\ query[c] # NoToken
  /\ answer[c] = "none"
  /\ answer' = [answer EXCEPT ![c] = IF query[c] \in active THEN "yes" ELSE "no"]
  /\ UNCHANGED <<active, query, dead>>

\* Verify returns claims.
Accept(c) ==
  /\ query[c] # NoToken
  /\ answer[c] = "yes"
  /\ query' = [query EXCEPT ![c] = NoToken]
  /\ UNCHANGED <<active, answer, dead>>

\* Verify returns an error: the answer is no; or there is none (no connection,
\* the 10 seconds of the introspection client, a cancelled request); or it is
\* of no use (its status, its body); or the API accepts a token that is no JWT.
Reject(c) ==
  /\ query[c] # NoToken
  /\ query' = [query EXCEPT ![c] = NoToken]
  /\ UNCHANGED <<active, answer, dead>>

Revoke ==
  /\ \E t \in active : active' = active \ {t}
  /\ UNCHANGED <<query, answer, dead>>

RemoteEnvironment == (\E c \in Callers : Reply(c)) \/ Revoke
=============================================================================
