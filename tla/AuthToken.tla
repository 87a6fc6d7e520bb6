------------------------------- MODULE AuthToken -------------------------------
(***************************************************************************)
(* getAuthToken of internal/tokeninjector/oauth_exchange.go: what the      *)
(* OAuth injector authenticates itself with.  It is a JWT-SVID when        *)
(* server.spiffe is enabled (JWTSource), and otherwise the token in a file *)
(* (ClientToken); the constructor decides once.                            *)
(***************************************************************************)
EXTENDS ClientToken

CONSTANTS
  Lifetimes,    \* what an SVID has left when it arrives
  BufferPart    \* 10: a tenth of the lifetime left is kept as a buffer

ASSUME SVIDAssumption ==
  /\ Lifetimes \subseteq Int
  /\ BufferPart \in Nat \ {0}
  /\ NoToken \notin Int \union Requests

VARIABLES
  source,                         \* the kind of credential
  mu, cachedJWT, cacheExpiry,     \* see JWTSource
  jpc, svid, gone

S == INSTANCE JWTSource

svidVars == <<mu, cachedJWT, cacheExpiry, jpc, svid, gone>>
fileVars == <<current, newest, endedAt, cached, storedAt, pc, held, readAt>>
atVars == <<now, fileVars, svidVars, source>>

ATTypeOK ==
  /\ TypeOK
  /\ S!SVIDTypeOK
  /\ source \in {"file", "spiffe"}

ATInit ==
  /\ Init
  /\ S!SVIDInit
  /\ source \in {"file", "spiffe"}

FromFile(A) == source = "file" /\ A /\ UNCHANGED <<svidVars, source>>
FromAgent(A) == source = "spiffe" /\ A /\ UNCHANGED <<fileVars, source>>

FileStep ==
  \/ \E r \in Requests : Call(r) \/ getK8sToken(r)
  \/ Rotate
  \/ TakeAway

AgentStep ==
  \E r \in Requests : S!CallSVID(r) \/ S!FetchJWTSVID(r) \/ S!GoAway(r)

ATNext ==
  \/ FromFile(FileStep)
  \/ FromAgent(AgentStep)
  \/ Tick /\ UNCHANGED <<svidVars, source>>

\* A goroutine runs; sync.Mutex lets no goroutine wait for ever while others
\* come and go; a cancelled context ends the call of the agent.
ATFairness ==
  \A r \in Requests :
    /\ WF_atVars(FromFile(getK8sToken(r)))
    /\ SF_atVars(FromAgent(S!Lock(r)))
    /\ WF_atVars(FromAgent(S!FetchCancelled(r)))

ATSpec == ATInit /\ [][ATNext]_atVars /\ ATFairness

-----------------------------------------------------------------------------
(* A cached SVID is returned only before it expires, however old it was    *)
(* when it came and however long the caller waited for the mutex           *)
(* (jwt_source.go:66-76, 107-111).                                         *)
CachedSVIDIsValid == S!CachedSVIDIsValid

\* A fetch the agent never answers, for a client that stays.
Stuck(r) == jpc[r] = "fetch" /\ ~gone[r]

(* Every call of getAuthToken returns, those that wait for the mutex too,  *)
(* unless a fetch is stuck: that one holds all of them up for ever         *)
(* (oauth_exchange.go:190-237, jwt_source.go:66-95).                       *)
AuthTokenReturns ==
  (\A r \in Requests : ~<>[]Stuck(r)) =>
    \A r \in Requests :
      /\ pc[r] = "check" ~> pc[r] = "done"
      /\ jpc[r] = "lock" ~> jpc[r] = "done"
=============================================================================
