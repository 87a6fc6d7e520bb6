------------------------------ MODULE ForwardProxy ------------------------------
(***************************************************************************)
(* internal/forwardproxy on top of the OAuth injector: what becomes of a   *)
(* request of the local application.                                       *)
(*                                                                         *)
(* A CONNECT request is tunnelled (module Tunnel) and never touched.  For  *)
(* any other the router picks an injector, the first rule whose pattern    *)
(* matches the host deciding; Inject runs in the request's own goroutine   *)
(* and rewrites its headers in place; then http.Client sends it on.  One   *)
(* rule at most has the OAuth injector here, since every injector has a    *)
(* cache of its own; the others, and the default, pass requests through.   *)
(* The counters of requests and the tracing spans are left out.            *)
(***************************************************************************)
EXTENDS OAuthInjector, Sequences, FiniteSets

CONSTANTS
  Hosts,         \* r.Host of the requests
  Rules,         \* forwardProxy.hostRules: the hosts a pattern matches, and the mode
  DefaultMode,   \* forwardProxy.defaultMode.type
  NoRequest,     \* a goroutine that serves no plain HTTP request
  MaxPieces,     \* bound of Tunnel
  MaxTunnels     \* bound on the goroutines whose last request was a CONNECT

Modes == {"passthrough", "oauth"}

\* r.Host, and the token in Authorization.
HTTPRequest == [host : Hosts, bearer : Subjects \union {NoSubject}]

ASSUME ForwardProxyAssumption ==
  /\ Rules \in Seq([pattern : SUBSET Hosts, mode : Modes])
  /\ DefaultMode \in Modes
  /\ MaxPieces \in Nat
  /\ MaxTunnels \in Nat
  /\ NoRequest \notin HTTPRequest

VARIABLES
  step,      \* step[r]: how far handleHTTP is
  request,   \* request[r]: the request on arrival, until it is answered
  stage, ctxDone, flow, copier, reset     \* of Tunnel

T == INSTANCE Tunnel WITH Handlers <- Requests

httpVars == <<step, request>>
tunnelVars == <<stage, ctxDone, flow, copier, reset>>
fpVars == <<vars, httpVars, tunnelVars>>

Matching(h) == {i \in DOMAIN Rules : h \in Rules[i].pattern}

\* Seeded fault: the last rule that matches wins.
GetInjectorLast(h) ==
  IF Matching(h) = {} THEN DefaultMode
  ELSE Rules[CHOOSE i \in Matching(h) : \A j \in Matching(h) : j <= i].mode

\* Rules are tried in order.
GetInjector(h) ==
  IF Matching(h) = {} THEN DefaultMode
  ELSE Rules[CHOOSE i \in Matching(h) : \A j \in Matching(h) : i <= j].mode

FPTypeOK ==
  /\ TypeOK
  /\ step \in [Requests -> {"idle", "inject", "forward", "copy", "answered"}]
  /\ request \in [Requests -> HTTPRequest \union {NoRequest}]
  /\ T!TunnelTypeOK
  /\ \A r \in Requests :
       /\ step[r] \in {"idle", "answered"} <=> request[r] = NoRequest
       /\ step[r] \in {"idle", "answered"} => pc[r] \in {"idle", "done", "failed"}
       /\ step[r] \in {"forward", "copy"} => pc[r] = "done"

FPInit ==
  /\ Init
  /\ step = [r \in Requests |-> "idle"]
  /\ request = [r \in Requests |-> NoRequest]
  /\ T!TunnelInit

\* The goroutine r serves nothing: a new request may be its own.
AtRest(r) == step[r] \in {"idle", "answered"} /\ T!Over(r)

\* A request for h arrives.  Only the OAuth injector reads its bearer token;
\* to a passing injector every request is one without a subject.
ArriveHTTP(r) ==
  /\ AtRest(r)
  /\ Arrive(r)
  /\ step' = [step EXCEPT ![r] = "inject"]
  /\ \E q \in HTTPRequest :
       /\ request' = [request EXCEPT ![r] = q]
       /\ subject'[r] = IF GetInjector(q.host) = "oauth" THEN q.bearer ELSE NoSubject
  /\ T!Renew(r, "none")

\* A CONNECT request: the router is not asked, and nothing exchanged.
ArriveConnect(r) ==
  /\ AtRest(r)
  /\ Cardinality({o \in Requests \ {r} : stage[o] # "none"}) < MaxTunnels
  /\ Arrive(r)
  /\ subject'[r] = NoSubject
  /\ T!Connect(r)
  /\ UNCHANGED httpVars

\* Inject goes on, in the goroutine of the request.
Injection(r) ==
  /\ step[r] = "inject"
  /\ Inject(r)
  /\ UNCHANGED <<httpVars, tunnelVars>>

\* handleHTTP returns.
Answered(r) ==
  /\ step' = [step EXCEPT ![r] = "answered"]
  /\ request' = [request EXCEPT ![r] = NoRequest]
  /\ UNCHANGED <<vars, tunnelVars>>

\* Seeded fault: the 500 is written and the request goes on.
InjectionFailedGoesOn(r) ==
  /\ step[r] = "inject"
  /\ pc[r] = "failed"
  /\ step' = [step EXCEPT ![r] = "forward"]
  /\ UNCHANGED <<vars, request, tunnelVars>>

\* Inject returned an error: 500, and the request goes nowhere.
InjectionFailed(r) ==
  /\ step[r] = "inject"
  /\ pc[r] = "failed"
  /\ Answered(r)

\* client.Do: the request leaves, with the headers Inject has left it.
SendUpstream(r) ==
  /\ step[r] = "inject"
  /\ pc[r] = "done"
  /\ step' = [step EXCEPT ![r] = "forward"]
  /\ UNCHANGED <<vars, request, tunnelVars>>

\* Seeded fault: the client has no timeout, and the upstream may be silent.
RoundTripNeverFails(r) == FALSE /\ UNCHANGED fpVars

\* No response, after 30 seconds at the latest: 502.
RoundTripFails(r) ==
  /\ step[r] = "forward"
  /\ Answered(r)

\* The upstream responds; its headers and status are written.
ResponseBegins(r) ==
  /\ step[r] = "forward"
  /\ step' = [step EXCEPT ![r] = "copy"]
  /\ UNCHANGED <<vars, request, tunnelVars>>

\* io.Copy of the body ends: it is complete, or it broke off, or the client's
\* 30 seconds are over.  Its error is not looked at.
BodyEnds(r) ==
  /\ step[r] = "copy"
  /\ Answered(r)

Tunnelling(r) == T!TunnelStep(r) /\ UNCHANGED <<vars, httpVars>>

\* The steps handleHTTP takes of its own accord.
HandleHTTP(r) ==
  \/ Injection(r) \/ InjectionFailed(r) \/ SendUpstream(r)
  \/ RoundTripFails(r) \/ BodyEnds(r)

\* The token endpoint, the cleanup goroutine and the clock.
Surroundings ==
  /\ (\E r \in Requests : IssueToken(r)) \/ CleanupCache \/ Tick
  /\ UNCHANGED <<httpVars, tunnelVars>>

FPNext ==
  \/ \E r \in Requests :
       ArriveHTTP(r) \/ ArriveConnect(r) \/ HandleHTTP(r) \/ ResponseBegins(r)
         \/ Tunnelling(r)
  \/ Surroundings

\* Goroutines run and timeouts fire.  A copy need not: a peer may not read.
Fairness ==
  \A r \in Requests :
    /\ WF_fpVars(HandleHTTP(r))
    /\ WF_fpVars(T!Dial(r) /\ UNCHANGED <<vars, httpVars>>)
    /\ WF_fpVars(T!HandlerReturns(r) /\ UNCHANGED <<vars, httpVars>>)
    /\ \A d \in T!Directions :
         WF_fpVars(T!CopyEnds(r, d) /\ UNCHANGED <<vars, httpVars>>)

FPSpec == FPInit /\ [][FPNext]_fpVars /\ Fairness

-----------------------------------------------------------------------------
\* The first rule that matches h, or the default without one, has the OAuth
\* injector.
OAuthRuled(h) ==
  \/ \E i \in DOMAIN Rules :
       /\ h \in Rules[i].pattern
       /\ Rules[i].mode = "oauth"
       /\ \A j \in 1 .. (i - 1) : h \notin Rules[j].pattern
  \/ DefaultMode = "oauth" /\ \A i \in DOMAIN Rules : h \notin Rules[i].pattern

(* A request to a host under OAuth leaves the sidecar with a token         *)
(* exchanged under the key of the bearer token it came with, and never     *)
(* with that bearer token itself; any other request leaves as it came,     *)
(* and one whose injection failed not at all (proxy.go:169-193,            *)
(* router.go:63-81).                                                       *)
LeavesAsRuled ==
  [][\A r \in Requests :
       (step[r] # "forward" /\ step'[r] = "forward") =>
         LET q == request[r] IN
         IF OAuthRuled(q.host) /\ q.bearer # NoSubject
         THEN header[r] # NoToken /\ CacheKey[header[r].sub] = CacheKey[q.bearer]
         ELSE header[r] = NoToken]_fpVars

(* Every plain HTTP request is answered, whatever the token endpoint, the  *)
(* upstream and tunnels next to it do (proxy.go:113-120, 147-217).         *)
RequestsAnswered ==
  \A r \in Requests : step[r] = "inject" ~> step[r] = "answered"

OneDirectionDelivered == T!OneDirectionDelivered
TunnelUnwinds == T!TunnelUnwinds
=============================================================================
