-------------------------- MODULE ForwardProxyProofs --------------------------
(***************************************************************************)
(* What a request leaves the sidecar with, and what a tunnel has delivered *)
(* when it is closed: proofs for any number of goroutines, any hosts, any  *)
(* list of rules and any default mode.  The injector's part of the state   *)
(* moves as in OAuthInjector, so its inductive invariant carries over.     *)
(***************************************************************************)
EXTENDS ForwardProxy, OAuthInjectorProofs, WellFoundedInduction

(* The router's choice is that of the first rule that matches, whatever    *)
(* patterns overlap, and the default mode's without one (router.go:63-81). *)
LEMMA RouterFollowsRules ==
  ASSUME NEW h \in Hosts
  PROVE  GetInjector(h) = "oauth" <=> OAuthRuled(h)
<1>1. CASE Matching(h) = {}
  <2>1. \A i \in DOMAIN Rules : h \notin Rules[i].pattern
    BY <1>1 DEF Matching
  <2>2. QED
    BY <1>1, <2>1 DEF GetInjector, OAuthRuled
<1>2. CASE Matching(h) # {}
  <2>1. Matching(h) \in SUBSET Nat /\ DOMAIN Rules = 1 .. Len(Rules) /\ Len(Rules) \in Nat
    BY ForwardProxyAssumption DEF Matching
  <2>2. \E m \in Matching(h) : \A j \in Matching(h) : m <= j
    <3> DEFINE Less == {p \in Nat \X Nat : p[1] < p[2]}
    <3>1. IsWellFoundedOn(Less, Nat)
      BY NatLessThanWellFounded DEF OpToRel
    <3> HIDE DEF Less
    <3>2. PICK m \in Matching(h) : \A j \in Matching(h) : <<j, m>> \notin Less
      BY <1>2, <2>1, <3>1, WFMin
    <3>3. \A j \in Matching(h) : ~(j < m)
      BY <2>1, <3>2 DEF Less
    <3>4. QED
      BY <2>1, <3>3
  <2> DEFINE first == CHOOSE i \in Matching(h) : \A j \in Matching(h) : i <= j
  <2>3. first \in Matching(h) /\ \A j \in Matching(h) : first <= j
    BY <2>2
  <2> HIDE DEF first
  <2>4. first \in DOMAIN Rules /\ h \in Rules[first].pattern
    BY <2>3 DEF Matching
  <2>5. \A j \in 1 .. (first - 1) : h \notin Rules[j].pattern
    BY <2>1, <2>3, <2>4 DEF Matching
  <2>6. GetInjector(h) = Rules[first].mode
    BY <1>2 DEF GetInjector, first
  <2>7. ASSUME NEW i \in DOMAIN Rules, h \in Rules[i].pattern,
               \A j \in 1 .. (i - 1) : h \notin Rules[j].pattern
        PROVE  i = first
    BY <2>1, <2>3, <2>4, <2>5, <2>7 DEF Matching
  <2>8. QED
    BY <2>4, <2>5, <2>6, <2>7 DEF OAuthRuled
<1>3. QED
  BY <1>1, <1>2

-----------------------------------------------------------------------------
\* What Inject left on a request it is done with.
DoneInjected ==
  \A r \in Requests :
    (pc[r] = "done" /\ subject[r] # NoSubject) => header[r] # NoToken

\* The subject of a request is what its rule makes of its bearer token.
SubjectAsRuled ==
  \A r \in Requests :
    step[r] = "inject" =>
      subject[r] = IF GetInjector(request[r].host) = "oauth"
                   THEN request[r].bearer ELSE NoSubject

\* Before a tunnel stands nothing is delivered.
NothingMovedYet ==
  \A r \in Requests, d \in T!Directions :
    stage[r] = "dial" => flow[r][d].moved = 0 /\ ~reset[r]

\* The handler waits until one direction is done with or a connection broke.
DoneIsDelivered ==
  \A r \in Requests :
    /\ (ctxDone[r] /\ ~reset[r]) =>
         \E d \in T!Directions : flow[r][d].fin /\ flow[r][d].moved = flow[r][d].sent
    /\ stage[r] = "closed" => ctxDone[r]

HTTPInv ==
  /\ step \in [Requests -> {"idle", "inject", "forward", "copy", "answered"}]
  /\ request \in [Requests -> HTTPRequest \union {NoRequest}]
  /\ \A r \in Requests :
       /\ step[r] \in {"idle", "answered"} <=> request[r] = NoRequest
       /\ step[r] \in {"idle", "answered"} => pc[r] \in {"idle", "done", "failed"}
       /\ step[r] \in {"forward", "copy"} => pc[r] = "done"
  /\ DoneInjected
  /\ SubjectAsRuled

TunnelInv == T!TunnelTypeOK /\ NothingMovedYet /\ DoneIsDelivered

FPInv == IInv /\ HTTPInv /\ TunnelInv

-----------------------------------------------------------------------------
(* Every step of the proxy is a step of the injector, or leaves it alone.  *)
LEMMA StepOfInjector == [FPNext]_fpVars => [Next]_vars
<1>1. ASSUME NEW r \in Requests,
             ArriveHTTP(r) \/ ArriveConnect(r) \/ HandleHTTP(r) \/ ResponseBegins(r)
               \/ Tunnelling(r)
      PROVE  [Next]_vars
  BY <1>1 DEF ArriveHTTP, ArriveConnect, HandleHTTP, Injection, InjectionFailed,
     SendUpstream, RoundTripFails, BodyEnds, Answered, ResponseBegins, Tunnelling, Next
<1>2. CASE Surroundings
  BY <1>2 DEF Surroundings, Next
<1>3. CASE UNCHANGED fpVars
  BY <1>3 DEF fpVars
<1>4. QED
  BY <1>1, <1>2, <1>3 DEF FPNext

(* A step of Inject moves its own goroutine only, and leaves a token on    *)
(* what it is done with.                                                   *)
LEMMA InjectOK ==
  ASSUME IInv, DoneInjected, NEW r \in Requests, Inject(r)
  PROVE  /\ DoneInjected'
         /\ subject' = subject
         /\ pc'[r] \in Phases
         /\ \A q \in Requests \ {r} : pc'[q] = pc[q]
<1> USE OAuthAssumption DEF IInv
<1>1. CASE LookupHit(r)
  <2> DEFINE k == CacheKey[subject[r]]
  <2>1. k \in Keys /\ cache[k] \in Cache!Entry
    BY <1>1 DEF LookupHit, TypeOK, getCacheKey, Cache!Hit
  <2>2. cache[k].token # NoToken
    BY <2>1 DEF Cache!Entry
  <2>3. /\ header' = [header EXCEPT ![r] = cache[k].token]
        /\ pc' = [pc EXCEPT ![r] = "done"]
        /\ subject' = subject
    BY <1>1 DEF LookupHit, getCacheKey
  <2>4. QED
    BY <2>2, <2>3 DEF TypeOK, DoneInjected, Phases
<1>2. CASE LookupMiss(r) \/ SendExchange(r) \/ Fail(r)
  BY <1>2 DEF LookupMiss, SendExchange, Fail, TypeOK, DoneInjected, Phases
<1>3. CASE StoreAndInject(r)
  BY <1>3 DEF StoreAndInject, TypeOK, DoneInjected, Phases
<1>4. QED
  BY <1>1, <1>2, <1>3 DEF Inject

(* A new request, or tunnel, starts its goroutine afresh.                  *)
LEMMA ArriveOK ==
  ASSUME IInv, DoneInjected, NEW r \in Requests, Arrive(r)
  PROVE  /\ DoneInjected'
         /\ pc[r] \in {"idle", "done", "failed"}
         /\ \A q \in Requests \ {r} : pc'[q] = pc[q] /\ subject'[q] = subject[q]
         /\ subject'[r] = NoSubject => pc'[r] = "done"
         /\ pc'[r] \in {"done", "lookup"}
BY OAuthAssumption DEF IInv, Arrive, TypeOK, DoneInjected

-----------------------------------------------------------------------------
(* Every step keeps plain requests in order.                               *)
LEMMA StepHTTPInv == IInv /\ HTTPInv /\ [FPNext]_fpVars => HTTPInv'
<1> SUFFICES ASSUME IInv, HTTPInv, [FPNext]_fpVars PROVE HTTPInv'
  OBVIOUS
<1> USE ForwardProxyAssumption DEF HTTPInv
<1>1. ASSUME NEW r \in Requests, ArriveHTTP(r) PROVE HTTPInv'
  <2>1. PICK q \in HTTPRequest :
          /\ request' = [request EXCEPT ![r] = q]
          /\ subject'[r] = IF GetInjector(q.host) = "oauth" THEN q.bearer ELSE NoSubject
    BY <1>1 DEF ArriveHTTP
  <2>2. Arrive(r) /\ step' = [step EXCEPT ![r] = "inject"]
    BY <1>1 DEF ArriveHTTP
  <2>3. SubjectAsRuled'
    BY <2>1, <2>2, ArriveOK DEF SubjectAsRuled
  <2>4. q # NoRequest
    OBVIOUS
  <2>5. QED
    BY <2>1, <2>2, <2>3, <2>4, ArriveOK
<1>2. ASSUME NEW r \in Requests, ArriveConnect(r) PROVE HTTPInv'
  <2>1. /\ Arrive(r) /\ subject'[r] = NoSubject
        /\ step[r] \in {"idle", "answered"}
        /\ UNCHANGED <<step, request>>
    BY <1>2 DEF ArriveConnect, AtRest, httpVars
  <2>2. SubjectAsRuled'
    BY <2>1, ArriveOK DEF SubjectAsRuled
  <2>3. QED
    BY <2>1, <2>2, ArriveOK
<1>3. ASSUME NEW r \in Requests, Injection(r) PROVE HTTPInv'
  <2>1. step[r] = "inject" /\ Inject(r) /\ UNCHANGED <<step, request>>
    BY <1>3 DEF Injection, httpVars
  <2>2. SubjectAsRuled'
    BY <2>1, InjectOK DEF SubjectAsRuled
  <2>3. QED
    BY <2>1, <2>2, InjectOK
<1>4. ASSUME NEW r \in Requests,
             InjectionFailed(r) \/ SendUpstream(r) \/ RoundTripFails(r)
               \/ ResponseBegins(r) \/ BodyEnds(r)
      PROVE  HTTPInv'
  BY <1>4 DEF InjectionFailed, SendUpstream, RoundTripFails, ResponseBegins,
     BodyEnds, Answered, vars, DoneInjected, SubjectAsRuled
<1>5. ASSUME UNCHANGED <<step, request, pc, subject, header>> PROVE HTTPInv'
  BY <1>5 DEF DoneInjected, SubjectAsRuled
<1>6. ASSUME NEW r \in Requests, Tunnelling(r) PROVE HTTPInv'
  BY <1>5, <1>6 DEF Tunnelling, vars, httpVars
<1>7. CASE Surroundings
  BY <1>5, <1>7 DEF Surroundings, IssueToken, CleanupCache, Tick, httpVars
<1>8. CASE UNCHANGED fpVars
  BY <1>5, <1>8 DEF fpVars, vars, httpVars
<1>9. QED
  BY <1>1, <1>2, <1>3, <1>4, <1>6, <1>7, <1>8 DEF FPNext, HandleHTTP

-----------------------------------------------------------------------------
\* One direction of a tunnel.
Flow == [sent : Nat, moved : Nat, fin : BOOLEAN]

(* What changes when one direction of a tunnel does.                       *)
LEMMA OneFlowChanges ==
  ASSUME flow \in [Requests -> [T!Directions -> Flow]],
         NEW r \in Requests, NEW d \in T!Directions, NEW x \in Flow,
         flow' = [flow EXCEPT ![r] = [flow[r] EXCEPT ![d] = x]]
  PROVE  /\ flow' \in [Requests -> [T!Directions -> Flow]]
         /\ \A q \in Requests, e \in T!Directions :
              flow'[q][e] = IF q = r /\ e = d THEN x ELSE flow[q][e]
<1>1. [flow[r] EXCEPT ![d] = x] \in [T!Directions -> Flow]
  OBVIOUS
<1>2. QED
  BY <1>1

(* A peer that has ended its side sends no more, so what was delivered     *)
(* stays so: every step keeps tunnels in order.                            *)
LEMMA TunnelStepOK ==
  ASSUME TunnelInv, NEW r \in Requests, T!TunnelStep(r)
  PROVE  TunnelInv'
<1> USE DEF TunnelInv, T!Directions, T!NoFlow, T!NoCopier
<1>1. CASE T!Dial(r)
  <2>1. CASE T!Refuse(r)
    BY <2>1 DEF T!Refuse, T!TunnelTypeOK, NothingMovedYet, DoneIsDelivered
  <2>2. CASE T!Establish(r)
    <3>1. T!TunnelTypeOK'
      BY <2>2 DEF T!Establish, T!TunnelTypeOK
    <3>2. NothingMovedYet' /\ DoneIsDelivered'
      BY <2>2 DEF T!Establish, T!TunnelTypeOK, NothingMovedYet, DoneIsDelivered
    <3>3. QED
      BY <3>1, <3>2
  <2>3. QED
    BY <1>1, <2>1, <2>2 DEF T!Dial
<1>2. CASE T!HandlerReturns(r)
  BY <1>2 DEF T!HandlerReturns, T!TunnelTypeOK, NothingMovedYet, DoneIsDelivered
<1>3. CASE T!Break(r)
  BY <1>3 DEF T!Break, T!TunnelTypeOK, NothingMovedYet, DoneIsDelivered
<1>4. ASSUME NEW d \in T!Directions, T!Send(r, d) PROVE TunnelInv'
  <2> DEFINE x == [flow[r][d] EXCEPT !.sent = @ + 1]
  <2>1. x \in Flow
    <3>1. flow[r][d] \in Flow
      BY DEF T!TunnelTypeOK, Flow
    <3>2. \A f \in Flow : [f EXCEPT !.sent = @ + 1] \in Flow
      BY DEF Flow
    <3>3. QED
      BY <3>1, <3>2
  <2>2. flow' = [flow EXCEPT ![r] = [flow[r] EXCEPT ![d] = x]]
    BY <1>4 DEF T!Send
  <2>3. ~flow[r][d].fin /\ UNCHANGED <<stage, ctxDone, copier, reset>>
    BY <1>4 DEF T!Send, T!CanSend
  <2>4. /\ x.sent = flow[r][d].sent + 1
        /\ x.moved = flow[r][d].moved
        /\ x.fin = flow[r][d].fin
    BY DEF T!TunnelTypeOK
  <2> HIDE DEF x
  <2>5. T!TunnelTypeOK'
    BY <2>1, <2>2, <2>3, <2>4, OneFlowChanges DEF T!TunnelTypeOK, Flow
  <2>6. NothingMovedYet'
    BY <2>1, <2>2, <2>3, <2>4, OneFlowChanges DEF T!TunnelTypeOK, NothingMovedYet, Flow
  <2>7. DoneIsDelivered'
    BY <2>1, <2>2, <2>3, <2>4, OneFlowChanges
       DEF T!TunnelTypeOK, DoneIsDelivered, Flow
  <2>8. QED
    BY <2>5, <2>6, <2>7
<1>5. ASSUME NEW d \in T!Directions, T!Finish(r, d) PROVE TunnelInv'
  <2> DEFINE x == [flow[r][d] EXCEPT !.fin = TRUE]
  <2>1. x \in Flow
    <3>1. flow[r][d] \in Flow
      BY DEF T!TunnelTypeOK, Flow
    <3>2. \A f \in Flow : [f EXCEPT !.fin = TRUE] \in Flow
      BY DEF Flow
    <3>3. QED
      BY <3>1, <3>2
  <2>2. flow' = [flow EXCEPT ![r] = [flow[r] EXCEPT ![d] = x]]
    BY <1>5 DEF T!Finish
  <2>3. /\ ctxDone' = [ctxDone EXCEPT ![r] =
                       @ \/ (stage[r] = "dial" /\ flow[r][d].sent = 0)]
        /\ UNCHANGED <<stage, copier, reset>>
    BY <1>5 DEF T!Finish, T!CanSend
  <2>4. /\ x.sent = flow[r][d].sent
        /\ x.moved = flow[r][d].moved
        /\ x.fin = TRUE
    BY DEF T!TunnelTypeOK
  <2> HIDE DEF x
  <2>5. T!TunnelTypeOK'
    BY <2>1, <2>2, <2>3, <2>4, OneFlowChanges DEF T!TunnelTypeOK, Flow
  <2>6. NothingMovedYet'
    BY <2>1, <2>2, <2>3, <2>4, OneFlowChanges DEF T!TunnelTypeOK, NothingMovedYet, Flow
  <2>7. DoneIsDelivered'
    BY <2>1, <2>2, <2>3, <2>4, OneFlowChanges
       DEF T!TunnelTypeOK, NothingMovedYet, DoneIsDelivered, Flow
  <2>8. QED
    BY <2>5, <2>6, <2>7
<1>6. ASSUME NEW d \in T!Directions, T!Copy(r, d) PROVE TunnelInv'
  <2> DEFINE x == [flow[r][d] EXCEPT !.moved = @ + 1]
  <2>1. x \in Flow
    <3>1. flow[r][d] \in Flow
      BY DEF T!TunnelTypeOK, Flow
    <3>2. \A f \in Flow : [f EXCEPT !.moved = @ + 1] \in Flow
      BY DEF Flow
    <3>3. QED
      BY <3>1, <3>2
  <2>2. flow' = [flow EXCEPT ![r] = [flow[r] EXCEPT ![d] = x]]
    BY <1>6 DEF T!Copy
  <2>3. /\ stage[r] = "copying"
        /\ flow[r][d].moved < flow[r][d].sent
        /\ UNCHANGED <<stage, ctxDone, copier, reset>>
    BY <1>6 DEF T!Copy, T!CanSend
  <2>4. /\ x.sent = flow[r][d].sent
        /\ x.moved = flow[r][d].moved + 1
        /\ x.fin = flow[r][d].fin
    BY DEF T!TunnelTypeOK
  <2> HIDE DEF x
  <2>5. T!TunnelTypeOK'
    BY <2>1, <2>2, <2>3, <2>4, OneFlowChanges DEF T!TunnelTypeOK, Flow
  <2>6. NothingMovedYet'
    BY <2>1, <2>2, <2>3, <2>4, OneFlowChanges DEF T!TunnelTypeOK, NothingMovedYet, Flow
  <2>7. DoneIsDelivered'
    BY <2>1, <2>2, <2>3, <2>4, OneFlowChanges
       DEF T!TunnelTypeOK, DoneIsDelivered, Flow
  <2>8. QED
    BY <2>5, <2>6, <2>7
<1>7. ASSUME NEW d \in T!Directions, T!CopyEnds(r, d) PROVE TunnelInv'
  <2>1. T!TunnelTypeOK' /\ NothingMovedYet'
    BY <1>7 DEF T!CopyEnds, T!CopyIsOver, T!TunnelTypeOK, NothingMovedYet
  <2>2. DoneIsDelivered'
    BY <1>7 DEF T!CopyEnds, T!CopyIsOver, T!TunnelTypeOK, DoneIsDelivered
  <2>3. QED
    BY <2>1, <2>2
<1>8. QED
  BY <1>1, <1>2, <1>3, <1>4, <1>5, <1>6, <1>7 DEF T!TunnelStep, T!Peers

(* A goroutine that serves something else forgets its tunnel.              *)
LEMMA RenewOK ==
  ASSUME TunnelInv, NEW r \in Requests, NEW st \in {"none", "dial"}, T!Renew(r, st)
  PROVE  TunnelInv'
BY DEF TunnelInv, T!Renew, T!NoFlow, T!NoCopier, T!Directions, T!TunnelTypeOK,
       NothingMovedYet, DoneIsDelivered

(* Every step keeps tunnels in order.                                      *)
LEMMA StepTunnelInv == TunnelInv /\ [FPNext]_fpVars => TunnelInv'
<1> SUFFICES ASSUME TunnelInv, [FPNext]_fpVars PROVE TunnelInv'
  OBVIOUS
<1>1. ASSUME UNCHANGED tunnelVars PROVE TunnelInv'
  BY <1>1 DEF TunnelInv, T!TunnelTypeOK, NothingMovedYet, DoneIsDelivered, tunnelVars
<1>2. ASSUME NEW r \in Requests, ArriveHTTP(r) \/ ArriveConnect(r) PROVE TunnelInv'
  BY <1>2, RenewOK DEF ArriveHTTP, ArriveConnect, T!Connect
<1>3. ASSUME NEW r \in Requests, HandleHTTP(r) \/ ResponseBegins(r) PROVE TunnelInv'
  BY <1>1, <1>3 DEF HandleHTTP, Injection, InjectionFailed, SendUpstream,
     RoundTripFails, ResponseBegins, BodyEnds, Answered
<1>4. ASSUME NEW r \in Requests, Tunnelling(r) PROVE TunnelInv'
  BY <1>4, TunnelStepOK DEF Tunnelling
<1>5. CASE Surroundings \/ UNCHANGED fpVars
  BY <1>1, <1>5 DEF Surroundings, fpVars
<1>6. QED
  BY <1>2, <1>3, <1>4, <1>5 DEF FPNext

(* The invariants hold in every state.                                     *)
LEMMA FPInvHolds == FPSpec => []FPInv
<1>1. FPInit => FPInv
  <2> SUFFICES ASSUME FPInit PROVE FPInv
    OBVIOUS
  <2>1. HTTPInv
    BY DEF FPInit, Init, HTTPInv, DoneInjected, SubjectAsRuled
  <2>2. TunnelInv
    BY DEF FPInit, T!TunnelInit, T!NoFlow, T!NoCopier, T!Directions, TunnelInv,
           T!TunnelTypeOK, NothingMovedYet, DoneIsDelivered
  <2>3. QED
    BY <2>1, <2>2, InitIInv DEF FPInit, FPInv
<1>2. FPInv /\ [FPNext]_fpVars => FPInv'
  BY StepOfInjector, StepIInv, StepHTTPInv, StepTunnelInv DEF FPInv
<1>3. QED
  BY <1>1, <1>2, PTL DEF FPSpec

-----------------------------------------------------------------------------
(* The forward proxy keeps its types, and never runs ahead of Inject       *)
(* (proxy.go:147-300).                                                     *)
THEOREM FPTypeCorrect == FPSpec => []FPTypeOK
<1>1. FPInv => FPTypeOK
  BY DEF FPInv, IInv, HTTPInv, TunnelInv, FPTypeOK
<1>2. QED
  BY <1>1, FPInvHolds, PTL

(* For every list of rules, a request leaves with a token exchanged under  *)
(* its own cache key if its rule says so, and as it came if not.           *)
THEOREM RequestsLeaveAsRuled == FPSpec => LeavesAsRuled
<1>1. ASSUME FPInv, FPNext, NEW r \in Requests, step[r] # "forward", step'[r] = "forward"
      PROVE  IF OAuthRuled(request[r].host) /\ request[r].bearer # NoSubject
             THEN header[r] # NoToken /\ CacheKey[header[r].sub] = CacheKey[request[r].bearer]
             ELSE header[r] = NoToken
  <2>1. step[r] = "inject" /\ pc[r] = "done"
    <3>1. \E q \in Requests : SendUpstream(q)
      BY <1>1 DEF FPNext, ArriveHTTP, ArriveConnect, HandleHTTP, Injection,
         InjectionFailed, RoundTripFails, ResponseBegins, BodyEnds, Answered,
         Tunnelling, Surroundings, httpVars, FPInv, HTTPInv
    <3>2. QED
      BY <1>1, <3>1 DEF SendUpstream, FPInv, HTTPInv
  <2>2. request[r] \in HTTPRequest
    BY <2>1, <1>1 DEF FPInv, HTTPInv
  <2>3. subject[r] = IF OAuthRuled(request[r].host) THEN request[r].bearer ELSE NoSubject
    <3>1. request[r].host \in Hosts
      BY <2>2 DEF HTTPRequest
    <3>2. QED
      BY <1>1, <2>1, <3>1, RouterFollowsRules DEF FPInv, HTTPInv, SubjectAsRuled
  <2>4. /\ subject[r] # NoSubject => header[r] # NoToken
        /\ header[r] # NoToken => /\ subject[r] \in Subjects
                                  /\ CacheKey[header[r].sub] = CacheKey[subject[r]]
    BY <1>1, <2>1 DEF FPInv, HTTPInv, DoneInjected, IInv, HeaderAgrees, SameKeyServed
  <2>5. QED
    BY <2>3, <2>4, OAuthAssumption
<1>2. FPInv /\ [FPNext]_fpVars =>
        [\A r \in Requests :
           (step[r] # "forward" /\ step'[r] = "forward") =>
             LET q == request[r] IN
             IF OAuthRuled(q.host) /\ q.bearer # NoSubject
             THEN header[r] # NoToken /\ CacheKey[header[r].sub] = CacheKey[q.bearer]
             ELSE header[r] = NoToken]_fpVars
  BY <1>1
<1>3. QED
  BY <1>2, FPInvHolds, PTL DEF FPSpec, LeavesAsRuled

(* No tunnel whose connections are intact is closed before one direction   *)
(* of it is finished and delivered, however much its peers send.           *)
THEOREM DeliversOneDirection == FPSpec => []OneDirectionDelivered
<1>1. FPInv => OneDirectionDelivered
  BY DEF FPInv, TunnelInv, DoneIsDelivered, OneDirectionDelivered, T!OneDirectionDelivered
<1>2. QED
  BY <1>1, FPInvHolds, PTL

(* The token of another cache key is not served through the proxy either.  *)
THEOREM ProxyServesSameKey == FPSpec => []SameKeyServed
<1>1. FPInv => SameKeyServed
  BY DEF FPInv, IInv
<1>2. QED
  BY <1>1, FPInvHolds, PTL

(* Whatever the proxy does around it, the injector inside it behaves as    *)
(* OAuthInjector says.                                                     *)
THEOREM RunsTheInjector == FPSpec => Init /\ [][Next]_vars
<1>1. FPInit => Init
  BY DEF FPInit
<1>2. QED
  BY <1>1, StepOfInjector, PTL DEF FPSpec

(* So the proxy keeps to requests what TokenInjection promises ...         *)
THEOREM ProxyKeepsPromise == FPSpec => ImplementsInjection
BY RunsTheInjector, SafeInjection, PTL

(* ... and no tunnel, no rule and no request that fails makes a token be   *)
(* injected when it is older than the injector alone lets it become.       *)
THEOREM ProxyInjectsFresh ==
  FPSpec => InjectedSoonAfterExpiryAtMost /\ ReusedForCacheTTLAtMost
BY RunsTheInjector, SafeAges, PTL
=============================================================================
