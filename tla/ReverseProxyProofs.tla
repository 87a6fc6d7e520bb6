-------------------------- MODULE ReverseProxyProofs --------------------------
(***************************************************************************)
(* Which keys the JWT verifier can still accept, for any number of         *)
(* goroutines, any set of keys, any rotation of them by the issuer and any *)
(* ttl and timeout; and then what the reverse proxy lets through, for any  *)
(* number of concurrent requests and any tokens.  The verifier's part of   *)
(* the state moves as in JWTVerifier, so its type invariant carries over.  *)
(***************************************************************************)
EXTENDS ReverseProxy, TLAPS

\* Every key of S is published, or was withdrawn no earlier than t.
CurrentSince(S, t) == \A k \in S : k \in published \/ t <= retiredAt[k]

HoldsNothing ==
  \A c \in Callers : gpc[c] \in {"out", "read", "wait", "error"} => got[c] = Nil

FetchInTime ==
  \A c \in Callers :
    gpc[c] = "fetch" =>
      /\ sentAt[c] <= now /\ now <= sentAt[c] + FetchTimeout
      /\ got[c] # Nil => CurrentSince(got[c], sentAt[c])

CacheInTime ==
  cache # Nil =>
    lastFetch <= now /\ CurrentSince(cache, lastFetch - FetchTimeout)

ReturnedInTime ==
  \A c \in Callers :
    (gpc[c] = "returned" /\ got[c] # Nil) =>
      CurrentSince(got[c], now - TTL - FetchTimeout + 1)

IInv == TypeOK /\ HoldsNothing /\ FetchInTime /\ CacheInTime /\ ReturnedInTime

\* The verifier without its fairness: all that its safety rests on.
Safety == Init /\ [][Next]_vars

-----------------------------------------------------------------------------
(* The types, with or without a client with a timeout.                     *)
LEMMA StepTypeOK == TypeOK /\ [Next]_vars => TypeOK'
<1> SUFFICES ASSUME TypeOK, [Next]_vars PROVE TypeOK'
  OBVIOUS
<1> USE JWKSAssumption, JWTAssumption DEF TypeOK, JWKSTypeOK, Sets
<1>1. ASSUME NEW c \in Callers, Begin(c) PROVE TypeOK'
  BY <1>1 DEF Begin, Call
<1>2. ASSUME NEW c \in Callers, Decide(c) PROVE TypeOK'
  <2>1. verdict' \in [Callers -> {"none", "accepted", "rejected", "panicked"}]
    BY <1>2 DEF Decide, Verdict
  <2>2. QED
    BY <1>2, <2>1 DEF Decide, Return
<1>3. ASSUME NEW c \in Callers, Get(c), UNCHANGED <<token, verdict>> PROVE TypeOK'
  <2>1. CASE Read(c)
    BY <1>3, <2>1 DEF Read
  <2>2. CASE Acquire(c)
    BY <1>3, <2>2 DEF Acquire
  <2>3. CASE FetchOK(c)
    BY <1>3, <2>3 DEF FetchOK
  <2>4. CASE FetchFails(c)
    BY <1>3, <2>4 DEF FetchFails
  <2>5. CASE ClientFails(c)
    BY <1>3, <2>5 DEF ClientFails
  <2>6. QED
    BY <1>3, <2>1, <2>2, <2>3, <2>4, <2>5 DEF Get, FetchEnds
<1>4. ASSUME Environment, UNCHANGED <<token, verdict>> PROVE TypeOK'
  <2>1. ASSUME NEW c \in Callers, Answer(c) PROVE TypeOK'
    BY <1>4, <2>1 DEF Answer
  <2>2. CASE Clear
    BY <1>4, <2>2 DEF Clear
  <2>3. CASE Rotate
    BY <1>4, <2>3 DEF Rotate
  <2>4. CASE Tick
    BY <1>4, <2>4 DEF Tick
  <2>5. QED
    BY <1>4, <2>1, <2>2, <2>3, <2>4 DEF Environment
<1>5. CASE UNCHANGED vars
  BY <1>5 DEF vars
<1>6. QED
  BY <1>1, <1>2, <1>3, <1>4, <1>5 DEF Next

LEMMA SafeTypes == Safety => []TypeOK
<1>1. Init => TypeOK
  BY JWKSAssumption DEF Init, JWKSInit, TypeOK, JWKSTypeOK, Sets
<1>2. QED
  BY <1>1, StepTypeOK, PTL DEF Safety

(* The verifier and its key cache keep their types, and the write lock is  *)
(* held by the goroutine that fetches and by nobody else.                  *)
THEOREM TypeCorrect == Spec => []TypeOK
BY SafeTypes, PTL DEF Spec, Safety

LEMMA SafeFetches == Safety => NoFetchWhileFresh
<1>1. ASSUME TypeOK, [Next]_vars, NEW c \in Callers,
             gpc[c] # "fetch", gpc'[c] = "fetch"
      PROVE  ~Fresh
  <2>1. ASSUME NEW d \in Callers, Acquire(d) PROVE ~Fresh
    BY <1>1, <2>1 DEF Acquire, TypeOK, JWKSTypeOK
  <2>2. \E d \in Callers : Acquire(d)
    BY <1>1 DEF TypeOK, JWKSTypeOK, Next, Begin, Call, Decide, Return, Get, Read,
                FetchEnds, FetchOK, FetchFails, ClientFails, Environment, Answer,
                Clear, Rotate, Tick, vars
  <2>3. QED
    BY <2>1, <2>2
<1>2. TypeOK /\ [Next]_vars =>
        [\A c \in Callers :
           (gpc[c] # "fetch" /\ gpc'[c] = "fetch") => ~Fresh]_jwksVars
  BY <1>1
<1>3. QED
  BY <1>2, SafeTypes, PTL DEF Safety, NoFetchWhileFresh

(* Whatever goroutines race for the write lock, nobody sends a fetch while *)
(* the cache holds a set that is still good.                               *)
THEOREM NeverFetchesWhileFresh == Spec => NoFetchWhileFresh
BY SafeFetches, PTL DEF Spec, Safety

-----------------------------------------------------------------------------
(* What is in the cache and in the hands of the goroutines was published   *)
(* recently enough, if the fetch uses the client with a timeout.           *)
LEMMA StepIInv ==
  ASSUME CustomClient, IInv, [Next]_vars
  PROVE  IInv'
<1> USE JWKSAssumption, JWTAssumption DEF IInv
<1>1. TypeOK'
  BY StepTypeOK
<1>2. /\ now \in Nat /\ lastFetch \in Int /\ TTL \in Nat /\ TTL > 0
      /\ FetchTimeout \in Nat
      /\ published \in SUBSET Kids /\ retiredAt \in [Kids -> Int]
      /\ cache \in Sets
      /\ gpc \in [Callers -> {"out", "read", "wait", "fetch", "returned", "error"}]
      /\ got \in [Callers -> Sets] /\ sentAt \in [Callers -> Nat]
  BY DEF TypeOK, JWKSTypeOK
<1>3. \A S \in Sets : S # Nil => S \subseteq Kids
  BY DEF Sets
<1> DEFINE Rest == HoldsNothing /\ FetchInTime /\ CacheInTime /\ ReturnedInTime
<1>4. ASSUME NEW c \in Callers, Begin(c) PROVE Rest'
  BY <1>2, <1>4 DEF Begin, Call, HoldsNothing, FetchInTime, CacheInTime,
                    ReturnedInTime, CurrentSince
<1>5. ASSUME NEW c \in Callers, Decide(c) PROVE Rest'
  BY <1>2, <1>5 DEF Decide, Return, HoldsNothing, FetchInTime, CacheInTime,
                    ReturnedInTime, CurrentSince
<1>6. ASSUME NEW c \in Callers, Read(c) \/ Acquire(c) PROVE Rest'
  <2>1. /\ gpc[c] \in {"read", "wait"}
        /\ UNCHANGED <<now, published, retiredAt, cache, lastFetch>>
    BY <1>6 DEF Read, Acquire
  <2>2. CASE /\ Fresh
             /\ got' = [got EXCEPT ![c] = cache]
             /\ gpc' = [gpc EXCEPT ![c] = "returned"]
             /\ UNCHANGED sentAt
    <3>1. HoldsNothing' /\ FetchInTime' /\ CacheInTime'
      BY <1>2, <2>1, <2>2 DEF HoldsNothing, FetchInTime, CacheInTime, CurrentSince
    <3>2. CurrentSince(cache, now - TTL - FetchTimeout + 1)
      BY <1>2, <1>3, <2>2 DEF Fresh, CacheInTime, CurrentSince
    <3>3. ReturnedInTime'
      BY <1>2, <2>1, <2>2, <3>2 DEF ReturnedInTime, CurrentSince
    <3>4. QED
      BY <3>1, <3>3
  <2>3. CASE /\ gpc' = [gpc EXCEPT ![c] = "wait"]
             /\ UNCHANGED <<got, sentAt>>
    BY <1>2, <2>1, <2>3 DEF HoldsNothing, FetchInTime, CacheInTime,
                            ReturnedInTime, CurrentSince
  <2>4. CASE /\ sentAt' = [sentAt EXCEPT ![c] = now]
             /\ gpc' = [gpc EXCEPT ![c] = "fetch"]
             /\ UNCHANGED got
    BY <1>2, <2>1, <2>4 DEF HoldsNothing, FetchInTime, CacheInTime,
                            ReturnedInTime, CurrentSince
  <2>5. QED
    BY <1>6, <2>2, <2>3, <2>4 DEF Read, Acquire
<1>7. ASSUME NEW c \in Callers, FetchOK(c) PROVE Rest'
  <2>1. /\ gpc[c] = "fetch" /\ got[c] # Nil /\ got[c] \subseteq Kids
        /\ cache' = got[c] /\ lastFetch' = now
        /\ gpc' = [gpc EXCEPT ![c] = "returned"]
        /\ sentAt' = [sentAt EXCEPT ![c] = 0]
        /\ UNCHANGED <<now, published, retiredAt, got>>
    BY <1>2, <1>3, <1>7 DEF FetchOK
  <2>2. CurrentSince(got[c], now - FetchTimeout)
    BY <1>2, <2>1 DEF FetchInTime, CurrentSince
  <2>3. CacheInTime'
    BY <1>2, <2>1, <2>2 DEF CacheInTime, CurrentSince
  <2>4. CurrentSince(got[c], now - TTL - FetchTimeout + 1)
    BY <1>2, <2>1, <2>2 DEF CurrentSince
  <2>5. ReturnedInTime'
    BY <1>2, <2>1, <2>4 DEF ReturnedInTime, CurrentSince
  <2>6. HoldsNothing' /\ FetchInTime'
    BY <1>2, <2>1 DEF HoldsNothing, FetchInTime, CurrentSince
  <2>7. QED
    BY <2>3, <2>5, <2>6
<1>8. ASSUME NEW c \in Callers, FetchFails(c) \/ ClientFails(c) PROVE Rest'
  <2>1. /\ \/ cache' = Nil
           \/ cache' = cache /\ lastFetch' = lastFetch
        /\ \E result \in {"returned", "error"} : gpc' = [gpc EXCEPT ![c] = result]
        /\ got' = [got EXCEPT ![c] = Nil]
        /\ sentAt' = [sentAt EXCEPT ![c] = 0]
        /\ UNCHANGED <<now, published, retiredAt>>
    BY <1>2, <1>8 DEF FetchFails, ClientFails
  <2>2. CacheInTime'
    BY <1>2, <2>1 DEF CacheInTime, CurrentSince
  <2>3. HoldsNothing' /\ FetchInTime' /\ ReturnedInTime'
    BY <1>2, <2>1 DEF HoldsNothing, FetchInTime, ReturnedInTime, CurrentSince
  <2>4. QED
    BY <2>2, <2>3
<1>9. ASSUME NEW c \in Callers, Answer(c) PROVE Rest'
  <2>1. /\ gpc[c] = "fetch"
        /\ got' = [got EXCEPT ![c] = published]
        /\ UNCHANGED <<now, published, retiredAt, cache, lastFetch, lock, gpc, sentAt>>
    BY <1>9 DEF Answer
  <2>2. CacheInTime' /\ HoldsNothing' /\ ReturnedInTime'
    BY <1>2, <2>1 DEF CacheInTime, HoldsNothing, ReturnedInTime, CurrentSince
  <2>3. FetchInTime'
    BY <1>2, <2>1 DEF FetchInTime, CurrentSince
  <2>4. QED
    BY <2>2, <2>3
<1>10. ASSUME Clear PROVE Rest'
  BY <1>2, <1>10 DEF Clear, HoldsNothing, FetchInTime, CacheInTime, ReturnedInTime,
                     CurrentSince
<1>11. ASSUME Rotate PROVE Rest'
  <2>1. /\ UNCHANGED <<now, cache, lastFetch, lock, gpc, got, sentAt>>
        /\ \A k \in Kids : k \in published \ published' => retiredAt'[k] = now
        /\ \A k \in Kids : k \notin published => retiredAt'[k] = retiredAt[k]
        /\ \A k \in Kids : k \in published' \/ retiredAt'[k] \in Int
    BY <1>2, <1>11 DEF Rotate
  <2>2. ASSUME NEW S \in SUBSET Kids, NEW t \in Int, t <= now, CurrentSince(S, t)
        PROVE  CurrentSince(S, t)'
    BY <2>1, <2>2 DEF CurrentSince
  <2>3. HoldsNothing'
    BY <2>1 DEF HoldsNothing
  <2>4. FetchInTime'
    BY <1>2, <1>3, <2>1, <2>2 DEF FetchInTime
  <2>5. CacheInTime'
    BY <1>2, <1>3, <2>1, <2>2 DEF CacheInTime
  <2>6. ReturnedInTime'
    BY <1>2, <1>3, <2>1, <2>2 DEF ReturnedInTime
  <2>7. QED
    BY <2>3, <2>4, <2>5, <2>6
<1>12. ASSUME Tick PROVE Rest'
  BY <1>2, <1>12 DEF Tick, HoldsNothing, FetchInTime, CacheInTime, ReturnedInTime,
                     CurrentSince
<1>13. ASSUME UNCHANGED vars PROVE Rest'
  BY <1>13 DEF vars, HoldsNothing, FetchInTime, CacheInTime, ReturnedInTime,
               CurrentSince
<1>14. Rest'
  BY <1>4, <1>5, <1>6, <1>7, <1>8, <1>9, <1>10, <1>11, <1>12, <1>13
     DEF Next, Get, FetchEnds, Environment
<1>15. QED
  BY <1>1, <1>14

\* The key that signed the token of c is in use, or was so until recently.
SignerIsCurrent(c) ==
  LET k == token[c].signer IN
  /\ k \in Kids
  /\ k \in published \/ now < retiredAt[k] + TTL + FetchTimeout

(* A Verify that accepts has found the key in a set that is recent enough. *)
LEMMA AcceptingIsCurrent ==
  ASSUME IInv, NEW c \in Callers, Decide(c), verdict'[c] = "accepted"
  PROVE  SignerIsCurrent(c)
<1>1. /\ gpc[c] = "returned" /\ got[c] # Nil
      /\ token[c].signer \in got[c]
  BY DEF Decide, Return, Verdict, IInv, TypeOK
<1>2. got[c] \in SUBSET Kids
  BY <1>1 DEF IInv, TypeOK, JWKSTypeOK, Sets
<1>3. CurrentSince(got[c], now - TTL - FetchTimeout + 1)
  BY <1>1 DEF IInv, ReturnedInTime
<1>4. /\ now \in Int /\ TTL \in Int /\ FetchTimeout \in Int
      /\ retiredAt[token[c].signer] \in Int
  BY <1>1, <1>2, JWKSAssumption DEF IInv, TypeOK, JWKSTypeOK
<1>5. QED
  BY <1>1, <1>2, <1>3, <1>4 DEF CurrentSince, SignerIsCurrent

LEMMA InitIInv == Init => IInv
BY JWKSAssumption DEF Init, JWKSInit, IInv, TypeOK, JWKSTypeOK, Sets,
                      HoldsNothing, FetchInTime, CacheInTime, ReturnedInTime

LEMMA SafeAccepts ==
  ASSUME CustomClient
  PROVE  Safety => AcceptedKeyIsCurrent
<1>1. IInv /\ [Next]_vars => IInv'
  BY StepIInv
<1>2. ASSUME IInv, [Next]_vars, NEW c \in Callers, Accepts(c)
      PROVE  SignerIsCurrent(c)
  <2>1. Decide(c)
    BY <1>2 DEF Accepts, Next, Begin, Decide, vars, IInv, TypeOK
  <2>2. QED
    BY <1>2, <2>1, AcceptingIsCurrent DEF Accepts
<1>3. IInv /\ [Next]_vars =>
        [\A c \in Callers :
           Accepts(c) =>
             LET k == token[c].signer IN
             /\ k \in Kids
             /\ k \in published \/ now < retiredAt[k] + TTL + FetchTimeout]_vars
  BY <1>2 DEF SignerIsCurrent
<1>4. QED
  BY InitIInv, <1>1, <1>3, PTL DEF Safety, AcceptedKeyIsCurrent

(* With a client that has a timeout, a key the issuer has withdrawn is     *)
(* accepted for less than cacheTtl plus that timeout.                      *)
THEOREM AcceptsCurrentKeys ==
  ASSUME CustomClient
  PROVE  Spec => AcceptedKeyIsCurrent
BY SafeAccepts, PTL DEF Spec, Safety

-----------------------------------------------------------------------------
(* The reverse proxy.                                                      *)

(* Every step of the proxy is a step of the verifier, or leaves it alone.  *)
LEMMA StepOfVerifier == [RPNext]_rpVars => [Next]_vars
<1>1. ASSUME NEW c \in Callers, Handle(c) PROVE [Next]_vars
  <2>1. CASE Authenticate(c)
    BY <2>1 DEF Authenticate, Next
  <2>2. CASE LetThrough(c) \/ TurnAway(c) \/ VerifyPanics(c)
    BY <2>2 DEF LetThrough, TurnAway, VerifyPanics, Verifies, Next
  <2>3. CASE \/ ServeHealth(c) \/ PassPublic(c) \/ PassPreflight(c)
             \/ RejectBare(c) \/ BackendAnswers(c) \/ BackendFails(c)
             \/ BackendBreaksOff(c)
    BY <2>3 DEF ServeHealth, PassPublic, PassPreflight, RejectBare,
                BackendAnswers, BackendFails, BackendBreaksOff
  <2>4. QED
    BY <1>1, <2>1, <2>2, <2>3 DEF Handle
<1>2. ASSUME (\E c \in Callers : Get(c)) \/ Environment,
             UNCHANGED <<token, verdict, proxyVars, remoteVars>>
      PROVE  [Next]_vars
  BY <1>2 DEF Next
<1>3. ASSUME UNCHANGED rpVars PROVE [Next]_vars
  BY <1>3 DEF rpVars
<1>4. QED
  BY <1>1, <1>2, <1>3 DEF RPNext

(* Whatever the proxy does around it, the verifier inside it behaves as    *)
(* JWTVerifier says: the proxy implements its specification but for the    *)
(* fairness, as a proxy with a remote verifier never calls it.             *)
THEOREM RunsTheVerifier == RPSpec => Init /\ [][Next]_vars
<1>1. RPInit => Init
  BY DEF RPInit
<1>2. QED
  BY <1>1, StepOfVerifier, PTL DEF RPSpec

(* So no request makes the proxy fetch keys while those it has are good.   *)
THEOREM ProxyFetchesWhenStale == RPSpec => NoFetchWhileFresh
BY RunsTheVerifier, SafeFetches, PTL DEF Safety

(* What the verifier returned is recent enough in the proxy as well.       *)
LEMMA VerifierInTime ==
  ASSUME CustomClient
  PROVE  RPSpec => []IInv
<1>1. IInv /\ [Next]_vars => IInv'
  BY StepIInv
<1>2. QED
  BY <1>1, InitIInv, RunsTheVerifier, PTL

-----------------------------------------------------------------------------
\* A positive answer is about the token of this very request, and was given
\* after it came.
AnswersOwnQuery ==
  \A c \in Callers : (query[c] # NoToken /\ answer[c] = "yes") => ~dead[c]

\* A token that is asked about and is still active was so on arrival.
ActiveIsNotDead ==
  \A c \in Callers : query[c] \in active => ~dead[c]

\* RPTypeOK and AnsweredAreCounted but for what is the verifier's alone.
ProxyOK ==
  /\ R!RemoteTypeOK
  /\ mode \in {"jwt", "remote"}
  /\ request \in [Callers -> Requests \union {NoRequest}]
  /\ phase \in [Callers -> {"idle", "verify", "forward", "answered", "aborted"}]
  /\ counted \in [Callers -> 0 .. 2]
  /\ \A c \in Callers :
       phase[c] = "verify" <=> gpc[c] # "out" \/ query[c] # NoToken
  /\ \A c \in Callers : IF mode = "jwt" THEN query[c] = NoToken ELSE gpc[c] = "out"
  /\ \A c \in Callers : phase[c] \in {"verify", "forward"} => request[c] # NoRequest
  /\ AnsweredAreCounted
  /\ AnswersOwnQuery
  /\ ActiveIsNotDead

RPInv == TypeOK /\ ProxyOK

(* An arrival that leaves the verifier alone keeps the proxy's variables   *)
(* in order, if a guarded request is only answered when it is counted.     *)
LEMMA ArriveOK ==
  ASSUME RPInv, NEW c \in Callers, NEW q \in Requests,
         NEW p \in {"forward", "answered"}, NEW n \in 0 .. 1,
         p = "answered" /\ q.path = "guarded" => n > 0,
         Arrive(c, q, p, n), UNCHANGED <<vars, remoteVars>>
  PROVE  ProxyOK'
BY ReverseProxyAssumption
   DEF RPInv, ProxyOK, AnsweredAreCounted, AnswersOwnQuery, ActiveIsNotDead,
       R!RemoteTypeOK, Arrive, TypeOK, JWKSTypeOK, vars, remoteVars

(* Every step of a handler keeps them in order.                            *)
LEMMA HandleOK ==
  ASSUME RPInv, NEW c \in Callers, Handle(c)
  PROVE  ProxyOK'
<1> USE ReverseProxyAssumption DEF RPInv
<1>1. CASE ServeHealth(c)
  BY <1>1, ArriveOK DEF ServeHealth
<1>2. CASE PassPublic(c)
  BY <1>2, ArriveOK DEF PassPublic
<1>3. CASE PassPreflight(c)
  BY <1>3, ArriveOK DEF PassPreflight
<1>4. CASE RejectBare(c)
  BY <1>4, ArriveOK DEF RejectBare
<1>5. CASE Authenticate(c)
  <2>1. PICK q \in Requests : q.path = "guarded" /\ Arrive(c, q, "verify", 0)
    BY <1>5 DEF Authenticate
  <2>2. CASE mode = "jwt" /\ Begin(c) /\ UNCHANGED remoteVars
    <3>1. gpc' = [gpc EXCEPT ![c] = "read"]
      BY <2>2 DEF Begin, Call
    <3>2. QED
      BY <2>1, <2>2, <3>1
         DEF ProxyOK, AnsweredAreCounted, AnswersOwnQuery, ActiveIsNotDead,
             R!RemoteTypeOK, remoteVars, Arrive, TypeOK, JWKSTypeOK
  <2>3. CASE mode = "remote" /\ R!Ask(c) /\ UNCHANGED vars
    <3>1. PICK t \in Credentials :
            /\ query' = [query EXCEPT ![c] = t]
            /\ dead' = [dead EXCEPT ![c] = t \notin active]
      BY <2>3 DEF R!Ask
    <3>2. /\ answer' = [answer EXCEPT ![c] = "none"]
          /\ UNCHANGED <<active, gpc>>
          /\ t # NoToken
      BY <2>3 DEF R!Ask, vars
    <3>3. R!RemoteTypeOK'
      BY <3>1, <3>2 DEF ProxyOK, R!RemoteTypeOK
    <3>4. AnswersOwnQuery'
      BY <3>1, <3>2 DEF ProxyOK, R!RemoteTypeOK, AnswersOwnQuery
    <3>5. ActiveIsNotDead'
      BY <3>1, <3>2 DEF ProxyOK, R!RemoteTypeOK, ActiveIsNotDead
    <3>6. /\ request' \in [Callers -> Requests \union {NoRequest}]
          /\ phase' \in [Callers -> {"idle", "verify", "forward", "answered", "aborted"}]
          /\ counted' \in [Callers -> 0 .. 2]
          /\ mode' = mode
          /\ \A d \in Callers : phase'[d] \in {"verify", "forward"} => request'[d] # NoRequest
          /\ AnsweredAreCounted'
      BY <2>1 DEF ProxyOK, AnsweredAreCounted, Arrive
    <3>7. /\ \A d \in Callers :
               phase'[d] = "verify" <=> gpc'[d] # "out" \/ query'[d] # NoToken
          /\ \A d \in Callers : gpc'[d] = "out"
      BY <2>1, <2>3, <3>1, <3>2 DEF ProxyOK, Arrive, R!RemoteTypeOK
    <3>8. QED
      BY <2>3, <3>3, <3>4, <3>5, <3>6, <3>7 DEF ProxyOK
  <2>4. QED
    BY <1>5, <2>2, <2>3 DEF Authenticate
<1>6. ASSUME NEW p \in {"forward", "answered", "aborted"},
             NEW result, Verifies(c, result),
             phase' = [phase EXCEPT ![c] = p],
             UNCHANGED <<request, mode>>,
             IF p = "answered" THEN counted' = [counted EXCEPT ![c] = 1]
                               ELSE counted' = counted
      PROVE  ProxyOK'
  <2>1. CASE mode = "jwt" /\ Decide(c) /\ UNCHANGED remoteVars
    <3>1. gpc[c] # "out" /\ gpc' = [gpc EXCEPT ![c] = "out"]
      BY <2>1 DEF Decide, Return, TypeOK, JWKSTypeOK
    <3>2. QED
      BY <1>6, <2>1, <3>1
         DEF ProxyOK, AnsweredAreCounted, AnswersOwnQuery, ActiveIsNotDead,
             R!RemoteTypeOK, remoteVars, TypeOK, JWKSTypeOK
  <2>2. CASE mode = "remote" /\ (R!Accept(c) \/ R!Reject(c)) /\ UNCHANGED vars
    <3>1. /\ query[c] # NoToken
          /\ query' = [query EXCEPT ![c] = NoToken]
          /\ UNCHANGED <<active, answer, dead, gpc>>
      BY <2>2 DEF R!Accept, R!Reject, vars
    <3>2. QED
      BY <1>6, <2>2, <3>1
         DEF ProxyOK, AnsweredAreCounted, AnswersOwnQuery, ActiveIsNotDead,
             R!RemoteTypeOK, TypeOK, JWKSTypeOK
  <2>3. QED
    BY <1>6, <2>1, <2>2 DEF Verifies
<1>7. CASE LetThrough(c)
  BY <1>6, <1>7 DEF LetThrough
<1>8. CASE TurnAway(c)
  BY <1>6, <1>8 DEF TurnAway
<1>9. CASE VerifyPanics(c)
  BY <1>6, <1>9 DEF VerifyPanics
<1>10. ASSUME NEW p \in {"answered", "aborted"}, phase[c] = "forward",
              phase' = [phase EXCEPT ![c] = p],
              NEW n \in 0 .. 2, counted' = [counted EXCEPT ![c] = n],
              (p = "answered" /\ request[c].path = "guarded") => n > 0,
              UNCHANGED <<request, mode, vars, remoteVars>>
       PROVE  ProxyOK'
  BY <1>10 DEF ProxyOK, AnsweredAreCounted, AnswersOwnQuery, ActiveIsNotDead,
               R!RemoteTypeOK, remoteVars, vars, TypeOK, JWKSTypeOK
<1> HandlerCount(c) \in 0 .. 1 /\ (request[c].path = "guarded" => HandlerCount(c) > 0)
  BY DEF HandlerCount
<1>11. CASE BackendAnswers(c)
  <2>1. HandlerCount(c) \in 0 .. 2
    OBVIOUS
  <2>2. QED
    BY <1>10, <1>11, <2>1 DEF BackendAnswers
<1>12. CASE BackendFails(c)
  <2>1. /\ 1 + HandlerCount(c) \in 0 .. 2
        /\ 1 + HandlerCount(c) > 0
    OBVIOUS
  <2>2. QED
    BY <1>10, <1>12, <2>1 DEF BackendFails
<1>13. CASE BackendBreaksOff(c)
  <2>1. counted[c] \in 0 .. 2 /\ counted' = [counted EXCEPT ![c] = counted[c]]
    BY <1>13 DEF BackendBreaksOff, ProxyOK
  <2>2. QED
    BY <1>10, <1>13, <2>1 DEF BackendBreaksOff
<1>14. QED
  BY <1>1, <1>2, <1>3, <1>4, <1>5, <1>7, <1>8, <1>9, <1>11, <1>12, <1>13 DEF Handle

(* While a goroutine is in Get, or the environment moves, no goroutine     *)
(* enters or leaves Verify.                                                *)
LEMMA GetOK ==
  ASSUME RPInv, (\E c \in Callers : Get(c)) \/ Environment,
         UNCHANGED <<token, verdict, proxyVars, remoteVars>>
  PROVE  ProxyOK'
<1>1. \A c \in Callers : gpc'[c] # "out" <=> gpc[c] # "out"
  <2>1. ASSUME NEW d \in Callers, Get(d)
        PROVE  \A c \in Callers : gpc'[c] # "out" <=> gpc[c] # "out"
    BY <2>1 DEF Get, Read, Acquire, FetchEnds, FetchOK, FetchFails, ClientFails,
                RPInv, TypeOK, JWKSTypeOK
  <2>2. CASE Environment
    BY <2>2 DEF Environment, Answer, Clear, Rotate, Tick
  <2>3. QED
    BY <2>1, <2>2
<1>2. QED
  BY <1>1 DEF RPInv, ProxyOK, AnsweredAreCounted, AnswersOwnQuery, ActiveIsNotDead,
              R!RemoteTypeOK, proxyVars, remoteVars

(* Whatever the authority does, its answers stay those to this request:    *)
(* a token that is revoked in between was not so before.                   *)
LEMMA AuthorityOK ==
  ASSUME RPInv, R!RemoteEnvironment, UNCHANGED <<vars, proxyVars>>
  PROVE  ProxyOK'
<1> USE DEF RPInv, ProxyOK, AnsweredAreCounted, AnswersOwnQuery, ActiveIsNotDead,
            R!RemoteTypeOK, proxyVars, vars
<1>1. ASSUME NEW c \in Callers, R!Reply(c) PROVE ProxyOK'
  BY <1>1 DEF R!Reply
<1>2. CASE R!Revoke
  BY <1>2 DEF R!Revoke
<1>3. QED
  BY <1>1, <1>2 DEF R!RemoteEnvironment

(* Every step of the proxy keeps the invariant.                            *)
LEMMA StepRPInv == RPInv /\ [RPNext]_rpVars => RPInv'
<1> SUFFICES ASSUME RPInv, [RPNext]_rpVars PROVE RPInv'
  OBVIOUS
<1>1. TypeOK'
  BY StepOfVerifier, StepTypeOK DEF RPInv
<1>2. CASE UNCHANGED rpVars
  BY <1>1, <1>2 DEF RPInv, ProxyOK, AnsweredAreCounted, AnswersOwnQuery,
     ActiveIsNotDead, R!RemoteTypeOK, rpVars, vars, proxyVars, remoteVars
<1>3. CASE RPNext
  BY <1>1, <1>3, HandleOK, GetOK, AuthorityOK DEF RPNext, RPInv
<1>4. QED
  BY <1>2, <1>3

(* The invariant holds in every state.                                     *)
LEMMA RPInvHolds == RPSpec => []RPInv
<1>1. RPInit => RPInv
  <2> SUFFICES ASSUME RPInit PROVE RPInv
    OBVIOUS
  <2>1. TypeOK
    BY JWKSAssumption DEF RPInit, Init, JWKSInit, TypeOK, JWKSTypeOK, Sets
  <2>2. ProxyOK
    BY ReverseProxyAssumption
       DEF RPInit, Init, JWKSInit, ProxyOK, AnsweredAreCounted, AnswersOwnQuery,
           ActiveIsNotDead, R!RemoteInit, R!RemoteTypeOK
  <2>3. QED
    BY <2>1, <2>2 DEF RPInv
<1>2. QED
  BY <1>1, StepRPInv, PTL DEF RPSpec

-----------------------------------------------------------------------------
(* The reverse proxy and the verifier inside it keep their types.          *)
THEOREM RPTypeCorrect == RPSpec => []RPTypeOK
<1>1. RPInv => RPTypeOK
  BY DEF RPInv, ProxyOK, RPTypeOK
<1>2. QED
  BY <1>1, RPInvHolds, PTL

(* Without a client of its own Get never returns a nil set as if it were   *)
(* one, for any number of goroutines that fetch, fail and clear the cache  *)
(* (jwks_cache.go:41-90).                                                  *)
THEOREM ReturnsKeysOrError ==
  ASSUME ~CustomClient
  PROVE  RPSpec => []GetReturnsKeysOrError
<1>1. RPInit => GetReturnsKeysOrError
  BY DEF RPInit, Init, JWKSInit, GetReturnsKeysOrError
<1>2. RPInv /\ GetReturnsKeysOrError /\ [RPNext]_rpVars => GetReturnsKeysOrError'
  <2> SUFFICES ASSUME TypeOK, GetReturnsKeysOrError, [Next]_vars
               PROVE  GetReturnsKeysOrError'
    BY StepOfVerifier DEF RPInv
  <2> USE DEF TypeOK, JWKSTypeOK, GetReturnsKeysOrError
  <2>1. ASSUME NEW c \in Callers, Begin(c) \/ Decide(c) PROVE GetReturnsKeysOrError'
    BY <2>1 DEF Begin, Call, Decide, Return
  <2>2. ASSUME NEW c \in Callers, Read(c) \/ Acquire(c) PROVE GetReturnsKeysOrError'
    BY <2>2 DEF Read, Acquire, Fresh
  <2>3. ASSUME NEW c \in Callers, FetchEnds(c) PROVE GetReturnsKeysOrError'
    BY <2>3 DEF FetchEnds, FetchOK, FetchFails, ClientFails
  <2>4. CASE Environment
    BY <2>4 DEF Environment, Answer, Clear, Rotate, Tick
  <2>5. CASE UNCHANGED vars
    BY <2>5 DEF vars, jwksVars
  <2>6. QED
    BY <2>1, <2>2, <2>3, <2>4, <2>5 DEF Next, Get
<1>3. QED
  BY <1>1, <1>2, RPInvHolds, PTL DEF RPSpec

(* No answer to a guarded request escapes requests_total.                  *)
THEOREM CountsAnswered == RPSpec => []AnsweredAreCounted
<1>1. RPInv => AnsweredAreCounted
  BY DEF RPInv, ProxyOK
<1>2. QED
  BY <1>1, RPInvHolds, PTL

(* A step in which a guarded request is sent on lets it through.           *)
LEMMA ForwardsByVerdict ==
  ASSUME RPInv, RPNext, NEW c \in Callers, ForwardsGuarded(c)
  PROVE  LetThrough(c)
<1> USE DEF ForwardsGuarded, Forwards
<1>1. PICK d \in Callers : Handle(d)
  BY DEF RPNext, proxyVars
<1>2. d = c
  BY <1>1 DEF Handle, ServeHealth, PassPublic, PassPreflight,
     RejectBare, Authenticate, Arrive, LetThrough, TurnAway, VerifyPanics,
     BackendAnswers, BackendFails, BackendBreaksOff, RPInv, ProxyOK
<1>3. ~ServeHealth(c) /\ ~RejectBare(c) /\ ~Authenticate(c)
  BY DEF ServeHealth, RejectBare, Authenticate, Arrive, RPInv, ProxyOK
<1>4. ~PassPublic(c) /\ ~PassPreflight(c)
  BY DEF PassPublic, PassPreflight, Arrive, RPInv, ProxyOK
<1>5. ~BackendAnswers(c) /\ ~BackendFails(c) /\ ~BackendBreaksOff(c)
  BY DEF BackendAnswers, BackendFails, BackendBreaksOff
<1>6. ~TurnAway(c) /\ ~VerifyPanics(c)
  BY DEF TurnAway, VerifyPanics, RPInv, ProxyOK
<1>7. QED
  BY <1>1, <1>2, <1>3, <1>4, <1>5, <1>6 DEF Handle

(* A guarded request that is no preflight reaches the backend only with a  *)
(* token signed by a key of the issuer, not expired, with all its claims;  *)
(* and if the keys are fetched with a timeout, by a key that is in use or  *)
(* was so less than cacheTtl and that timeout ago, however requests, key   *)
(* fetches and key rotations interleave.                                   *)
THEOREM ForwardsOnlyVerified == RPSpec => OnlyVerifiedForwarded
<1> DEFINE KeysOK == CustomClient => IInv
<1>1. ASSUME RPInv, KeysOK, RPNext,
             NEW c \in Callers, ForwardsGuarded(c), mode = "jwt"
      PROVE  /\ token[c].signer \in Kids /\ now < token[c].exp /\ ClaimsOK(token[c])
             /\ CustomClient => SignerIsCurrent(c)
  <2>1. Decide(c) /\ verdict'[c] = "accepted"
    BY <1>1, ForwardsByVerdict DEF LetThrough, Verifies
  <2>2. Verdict(token[c], got[c]) = "accepted"
    BY <1>1, <2>1 DEF Decide, RPInv, TypeOK
  <2>3. got[c] \in Sets
    BY <1>1 DEF RPInv, TypeOK, JWKSTypeOK
  <2>4. CustomClient => SignerIsCurrent(c)
    BY <1>1, <2>1, AcceptingIsCurrent
  <2>5. QED
    BY <2>2, <2>3, <2>4, JWKSAssumption DEF Verdict, Sets
<1>2. RPInv /\ KeysOK /\ [RPNext]_rpVars =>
        [\A c \in Callers :
           (ForwardsGuarded(c) /\ mode = "jwt") =>
             LET t == token[c] IN
             /\ t.signer \in Kids /\ now < t.exp /\ ClaimsOK(t)
             /\ CustomClient =>
                  \/ t.signer \in published
                  \/ now < retiredAt[t.signer] + TTL + FetchTimeout]_rpVars
  BY <1>1 DEF SignerIsCurrent
<1>3. RPSpec => []KeysOK
  <2>1. CASE CustomClient
    BY <2>1, VerifierInTime, PTL
  <2>2. CASE ~CustomClient
    <3>1. KeysOK
      BY <2>2
    <3>2. QED
      BY <3>1, PTL
  <2>3. QED
    BY <2>1, <2>2
<1>4. QED
  BY <1>2, <1>3, RPInvHolds, PTL DEF RPSpec, OnlyVerifiedForwarded

(* With a remote verifier a token that had been revoked when the request   *)
(* came never takes it to the backend.                                     *)
THEOREM TurnsRevokedAway == RPSpec => RevokedIsTurnedAway
<1>1. ASSUME RPInv, RPNext, NEW c \in Callers, ForwardsGuarded(c), mode = "remote"
      PROVE  ~dead[c]
  <2>1. R!Accept(c)
    BY <1>1, ForwardsByVerdict DEF LetThrough, Verifies
  <2>2. QED
    BY <1>1, <2>1 DEF R!Accept, RPInv, ProxyOK, AnswersOwnQuery
<1>2. RPInv /\ [RPNext]_rpVars =>
        [\A c \in Callers : (ForwardsGuarded(c) /\ mode = "remote") => ~dead[c]]_rpVars
  BY <1>1
<1>3. QED
  BY <1>2, RPInvHolds, PTL DEF RPSpec, RevokedIsTurnedAway
=============================================================================
