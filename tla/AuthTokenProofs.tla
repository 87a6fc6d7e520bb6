---------------------------- MODULE AuthTokenProofs ----------------------------
(***************************************************************************)
(* How old a client token getK8sToken returns can be, and that a cached    *)
(* SVID is returned only while it is valid: for any number of goroutines,  *)
(* any period, any delay between read and store, any history of the file,  *)
(* and SVIDs of any lifetime.                                              *)
(*                                                                         *)
(* First ClientToken by itself, then the composition, whose steps are      *)
(* those of ClientToken, or leave it alone.                                *)
(***************************************************************************)
EXTENDS AuthToken, TLAPS

\* What a goroutine is about to store was in the file when it read it.
HeldWasCurrent ==
  \A r \in Requests :
    pc[r] = "store" =>
      /\ readAt[r] <= now /\ now <= readAt[r] + ReadTime
      /\ held[r] = current \/ readAt[r] <= endedAt[held[r]]

\* What is cached was in the file at most ReadTime before it was stored.
CachedWasCurrent ==
  cached # NoToken =>
    /\ storedAt <= now
    /\ cached = current \/ storedAt <= endedAt[cached] + ReadTime

\* A goroutine that has not read the file holds nothing.
HoldsNothing ==
  \A r \in Requests : pc[r] \in {"check", "read"} => held[r] = NoToken

IInv == TypeOK /\ HoldsNothing /\ HeldWasCurrent /\ CachedWasCurrent

-----------------------------------------------------------------------------
(* The invariant holds before the first call.                              *)
LEMMA InitIInv == Init => IInv
  BY ClientTokenAssumption
     DEF Init, IInv, TypeOK, HoldsNothing, HeldWasCurrent, CachedWasCurrent, Versions

(* Every step keeps it; a late store of an old token does too.             *)
LEMMA StepIInv == IInv /\ [Next]_vars => IInv'
<1> SUFFICES ASSUME IInv, [Next]_vars PROVE IInv'
  OBVIOUS
<1> USE ClientTokenAssumption DEF IInv, Versions
<1>1. ASSUME NEW r \in Requests, Call(r) PROVE IInv'
  BY <1>1 DEF Call, TypeOK, HoldsNothing, HeldWasCurrent, CachedWasCurrent
<1>2. ASSUME NEW r \in Requests, Check(r) PROVE IInv'
  BY <1>2 DEF Check, TypeOK, HoldsNothing, HeldWasCurrent, CachedWasCurrent
<1>3. ASSUME NEW r \in Requests, ReadFile(r) PROVE IInv'
  <2>1. CASE current = NoToken
    BY <1>3, <2>1 DEF ReadFile, TypeOK, HoldsNothing, HeldWasCurrent, CachedWasCurrent
  <2>2. CASE current # NoToken
    <3>1. /\ current \in Versions
          /\ held' = [held EXCEPT ![r] = current]
          /\ readAt' = [readAt EXCEPT ![r] = now]
          /\ pc' = [pc EXCEPT ![r] = "store"]
          /\ UNCHANGED <<now, current, newest, endedAt, cached, storedAt>>
      BY <1>3, <2>2 DEF ReadFile, TypeOK
    <3>2. TypeOK'
      BY <3>1 DEF TypeOK
    <3>3. HoldsNothing' /\ HeldWasCurrent' /\ CachedWasCurrent'
      BY <3>1 DEF TypeOK, HoldsNothing, HeldWasCurrent, CachedWasCurrent
    <3>4. QED
      BY <3>2, <3>3
  <2>3. QED
    BY <2>1, <2>2
<1>4. ASSUME NEW r \in Requests, Store(r) PROVE IInv'
  <2>1. /\ pc[r] = "store" /\ held[r] \in Versions
        /\ cached' = held[r] /\ storedAt' = now
        /\ readAt' = [readAt EXCEPT ![r] = 0] /\ pc' = [pc EXCEPT ![r] = "done"]
        /\ UNCHANGED <<now, current, newest, endedAt, held>>
    BY <1>4 DEF Store, TypeOK
  <2>2. TypeOK' /\ HoldsNothing' /\ HeldWasCurrent'
    BY <2>1 DEF TypeOK, HoldsNothing, HeldWasCurrent
  <2>3. CachedWasCurrent'
    BY <2>1 DEF TypeOK, HoldsNothing, HeldWasCurrent, CachedWasCurrent
  <2>4. QED
    BY <2>2, <2>3
<1>5. CASE Rotate
  <2>1. TypeOK'
    BY <1>5 DEF Rotate, TypeOK
  <2>2. /\ UNCHANGED <<now, cached, storedAt, pc, held, readAt>>
        /\ \A v \in Versions :
             IF v = current THEN endedAt'[v] = now ELSE endedAt'[v] = endedAt[v]
    BY <1>5 DEF Rotate, TypeOK
  <2>3. HoldsNothing' /\ HeldWasCurrent'
    BY <2>2 DEF TypeOK, HoldsNothing, HeldWasCurrent
  <2>4. CachedWasCurrent'
    BY <2>2 DEF TypeOK, CachedWasCurrent
  <2>5. QED
    BY <2>1, <2>3, <2>4
<1>6. CASE TakeAway
  <2>1. TypeOK'
    BY <1>6 DEF TakeAway, TypeOK
  <2>2. /\ UNCHANGED <<now, cached, storedAt, pc, held, readAt>>
        /\ \A v \in Versions :
             IF v = current THEN endedAt'[v] = now ELSE endedAt'[v] = endedAt[v]
    BY <1>6 DEF TakeAway, TypeOK
  <2>3. HoldsNothing' /\ HeldWasCurrent'
    BY <2>2 DEF TypeOK, HoldsNothing, HeldWasCurrent
  <2>4. CachedWasCurrent'
    BY <2>2 DEF TypeOK, CachedWasCurrent
  <2>5. QED
    BY <2>1, <2>3, <2>4
<1>7. CASE Tick
  BY <1>7 DEF Tick, TypeOK, HoldsNothing, HeldWasCurrent, CachedWasCurrent
<1>8. CASE UNCHANGED vars
  BY <1>8 DEF vars, TypeOK, HoldsNothing, HeldWasCurrent, CachedWasCurrent
<1>9. QED
  BY <1>1, <1>2, <1>3, <1>4, <1>5, <1>6, <1>7, <1>8 DEF Next, getK8sToken

(* A token that a step of getK8sToken returns is recent.                   *)
LEMMA StepReturnsRecent ==
  ASSUME IInv, [Next]_vars, NEW r \in Requests, Returns(r)
  PROVE  held'[r] = current \/ now < endedAt[held'[r]] + Period + ReadTime
<1> USE ClientTokenAssumption DEF IInv, Versions
<1>1. ASSUME NEW q \in Requests, Check(q)
      PROVE  held'[r] = current \/ now < endedAt[held'[r]] + Period + ReadTime
  <2>1. q = r /\ cached # NoToken /\ now - storedAt < Period /\ held'[r] = cached
    BY <1>1 DEF Check, Returns, TypeOK
  <2>2. cached \in Versions /\ endedAt[cached] \in Nat /\ storedAt \in Nat /\ now \in Nat
    BY <2>1 DEF TypeOK
  <2>3. QED
    BY <2>1, <2>2 DEF CachedWasCurrent
<1>2. ASSUME NEW q \in Requests, Store(q)
      PROVE  held'[r] = current \/ now < endedAt[held'[r]] + Period + ReadTime
  <2>1. q = r /\ pc[r] = "store" /\ held'[r] = held[r] /\ held[r] \in Versions
    BY <1>2 DEF Store, Returns, TypeOK
  <2>2. endedAt[held[r]] \in Nat /\ readAt[r] \in Nat /\ now \in Nat
    BY <2>1 DEF TypeOK
  <2>3. QED
    BY <2>1, <2>2 DEF HeldWasCurrent
<1>3. ASSUME NEW q \in Requests, ReadFile(q) PROVE held'[r] = current
  BY <1>3 DEF ReadFile, Returns, TypeOK, HoldsNothing
<1>4. ASSUME NEW q \in Requests, Call(q) PROVE FALSE
  BY <1>4 DEF Call, Returns, TypeOK
<1>5. QED
  BY <1>1, <1>2, <1>3, <1>4
     DEF Next, getK8sToken, Rotate, TakeAway, Tick, Returns, vars

-----------------------------------------------------------------------------
\* A cached SVID is refreshed before it expires, or is not used any more.
RefreshInTime ==
  cachedJWT # NoToken => cacheExpiry <= cachedJWT \/ cacheExpiry <= now

ATInv == IInv /\ ATTypeOK /\ RefreshInTime

(* RefreshTime is never later than both the expiry and the present.        *)
LEMMA RefreshTimeBounded ==
  ASSUME now \in Nat, NEW e \in Int
  PROVE  /\ S!RefreshTime(e) \in Int
         /\ S!RefreshTime(e) <= e \/ S!RefreshTime(e) <= now
<1>1. ASSUME NEW a \in Nat, NEW b \in Nat, b > 0
      PROVE  a \div b \in Nat /\ a \div b <= a
  BY <1>1
<1>2. BufferPart \in Nat /\ BufferPart > 0
  BY SVIDAssumption
<1>3. CASE e >= now
  <2>1. e - now \in Nat
    BY <1>3
  <2>2. (e - now) \div BufferPart \in Nat
    BY <1>1, <1>2, <2>1
  <2>3. QED
    BY <1>3, <2>2 DEF S!RefreshTime
<1>4. CASE ~(e >= now)
  <2>1. now - e \in Nat
    BY <1>4
  <2>2. (now - e) \div BufferPart \in Nat /\ (now - e) \div BufferPart <= now - e
    BY <1>1, <1>2, <2>1
  <2>3. QED
    BY <1>4, <2>2 DEF S!RefreshTime
<1>5. QED
  BY <1>3, <1>4

(* The invariant of the composition holds at the start.                    *)
LEMMA InitATInv == ATInit => ATInv
  BY InitIInv, SVIDAssumption
     DEF ATInit, ATInv, ATTypeOK, IInv, RefreshInTime, S!SVIDInit, S!SVIDTypeOK

(* Every step of the composition is one of ClientToken, or leaves it.      *)
LEMMA StepOfClientToken == [ATNext]_atVars => [Next]_vars
  BY DEF ATNext, FromFile, FromAgent, FileStep, AgentStep, atVars, fileVars, Next, vars,
         S!CallSVID, S!FetchJWTSVID, S!Lock, S!FetchSucceeds, S!SVIDFetchFails, S!GoAway

(* A call of FetchJWTSVID, the mutex included, keeps the cached SVID fit.  *)
LEMMA AgentStepKeeps ==
  ASSUME ATInv, AgentStep
  PROVE  S!SVIDTypeOK' /\ RefreshInTime'
<1> USE SVIDAssumption DEF ATInv, ATTypeOK
<1>1. now \in Nat
  BY DEF TypeOK
<1>2. ASSUME NEW r \in Requests, S!CallSVID(r) PROVE S!SVIDTypeOK' /\ RefreshInTime'
  BY <1>2 DEF S!CallSVID, S!SVIDTypeOK, RefreshInTime
<1>3. ASSUME NEW r \in Requests, S!Lock(r) PROVE S!SVIDTypeOK' /\ RefreshInTime'
  BY <1>3 DEF S!Lock, S!SVIDTypeOK, RefreshInTime
<1>4. ASSUME NEW r \in Requests, S!FetchSucceeds(r) PROVE S!SVIDTypeOK' /\ RefreshInTime'
  <2>1. PICK left \in Lifetimes :
          /\ svid' = [svid EXCEPT ![r] = now + left]
          /\ cachedJWT' = now + left
          /\ cacheExpiry' = S!RefreshTime(now + left)
    BY <1>4 DEF S!FetchSucceeds
  <2>2. now + left \in Int
    BY <1>1
  <2>3. cacheExpiry' \in Int /\ (cacheExpiry' <= cachedJWT' \/ cacheExpiry' <= now)
    BY <1>1, <2>1, <2>2, RefreshTimeBounded
  <2>4. now' = now /\ mu' = NoToken /\ jpc[r] = "fetch"
        /\ jpc' = [jpc EXCEPT ![r] = "done"] /\ gone' = gone
    BY <1>4 DEF S!FetchSucceeds
  <2>5. RefreshInTime'
    BY <2>3, <2>4 DEF RefreshInTime
  <2>6. S!SVIDTypeOK'
    BY <2>1, <2>2, <2>3, <2>4 DEF S!SVIDTypeOK
  <2>7. QED
    BY <2>5, <2>6
<1>5. ASSUME NEW r \in Requests, S!SVIDFetchFails(r) PROVE S!SVIDTypeOK' /\ RefreshInTime'
  BY <1>5 DEF S!SVIDFetchFails, S!SVIDTypeOK, RefreshInTime
<1>6. ASSUME NEW r \in Requests, S!GoAway(r) PROVE S!SVIDTypeOK' /\ RefreshInTime'
  BY <1>6 DEF S!GoAway, S!SVIDTypeOK, RefreshInTime
<1>7. QED
  BY <1>2, <1>3, <1>4, <1>5, <1>6 DEF AgentStep, S!FetchJWTSVID

(* Every step of the composition keeps its invariant.                      *)
LEMMA StepATInv == ATInv /\ [ATNext]_atVars => ATInv'
<1> SUFFICES ASSUME ATInv, [ATNext]_atVars PROVE ATInv'
  OBVIOUS
<1>1. IInv'
  BY StepOfClientToken, StepIInv DEF ATInv
<1>2. now \in Nat /\ source \in {"file", "spiffe"}
  BY DEF ATInv, ATTypeOK, TypeOK
<1>3. source' = source
  BY DEF ATNext, FromFile, FromAgent, atVars
<1>4. S!SVIDTypeOK' /\ RefreshInTime'
  <2>1. CASE FromAgent(AgentStep)
    BY <2>1, AgentStepKeeps DEF FromAgent
  <2>2. CASE FromFile(FileStep)
    <3>1. UNCHANGED svidVars /\ now' = now
      BY <2>2 DEF FromFile, FileStep, Call, getK8sToken, Check, ReadFile, Store, Rotate, TakeAway
    <3>2. QED
      BY <3>1 DEF svidVars, ATInv, ATTypeOK, S!SVIDTypeOK, RefreshInTime
  <2>3. CASE Tick /\ UNCHANGED <<svidVars, source>>
    BY <1>2, <2>3, SVIDAssumption
       DEF Tick, svidVars, ATInv, ATTypeOK, S!SVIDTypeOK, RefreshInTime
  <2>4. CASE UNCHANGED atVars
    BY <2>4 DEF atVars, svidVars, ATInv, ATTypeOK, S!SVIDTypeOK, RefreshInTime
  <2>5. QED
    BY <2>1, <2>2, <2>3, <2>4 DEF ATNext
<1>5. QED
  BY <1>1, <1>2, <1>3, <1>4 DEF ATInv, ATTypeOK, IInv

(* The state of getAuthToken keeps its types; the mutex is held by the     *)
(* goroutine that fetches, and by no other.                                *)
THEOREM TypeCorrect == ATSpec => []ATTypeOK
<1>1. ATInv => ATTypeOK
  BY DEF ATInv
<1>2. QED
  BY <1>1, InitATInv, StepATInv, PTL DEF ATSpec

(* No race between readers and late stores makes getK8sToken return a      *)
(* token that left the file Period + ReadTime ago or earlier.              *)
THEOREM ReturnsRecentToken == ATSpec => ReturnedTokenIsRecent
<1>1. ATInv /\ [ATNext]_atVars =>
        [\A r \in Requests :
           Returns(r) => \/ held'[r] = current
                         \/ now < endedAt[held'[r]] + Period + ReadTime]_vars
  BY StepOfClientToken, StepReturnsRecent DEF ATInv
<1>2. QED
  BY <1>1, InitATInv, StepATInv, PTL DEF ATSpec, ReturnedTokenIsRecent

(* A cached SVID is never returned at or after its expiry, whatever its    *)
(* lifetime was when it came.                                              *)
THEOREM ReturnsValidSVID == ATSpec => CachedSVIDIsValid
<1>1. ASSUME ATInv, AgentStep, NEW r \in Requests, S!ReturnsCached(r)
      PROVE  now < svid'[r]
  <2>1. PICK q \in Requests : S!CallSVID(q) \/ S!FetchJWTSVID(q) \/ S!GoAway(q)
    BY <1>1 DEF AgentStep
  <2>2. /\ now \in Nat /\ cacheExpiry \in Int /\ cachedJWT \in {NoToken} \union Int
        /\ jpc \in [Requests -> {"idle", "lock", "fetch", "done"}]
        /\ svid \in [Requests -> {NoToken} \union Int]
    BY <1>1 DEF ATInv, ATTypeOK, TypeOK, S!SVIDTypeOK
  <2>3. q = r /\ cachedJWT # NoToken /\ now < cacheExpiry /\ svid'[r] = cachedJWT
    BY <1>1, <2>1, <2>2
       DEF S!ReturnsCached, S!CallSVID, S!FetchJWTSVID, S!Lock, S!FetchSucceeds,
           S!SVIDFetchFails, S!GoAway
  <2>4. QED
    BY <1>1, <2>2, <2>3 DEF ATInv, RefreshInTime
<1>2. ATInv /\ [ATNext]_atVars =>
        [\A r \in Requests : S!ReturnsCached(r) => now < svid'[r]]_<<now, svidVars>>
  <2> SUFFICES ASSUME ATInv, [ATNext]_atVars, ~UNCHANGED <<now, svidVars>>,
                      NEW r \in Requests, S!ReturnsCached(r)
               PROVE  now < svid'[r]
    BY DEF svidVars
  <2>1. jpc' # jpc
    BY DEF S!ReturnsCached
  <2>2. AgentStep
    BY <2>1 DEF ATNext, FromFile, FromAgent, atVars, svidVars
  <2>3. QED
    BY <1>1, <2>2
<1>3. QED
  BY <1>2, InitATInv, StepATInv, PTL DEF ATSpec, CachedSVIDIsValid, S!CachedSVIDIsValid, S!svidVars, svidVars
=============================================================================
