-------------------------- MODULE VaultInjectorProofs --------------------------
(***************************************************************************)
(* Every step of the Vault injector is one of the OAuth injector with a    *)
(* single subject, or none; so what is proved about the age of exchanged   *)
(* tokens holds of the secrets of Vault, for any leases and any login.     *)
(***************************************************************************)
EXTENDS VaultInjector, TLAPS

\* What is proved about the OAuth injector, under the mapping of VaultInjector.
Proved == INSTANCE OAuthInjectorProofs WITH
  Subjects <- {Path}, Keys <- {Path}, CacheKey <- [s \in {Path} |-> Path],
  Lifetimes <- Leases, HttpTimeout <- VaultTimeout,
  NoSubject <- NoSecret, NoToken <- NoSecret,
  subject <- AsSubject, pc <- AsPhase, cache <- AsCache,
  answer <- AsAnswer, header <- AsHeader

(* The constants are what the theorems assume.                             *)
LEMMA MappedConstants == Proved!DurationAssumption /\ Proved!OAuthAssumption
<1>1. Proved!DurationAssumption
  BY DurationAssumption DEF Proved!DurationAssumption
<1>2. OAuth!ExchangedToken = Proved!ExchangedToken
  BY DEF OAuth!ExchangedToken, Proved!ExchangedToken
<1>3. OAuth!Cache!Entry = Proved!Cache!Entry
  BY <1>2 DEF OAuth!Cache!Entry, Proved!Cache!Entry
<1>4. Proved!OAuthAssumption
  BY <1>2, <1>3, VaultAssumption, MappingAssumption DEF Proved!OAuthAssumption
<1>5. QED
  BY <1>1, <1>4

(* The deadline of a secret is an instant.                                 *)
LEMMA DeadlineOfSecret ==
  ASSUME TypeOK, NEW lease \in Leases
  PROVE  now + EffectiveTTL(CacheTTL, lease) \in Int
<1>1. Proved!DurationAssumption /\ Proved!OAuthAssumption
  BY MappedConstants
<1>2. lease \in Int /\ CacheTTL \in Int
  BY VaultAssumption, DurationAssumption
<1>3. Proved!EffectiveTTL(CacheTTL, lease) \in Int
  BY <1>1, <1>2, Proved!EffectiveTTLBounded
<1>4. EffectiveTTL(CacheTTL, lease) \in Int
  BY <1>3 DEF EffectiveTTL, Wrap, Proved!EffectiveTTL, Proved!Wrap
<1>5. now \in Int
  BY DEF TypeOK
<1>6. QED
  BY <1>4, <1>5

(* Every step keeps the types.                                             *)
LEMMA StepTypeOK == TypeOK /\ [Next]_vars => TypeOK'
<1> SUFFICES ASSUME TypeOK, [Next]_vars PROVE TypeOK'
  OBVIOUS
<1> USE VaultAssumption DEF TypeOK
<1>1. CASE authenticate \/ AuthenticateFails
  BY <1>1 DEF authenticate, AuthenticateFails
<1>2. ASSUME NEW r \in Requests, Arrive(r) PROVE TypeOK'
  BY <1>2 DEF Arrive
<1>3. ASSUME NEW r \in Requests, LookupHit(r) PROVE TypeOK'
  BY <1>3 DEF LookupHit, Cache!Hit, Cache!Entry
<1>4. ASSUME NEW r \in Requests, LookupMiss(r) \/ SendRead(r) \/ Fail(r) PROVE TypeOK'
  BY <1>4 DEF LookupMiss, SendRead, Fail
<1>5. ASSUME NEW r \in Requests, AnswerRead(r) PROVE TypeOK'
  <2>1. PICK lease \in Leases :
          answer' = [answer EXCEPT ![r] = [issued |-> now, lease |-> lease]]
    BY <1>5 DEF AnswerRead
  <2>2. [issued |-> now, lease |-> lease] \in Secret
    BY DEF Secret
  <2>3. QED
    BY <1>5, <2>1, <2>2 DEF AnswerRead
<1>6. ASSUME NEW r \in Requests, StoreAndInject(r) PROVE TypeOK'
  <2>1. answer[r] \in Secret /\ answer[r].lease \in Leases
    BY <1>6 DEF StoreAndInject, Secret
  <2>2. now + EffectiveTTL(CacheTTL, answer[r].lease) \in Int
    BY <2>1, DeadlineOfSecret
  <2>3. cache' \in [{Path} -> Cache!Entry \union {NoEntry}]
    BY <1>6, <2>1, <2>2 DEF StoreAndInject, Cache!Put, Cache!Entry
  <2>4. QED
    BY <1>6, <2>1, <2>3 DEF StoreAndInject
<1>7. CASE CleanupCache \/ Close
  BY <1>7 DEF CleanupCache, Close, Cache!Purge, Cache!EmptyCache
<1>8. CASE Tick
  BY <1>8 DEF Tick
<1>9. CASE UNCHANGED vars
  BY <1>9 DEF vars
<1>10. QED
  BY <1>1, <1>2, <1>3, <1>4, <1>5, <1>6, <1>7, <1>8, <1>9 DEF Next, Inject

(* The Vault injector keeps its types: nothing is served before the login  *)
(* (vault_injector.go:17-59, 120-168).                                     *)
THEOREM TypeCorrect == Spec => []TypeOK
<1>1. Init => TypeOK
  BY VaultAssumption DEF Init, TypeOK, Cache!EmptyCache
<1>2. QED
  BY <1>1, StepTypeOK, PTL DEF Spec

-----------------------------------------------------------------------------
\* The phase of the OAuth injector that stands for p.
PhaseOf(p) == CASE p = "missed" -> "auth" [] p = "read" -> "exchange" [] OTHER -> p

(* How the mapped state follows when one goroutine moves.                  *)
LEMMA MappedGoroutine ==
  ASSUME TypeOK, NEW r \in Requests, NEW p, pc' = [pc EXCEPT ![r] = p]
  PROVE  /\ AsPhase' = [AsPhase EXCEPT ![r] = PhaseOf(p)]
         /\ AsSubject' = [AsSubject EXCEPT ![r] = IF p = "idle" THEN NoSecret ELSE Path]
         /\ (pc[r] # "idle" /\ p # "idle") => AsSubject' = AsSubject
BY DEF TypeOK, AsPhase, AsSubject, PhaseOf

LEMMA MappedHeader ==
  ASSUME TypeOK, NEW r \in Requests, NEW s, header' = [header EXCEPT ![r] = s]
  PROVE  AsHeader' = [AsHeader EXCEPT ![r] = AsToken(s)]
BY DEF TypeOK, AsHeader, AsToken

LEMMA MappedAnswer ==
  ASSUME TypeOK, NEW r \in Requests, NEW s, answer' = [answer EXCEPT ![r] = s]
  PROVE  AsAnswer' = [AsAnswer EXCEPT ![r] = AsToken(s)]
BY DEF TypeOK, AsAnswer, AsToken

(* What a lookup finds, and what a round of the cleanup leaves.            *)
LEMMA MappedCache ==
  ASSUME TypeOK
  PROVE  /\ OAuth!Cache!Hit(AsCache, Path, now) <=> Cache!Hit(cache, Path, now)
         /\ cache[Path] # NoEntry => AsCache[Path].token = AsToken(cache[Path].token)
         /\ cache[Path] # NoEntry => AsCache[Path] # NoEntry
<1>1. ASSUME cache[Path] # NoEntry
      PROVE  /\ AsCache[Path] # NoEntry
             /\ AsCache[Path].token = AsToken(cache[Path].token)
             /\ AsCache[Path].expiresAt = cache[Path].expiresAt
  <2>1. cache[Path] \in Cache!Entry
    BY <1>1 DEF TypeOK
  <2>2. cache[Path].token \in Secret /\ cache[Path].expiresAt \in Int
    BY <2>1 DEF Cache!Entry
  <2>3. AsToken(cache[Path].token) \in OAuth!ExchangedToken
    BY <2>2, VaultAssumption DEF AsToken, Secret, OAuth!ExchangedToken
  <2>4. /\ AsCache[Path] = [token |-> AsToken(cache[Path].token),
                            expiresAt |-> cache[Path].expiresAt]
        /\ AsCache[Path] \in OAuth!Cache!Entry
    BY <1>1, <2>2, <2>3 DEF AsCache, OAuth!Cache!Entry
  <2>5. QED
    BY <2>4, MappingAssumption
<1>2. cache[Path] = NoEntry => AsCache[Path] = NoEntry
  BY DEF AsCache
<1>3. QED
  BY <1>1, <1>2 DEF OAuth!Cache!Hit, OAuth!Cache!Expired, Cache!Hit, Cache!Expired

(* Every step is a step of the OAuth injector under the mapping.           *)
LEMMA StepOfOAuth == TypeOK /\ [Next]_vars => [OAuth!Next]_OAuth!vars
<1> SUFFICES ASSUME TypeOK, [Next]_vars PROVE [OAuth!Next]_OAuth!vars
  OBVIOUS
<1> USE VaultAssumption, MappingAssumption
<1>1. ASSUME UNCHANGED <<now, cache, pc, sentAt, answer, header>>
      PROVE  UNCHANGED OAuth!vars
  BY <1>1 DEF OAuth!vars, AsCache, AsPhase, AsSubject, AsAnswer, AsHeader, AsToken
<1>2. ASSUME UNCHANGED cache PROVE AsCache' = AsCache
  BY <1>2 DEF AsCache, AsToken
<1>3. ASSUME UNCHANGED pc PROVE AsPhase' = AsPhase /\ AsSubject' = AsSubject
  BY <1>3 DEF AsPhase, AsSubject
<1>4. ASSUME UNCHANGED answer PROVE AsAnswer' = AsAnswer
  BY <1>4 DEF AsAnswer, AsToken
<1>5. ASSUME UNCHANGED header PROVE AsHeader' = AsHeader
  BY <1>5 DEF AsHeader, AsToken
<1>6. ASSUME NEW r \in Requests
      PROVE  /\ AsPhase[r] = PhaseOf(pc[r])
             /\ pc[r] # "idle" => AsSubject[r] = Path
             /\ AsAnswer[r] = AsToken(answer[r])
             /\ OAuth!getCacheKey(Path) = Path
  BY DEF AsPhase, PhaseOf, AsSubject, AsAnswer, OAuth!getCacheKey
<1>7. AsToken(NoSecret) = NoSecret
  BY DEF AsToken
<1>8. CASE authenticate \/ AuthenticateFails
  BY <1>1, <1>8 DEF authenticate, AuthenticateFails
<1>9. ASSUME NEW r \in Requests, Arrive(r) PROVE OAuth!Arrive(r)
  <2>1. /\ pc' = [pc EXCEPT ![r] = "lookup"]
        /\ header' = [header EXCEPT ![r] = NoSecret]
        /\ pc[r] \in {"idle", "done", "failed"} /\ now + VaultTimeout <= MaxTime
        /\ UNCHANGED <<now, cache, sentAt, answer>>
    BY <1>9 DEF Arrive
  <2>2. /\ AsPhase' = [AsPhase EXCEPT ![r] = "lookup"]
        /\ AsSubject' = [AsSubject EXCEPT ![r] = Path]
    BY <2>1, MappedGoroutine DEF PhaseOf
  <2>3. AsHeader' = [AsHeader EXCEPT ![r] = NoSecret]
    BY <1>7, <2>1, MappedHeader
  <2>4. AsPhase[r] \in {"idle", "done", "failed"}
    BY <1>6, <2>1 DEF PhaseOf
  <2>5. QED
    BY <1>2, <1>4, <2>1, <2>2, <2>3, <2>4 DEF OAuth!Arrive
<1>10. ASSUME NEW r \in Requests, LookupHit(r) PROVE OAuth!LookupHit(r)
  <2>1. /\ pc[r] = "lookup" /\ Cache!Hit(cache, Path, now)
        /\ pc' = [pc EXCEPT ![r] = "done"]
        /\ header' = [header EXCEPT ![r] = cache[Path].token]
        /\ UNCHANGED <<now, cache, sentAt, answer>>
    BY <1>10 DEF LookupHit
  <2>2. /\ AsPhase' = [AsPhase EXCEPT ![r] = "done"]
        /\ AsSubject' = AsSubject
        /\ AsHeader' = [AsHeader EXCEPT ![r] = AsToken(cache[Path].token)]
        /\ AsPhase[r] = "lookup" /\ AsSubject[r] = Path
    BY <1>6, <2>1, MappedGoroutine, MappedHeader DEF PhaseOf
  <2>3. OAuth!Cache!Hit(AsCache, Path, now) /\ AsCache[Path].token = AsToken(cache[Path].token)
    BY <2>1, MappedCache DEF Cache!Hit
  <2>4. QED
    BY <1>2, <1>4, <1>6, <2>1, <2>2, <2>3 DEF OAuth!LookupHit
<1>11. ASSUME NEW r \in Requests, LookupMiss(r) PROVE OAuth!LookupMiss(r)
  <2>1. /\ pc[r] = "lookup" /\ ~Cache!Hit(cache, Path, now)
        /\ pc' = [pc EXCEPT ![r] = "missed"]
        /\ UNCHANGED <<now, cache, sentAt, answer, header>>
    BY <1>11 DEF LookupMiss
  <2>2. /\ AsPhase' = [AsPhase EXCEPT ![r] = "auth"]
        /\ AsSubject' = AsSubject
        /\ AsPhase[r] = "lookup" /\ AsSubject[r] = Path
    BY <1>6, <2>1, MappedGoroutine DEF PhaseOf
  <2>3. QED
    BY <1>2, <1>4, <1>5, <1>6, <2>1, <2>2, MappedCache DEF OAuth!LookupMiss
<1>12. ASSUME NEW r \in Requests, SendRead(r) PROVE OAuth!SendExchange(r)
  <2>1. /\ pc[r] = "missed" /\ pc' = [pc EXCEPT ![r] = "read"]
        /\ sentAt' = [sentAt EXCEPT ![r] = now]
        /\ UNCHANGED <<now, cache, answer, header>>
    BY <1>12 DEF SendRead
  <2>2. /\ AsPhase' = [AsPhase EXCEPT ![r] = "exchange"]
        /\ AsSubject' = AsSubject
        /\ AsPhase[r] = "auth"
    BY <1>6, <2>1, MappedGoroutine DEF PhaseOf
  <2>3. QED
    BY <1>2, <1>4, <1>5, <2>1, <2>2 DEF OAuth!SendExchange
<1>13. ASSUME NEW r \in Requests, AnswerRead(r) PROVE OAuth!IssueToken(r)
  <2>1. PICK lease \in Leases :
          answer' = [answer EXCEPT ![r] = [issued |-> now, lease |-> lease]]
    BY <1>13 DEF AnswerRead
  <2>2. /\ pc[r] = "read" /\ answer[r] = NoSecret
        /\ UNCHANGED <<now, cache, pc, sentAt, header>>
    BY <1>13 DEF AnswerRead
  <2>3. [issued |-> now, lease |-> lease] # NoSecret
    BY DEF TypeOK, Secret
  <2>4. AsToken([issued |-> now, lease |-> lease]) =
          [sub |-> Path, issued |-> now, life |-> lease]
    BY <2>3 DEF AsToken
  <2>5. AsAnswer' = [AsAnswer EXCEPT ![r] =
                       [sub |-> AsSubject[r], issued |-> now, life |-> lease]]
    BY <1>6, <2>1, <2>2, <2>4, MappedAnswer
  <2>6. AsPhase[r] = "exchange" /\ AsAnswer[r] = NoSecret
    BY <1>6, <1>7, <2>2 DEF PhaseOf
  <2>7. QED
    BY <1>2, <1>3, <1>5, <2>2, <2>5, <2>6 DEF OAuth!IssueToken
<1>14. ASSUME NEW r \in Requests, StoreAndInject(r) PROVE OAuth!StoreAndInject(r)
  <2> DEFINE e == now + EffectiveTTL(CacheTTL, answer[r].lease)
  <2>1. /\ pc[r] = "read" /\ answer[r] # NoSecret /\ answer[r] \in Secret
        /\ cache' = [cache EXCEPT ![Path] = [token |-> answer[r], expiresAt |-> e]]
        /\ header' = [header EXCEPT ![r] = answer[r]]
        /\ pc' = [pc EXCEPT ![r] = "done"]
        /\ sentAt' = [sentAt EXCEPT ![r] = 0]
        /\ answer' = [answer EXCEPT ![r] = NoSecret]
        /\ UNCHANGED now
    BY <1>14 DEF StoreAndInject, Cache!Put, TypeOK
  <2>2. /\ AsPhase' = [AsPhase EXCEPT ![r] = "done"]
        /\ AsSubject' = AsSubject
        /\ AsPhase[r] = "exchange" /\ AsSubject[r] = Path
        /\ AsAnswer[r] = AsToken(answer[r])
    <3>4. pc' = [pc EXCEPT ![r] = "done"] /\ pc[r] # "idle"
      BY <2>1
    <3>1. AsPhase' = [AsPhase EXCEPT ![r] = PhaseOf("done")]
      BY <3>4, MappedGoroutine
    <3>5. AsSubject' = AsSubject
      BY <3>4 DEF TypeOK, AsSubject
    <3>2. PhaseOf("done") = "done" /\ PhaseOf("read") = "exchange"
      BY DEF PhaseOf
    <3>3. QED
      BY <1>6, <2>1, <3>1, <3>2, <3>5
  <2>9. /\ AsHeader' = [AsHeader EXCEPT ![r] = AsToken(answer[r])]
        /\ AsAnswer' = [AsAnswer EXCEPT ![r] = NoSecret]
    BY <1>7, <2>1, MappedHeader, MappedAnswer
  <2>3. /\ AsToken(answer[r]) = [sub |-> Path, issued |-> answer[r].issued,
                                 life |-> answer[r].lease]
        /\ AsToken(answer[r]) # NoSecret
    BY <2>1 DEF AsToken, Secret, OAuth!ExchangedToken
  <2>4. e = now + OAuth!EffectiveTTL(CacheTTL, AsToken(answer[r]).life)
    BY <2>3 DEF EffectiveTTL, Wrap, OAuth!EffectiveTTL, OAuth!Wrap
  <2>5. [token |-> answer[r], expiresAt |-> e] # NoEntry
    <3>1. e \in Int
      BY <2>1, DeadlineOfSecret DEF Secret
    <3>2. [token |-> answer[r], expiresAt |-> e] \in Cache!Entry
      BY <2>1, <3>1 DEF Cache!Entry
    <3>3. QED
      BY <3>2
  <2> HIDE DEF e
  <2>6. AsCache' = [AsCache EXCEPT ![Path] = [token |-> AsToken(answer[r]), expiresAt |-> e]]
    <3>1. cache'[Path] = [token |-> answer[r], expiresAt |-> e]
      BY <2>1 DEF TypeOK
    <3>2. \A k \in {Path} : AsCache'[k] = [token |-> AsToken(answer[r]), expiresAt |-> e]
      BY <2>5, <3>1 DEF AsCache, AsToken
    <3>3. QED
      BY <3>2 DEF AsCache
  <2>7. AsCache' = OAuth!Cache!Put(AsCache, OAuth!getCacheKey(AsSubject[r]), AsAnswer[r],
                     OAuth!EffectiveTTL(CacheTTL, AsAnswer[r].life), now)
    BY <1>6, <2>2, <2>4, <2>6 DEF OAuth!Cache!Put
  <2>8. QED
    BY <2>1, <2>2, <2>3, <2>7, <2>9 DEF OAuth!StoreAndInject
<1>15. ASSUME NEW r \in Requests, Fail(r) PROVE OAuth!Fail(r)
  <2>1. /\ pc[r] \in {"missed", "read"} /\ pc' = [pc EXCEPT ![r] = "failed"]
        /\ sentAt' = [sentAt EXCEPT ![r] = 0]
        /\ answer' = [answer EXCEPT ![r] = NoSecret]
        /\ UNCHANGED <<now, cache, header>>
    BY <1>15 DEF Fail
  <2>2. /\ AsPhase' = [AsPhase EXCEPT ![r] = "failed"]
        /\ AsSubject' = AsSubject
        /\ AsPhase[r] \in {"auth", "exchange"}
    <3>4. pc' = [pc EXCEPT ![r] = "failed"] /\ pc[r] # "idle"
      BY <2>1
    <3>1. AsPhase' = [AsPhase EXCEPT ![r] = PhaseOf("failed")]
      BY <3>4, MappedGoroutine
    <3>5. AsSubject' = AsSubject
      BY <3>4 DEF TypeOK, AsSubject
    <3>2. /\ PhaseOf("failed") = "failed" /\ PhaseOf("missed") = "auth"
          /\ PhaseOf("read") = "exchange"
      BY DEF PhaseOf
    <3>3. QED
      BY <1>6, <2>1, <3>1, <3>2, <3>5
  <2>3. AsAnswer' = [AsAnswer EXCEPT ![r] = NoSecret]
    BY <1>7, <2>1, MappedAnswer
  <2>4. QED
    BY <1>2, <1>5, <2>1, <2>2, <2>3 DEF OAuth!Fail
<1>16. CASE CleanupCache
  <2>1. /\ cache' = [k \in {Path} |-> IF Cache!Hit(cache, k, now) THEN cache[k] ELSE NoEntry]
        /\ UNCHANGED <<now, pc, sentAt, answer, header>>
    BY <1>16 DEF CleanupCache, Cache!Purge
  <2>2. AsCache' = OAuth!Cache!Purge(AsCache, now)
    BY <2>1, MappedCache DEF AsCache, AsToken, Cache!Hit, OAuth!Cache!Purge
  <2>3. QED
    BY <1>3, <1>4, <1>5, <2>1, <2>2 DEF OAuth!CleanupCache, OAuth!Next
<1>17. CASE Close
  <2>1. AsCache' = OAuth!Cache!EmptyCache
    BY <1>17 DEF Close, AsCache, Cache!EmptyCache, OAuth!Cache!EmptyCache
  <2>2. QED
    BY <1>3, <1>4, <1>5, <1>17, <2>1 DEF Close, OAuth!Close, OAuth!Next
<1>18. CASE Tick
  <2>1. \A r \in Requests : AsPhase[r] = "exchange" => pc[r] = "read"
    BY <1>6 DEF TypeOK, PhaseOf
  <2>2. QED
    BY <1>2, <1>3, <1>4, <1>5, <1>18, <2>1 DEF Tick, OAuth!Tick, OAuth!Next
<1>19. CASE UNCHANGED vars
  BY <1>1, <1>19 DEF vars
<1>20. QED
  BY <1>8, <1>9, <1>10, <1>11, <1>12, <1>13, <1>14, <1>15, <1>16, <1>17, <1>18, <1>19
     DEF Next, Inject, OAuth!Next, OAuth!Inject

(* The Vault injector starts and moves like an OAuth injector with a       *)
(* single subject, whatever Vault does (vault_injector.go:120-220).        *)
THEOREM MovesLikeOAuth == Spec => OAuth!Init /\ [][OAuth!Next]_OAuth!vars
<1>1. Init => OAuth!Init
  BY DEF Init, OAuth!Init, AsCache, AsPhase, AsSubject, AsAnswer, AsHeader, AsToken,
         Cache!EmptyCache, OAuth!Cache!EmptyCache
<1>2. QED
  BY <1>1, StepOfOAuth, TypeCorrect, PTL DEF Spec

-----------------------------------------------------------------------------
(* The two instances of the OAuth injector are one.                        *)
LEMMA SameInstance ==
  /\ OAuth!Init <=> Proved!Init
  /\ OAuth!Next <=> Proved!Next
  /\ UNCHANGED OAuth!vars <=> UNCHANGED Proved!vars
<1>1. OAuth!Init <=> Proved!Init
  BY DEF OAuth!Init, Proved!Init, OAuth!Cache!EmptyCache, Proved!Cache!EmptyCache
<1>2. OAuth!Next <=> Proved!Next
  BY DEF OAuth!Next, OAuth!Arrive, OAuth!Inject, OAuth!LookupHit, OAuth!LookupMiss,
     OAuth!SendExchange, OAuth!IssueToken, OAuth!StoreAndInject, OAuth!Fail,
     OAuth!CleanupCache, OAuth!Close, OAuth!Tick, OAuth!getCacheKey,
     OAuth!EffectiveTTL, OAuth!Wrap, OAuth!Cache!Hit, OAuth!Cache!Expired,
     OAuth!Cache!Put, OAuth!Cache!Purge, OAuth!Cache!EmptyCache,
     Proved!Next, Proved!Arrive, Proved!Inject, Proved!LookupHit, Proved!LookupMiss,
     Proved!SendExchange, Proved!IssueToken, Proved!StoreAndInject, Proved!Fail,
     Proved!CleanupCache, Proved!Close, Proved!Tick, Proved!getCacheKey,
     Proved!EffectiveTTL, Proved!Wrap, Proved!Cache!Hit, Proved!Cache!Expired,
     Proved!Cache!Put, Proved!Cache!Purge, Proved!Cache!EmptyCache
<1>3. UNCHANGED OAuth!vars <=> UNCHANGED Proved!vars
  BY DEF OAuth!vars, Proved!vars
<1>4. QED
  BY <1>1, <1>2, <1>3

(* The inductive invariant of the OAuth injector, seen through the mapping. *)
LEMMA InvariantHolds == Spec => [](TypeOK /\ Proved!IInv)
<1>1. Init => TypeOK /\ Proved!IInv
  <2>1. Init => OAuth!Init
    BY DEF Init, OAuth!Init, AsCache, AsPhase, AsSubject, AsAnswer, AsHeader, AsToken,
           Cache!EmptyCache, OAuth!Cache!EmptyCache
  <2>2. Init => TypeOK
    BY VaultAssumption DEF Init, TypeOK, Cache!EmptyCache
  <2>3. Proved!Init => Proved!IInv
    BY MappedConstants, Proved!InitIInv
  <2>4. QED
    BY <2>1, <2>2, <2>3, SameInstance
<1>2. TypeOK /\ Proved!IInv /\ [Next]_vars => (TypeOK /\ Proved!IInv)'
  <2> SUFFICES ASSUME TypeOK, Proved!IInv, [Next]_vars
               PROVE  TypeOK' /\ Proved!IInv'
    OBVIOUS
  <2>1. TypeOK'
    BY StepTypeOK
  <2>2. [Proved!Next]_Proved!vars
    BY StepOfOAuth, SameInstance
  <2>3. Proved!IInv'
    BY <2>2, MappedConstants, Proved!StepIInv
  <2>4. QED
    BY <2>1, <2>3
<1>3. QED
  BY <1>1, <1>2, PTL DEF Spec

(* A secret is injected within one read of the end of its lease, and of    *)
(* cacheTtl, for any leases, and for the zero lease Vault sends with a     *)
(* static secret (vault_injector.go:147-156).                              *)
THEOREM InjectsWithinLease == Spec => InjectedWithinLease
<1> DEFINE Step == \A r \in Requests :
       (header'[r] # header[r] /\ header'[r] # NoSecret) =>
         LET s == header'[r] IN
         /\ s.lease > 0 => now <= s.issued + s.lease * Second + VaultTimeout
         /\ now <= s.issued + CacheTTL + VaultTimeout
<1>1. TypeOK /\ Proved!IInv /\ [Next]_vars => [Step]_vars
  <2> SUFFICES ASSUME TypeOK, Proved!IInv, [Next]_vars,
                      NEW r \in Requests,
                      header'[r] # header[r], header'[r] # NoSecret
               PROVE  LET s == header'[r] IN
                      /\ s.lease > 0 => now <= s.issued + s.lease * Second + VaultTimeout
                      /\ now <= s.issued + CacheTTL + VaultTimeout
    OBVIOUS
  <2>1. [Proved!Next]_Proved!vars
    BY StepOfOAuth, SameInstance
  <2>2. TypeOK'
    BY StepTypeOK
  <2>3. header[r] \in Secret \union {NoSecret} /\ header'[r] \in Secret
    BY <2>2 DEF TypeOK
  <2>4. /\ AsHeader[r] = AsToken(header[r])
        /\ AsHeader'[r] = AsToken(header'[r])
    BY DEF AsHeader, AsToken
  <2>5. AsToken(header'[r]) = [sub |-> Path, issued |-> header'[r].issued,
                               life |-> header'[r].lease]
    BY <2>3, VaultAssumption DEF AsToken
  <2>6. AsToken(header'[r]) \in OAuth!ExchangedToken
    BY <2>3, <2>5, VaultAssumption DEF Secret, OAuth!ExchangedToken
  <2>7. AsHeader'[r] # NoSecret
    BY <2>4, <2>6, MappingAssumption
  <2>8. AsHeader'[r] # AsHeader[r]
    <3>1. CASE header[r] = NoSecret
      BY <3>1, <2>4, <2>7 DEF AsToken
    <3>2. CASE header[r] # NoSecret
      <4>1. header[r] \in Secret
        BY <2>3, <3>2
      <4>2. AsToken(header[r]) = [sub |-> Path, issued |-> header[r].issued,
                                  life |-> header[r].lease]
        BY <3>2 DEF AsToken
      <4>3. header[r].issued # header'[r].issued \/ header[r].lease # header'[r].lease
        BY <2>3, <4>1 DEF Secret
      <4>4. QED
        BY <2>4, <2>5, <4>2, <4>3
    <3>3. QED
      BY <3>1, <3>2
  <2>9. Proved!Injects(r)
    BY <2>7, <2>8 DEF Proved!Injects
  <2>10. Proved!Fresh(AsHeader'[r], now)
    BY <2>1, <2>9, MappedConstants, Proved!InjectsFresh
  <2>11. QED
    BY <2>4, <2>5, <2>10 DEF Proved!Fresh
<1>2. QED
  BY <1>1, InvariantHolds, PTL DEF Spec, InjectedWithinLease

(* A request under Vault sees what TokenInjection promises, with the path  *)
(* as the one subject: cache, lease and login are out of its sight         *)
(* (vault_injector.go:120-168).                                            *)
THEOREM KeepsPromise == Spec => OAuth!ImplementsInjection
<1>1. OAuth!Init => OAuth!Promise!Init
  BY DEF OAuth!Init, OAuth!Promise!Init, OAuth!Progress
<1>2. TypeOK /\ Proved!IInv /\ [Next]_vars => [OAuth!Promise!Next]_OAuth!Promise!vars
  <2> SUFFICES ASSUME TypeOK, Proved!IInv, [Next]_vars
               PROVE  [OAuth!Promise!Next]_OAuth!Promise!vars
    OBVIOUS
  <2>1. [Proved!Next]_Proved!vars
    BY StepOfOAuth, SameInstance
  <2>2. [Proved!Promise!Next]_Proved!Promise!vars
    BY <2>1, MappedConstants, Proved!StepOfPromise
  <2>3. Proved!Progress = OAuth!Progress
    BY DEF Proved!Progress, OAuth!Progress
  <2>4. QED
    BY <2>2, <2>3
       DEF OAuth!Promise!Next, OAuth!Promise!Arrive, OAuth!Promise!Succeed,
           OAuth!Promise!Fail, OAuth!Promise!Tick, OAuth!Promise!Usable,
           OAuth!Promise!Token, OAuth!Promise!vars,
           Proved!Promise!Next, Proved!Promise!Arrive, Proved!Promise!Succeed,
           Proved!Promise!Fail, Proved!Promise!Tick, Proved!Promise!Usable,
           Proved!Promise!Token, Proved!Promise!vars, OAuth!Progress, Proved!Progress
<1>3. QED
  BY <1>1, <1>2, MovesLikeOAuth, InvariantHolds, PTL
     DEF Spec, OAuth!ImplementsInjection, OAuth!Promise!Spec
=============================================================================
