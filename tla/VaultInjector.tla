----------------------------- MODULE VaultInjector -----------------------------
(***************************************************************************)
(* internal/tokeninjector/vault_injector.go: Inject puts a secret of Vault *)
(* into every outgoing request, from the cache when it can.                *)
(*                                                                         *)
(* NewVaultInjector logs in once.  With kubernetes authentication the      *)
(* login ends with its lease, and nothing renews it: from then on Vault    *)
(* refuses every read.  With token authentication the configured token     *)
(* is only stored in the client.  All requests use the same cache key, the *)
(* secret's path.  Vault is external: it answers a read with the secret    *)
(* and a lease duration, or the read fails.                                *)
(***************************************************************************)
EXTENDS TokenTTL

CONSTANTS
  Requests,       \* request goroutines; each handles request after request
  Path,           \* vault.path
  CacheTTL,       \* vault.cacheTtl
  Leases,         \* values of lease_duration Vault sends; 0 when it sends none
  LoginEnds,      \* instants at which the login can end
  VaultTimeout,   \* the longest a read can take in the Vault client
  MaxTime,        \* bound on the clock
  NoSecret,       \* no secret yet
  NoEntry         \* absent from the cache

\* What Vault answers: when it was read there, and its lease duration.
Secret == [issued : Int, lease : Leases]

Cache == INSTANCE TokenCacheOps WITH Keys <- {Path}, Tokens <- Secret

ASSUME VaultAssumption ==
  /\ CacheTTL \in 1 .. (HalfRange - 1)
  /\ Leases \subseteq Int
  /\ LoginEnds \subseteq Int
  /\ VaultTimeout \in Nat
  /\ MaxTime \in Nat
  /\ NoSecret \notin Secret
  /\ NoEntry \notin Cache!Entry

VARIABLES
  now,        \* the process's monotonic clock
  login,      \* how far NewVaultInjector is
  loginEnd,   \* the last instant at which Vault accepts the client's token
  cache,      \* the injector's token cache
  pc,         \* pc[r]: where the goroutine stands in Inject
  sentAt,     \* sentAt[r]: when the read in flight was sent
  answer,     \* answer[r]: Vault's answer to the read in flight
  header      \* header[r]: the secret Inject put in Authorization

vars == <<now, login, loginEnd, cache, pc, sentAt, answer, header>>

TypeOK ==
  /\ now \in Nat
  /\ login \in {"new", "ok", "failed"}
  /\ loginEnd \in Int
  /\ cache \in [{Path} -> Cache!Entry \union {NoEntry}]
  /\ pc \in [Requests -> {"idle", "lookup", "missed", "read", "done", "failed"}]
  /\ \A r \in Requests : pc[r] # "idle" => login = "ok"
  /\ sentAt \in [Requests -> Nat]
  /\ answer \in [Requests -> Secret \union {NoSecret}]
  /\ header \in [Requests -> Secret \union {NoSecret}]

Init ==
  /\ now = 0
  /\ login = "new"
  /\ loginEnd = 0
  /\ cache = Cache!EmptyCache
  /\ pc = [r \in Requests |-> "idle"]
  /\ sentAt = [r \in Requests |-> 0]
  /\ answer = [r \in Requests |-> NoSecret]
  /\ header = [r \in Requests |-> NoSecret]

\* authenticate, called by NewVaultInjector.
authenticate ==
  /\ login = "new"
  /\ login' = "ok"
  /\ loginEnd' \in LoginEnds
  /\ UNCHANGED <<now, cache, pc, sentAt, answer, header>>

\* No service account token, no configured token, Vault refuses or is away:
\* there is no injector, and the process does not start.
AuthenticateFails ==
  /\ login = "new"
  /\ login' = "failed"
  /\ UNCHANGED <<now, loginEnd, cache, pc, sentAt, answer, header>>

\* Seeded fault: requests are served before the login.
ArriveEarly(r) ==
  /\ pc[r] \in {"idle", "done", "failed"}
  /\ now + VaultTimeout <= MaxTime
  /\ pc' = [pc EXCEPT ![r] = "lookup"]
  /\ header' = [header EXCEPT ![r] = NoSecret]
  /\ UNCHANGED <<now, login, loginEnd, cache, sentAt, answer>>

Arrive(r) ==
  /\ login = "ok"
  /\ pc[r] \in {"idle", "done", "failed"}
  /\ now + VaultTimeout <= MaxTime
  /\ pc' = [pc EXCEPT ![r] = "lookup"]
  /\ header' = [header EXCEPT ![r] = NoSecret]
  /\ UNCHANGED <<now, login, loginEnd, cache, sentAt, answer>>

LookupHit(r) ==
  /\ pc[r] = "lookup"
  /\ Cache!Hit(cache, Path, now)
  /\ header' = [header EXCEPT ![r] = cache[Path].token]
  /\ pc' = [pc EXCEPT ![r] = "done"]
  /\ UNCHANGED <<now, login, loginEnd, cache, sentAt, answer>>

LookupMiss(r) ==
  /\ pc[r] = "lookup"
  /\ ~Cache!Hit(cache, Path, now)
  /\ pc' = [pc EXCEPT ![r] = "missed"]
  /\ UNCHANGED <<now, login, loginEnd, cache, sentAt, answer, header>>

\* readSecret sends the read.
SendRead(r) ==
  /\ pc[r] = "missed"
  /\ sentAt' = [sentAt EXCEPT ![r] = now]
  /\ pc' = [pc EXCEPT ![r] = "read"]
  /\ UNCHANGED <<now, login, loginEnd, cache, answer, header>>

\* Vault answers the read while it accepts the login.
AnswerRead(r) ==
  /\ pc[r] = "read"
  /\ answer[r] = NoSecret
  /\ now <= loginEnd
  /\ \E lease \in Leases :
       answer' = [answer EXCEPT ![r] = [issued |-> now, lease |-> lease]]
  /\ UNCHANGED <<now, login, loginEnd, cache, pc, sentAt, header>>

\* Seeded fault: a concurrent miss moves the old deadline but not the secret.
StoreAndInjectStale(r) ==
  /\ pc[r] = "read"
  /\ answer[r] # NoSecret
  /\ cache' = Cache!Put(cache, Path,
                        IF cache[Path] = NoEntry THEN answer[r] ELSE cache[Path].token,
                        EffectiveTTL(CacheTTL, answer[r].lease), now)
  /\ header' = [header EXCEPT ![r] = answer[r]]
  /\ pc' = [pc EXCEPT ![r] = "done"]
  /\ sentAt' = [sentAt EXCEPT ![r] = 0]
  /\ answer' = [answer EXCEPT ![r] = NoSecret]
  /\ UNCHANGED <<now, login, loginEnd>>

\* The field is found in the answer, cached and put into the request.
StoreAndInject(r) ==
  /\ pc[r] = "read"
  /\ answer[r] # NoSecret
  /\ cache' = Cache!Put(cache, Path, answer[r],
                        EffectiveTTL(CacheTTL, answer[r].lease), now)
  /\ header' = [header EXCEPT ![r] = answer[r]]
  /\ pc' = [pc EXCEPT ![r] = "done"]
  /\ sentAt' = [sentAt EXCEPT ![r] = 0]
  /\ answer' = [answer EXCEPT ![r] = NoSecret]
  /\ UNCHANGED <<now, login, loginEnd>>

\* The read fails, Vault has no secret there, or not the field, or no string.
Fail(r) ==
  /\ pc[r] \in {"missed", "read"}
  /\ pc' = [pc EXCEPT ![r] = "failed"]
  /\ sentAt' = [sentAt EXCEPT ![r] = 0]
  /\ answer' = [answer EXCEPT ![r] = NoSecret]
  /\ UNCHANGED <<now, login, loginEnd, cache, header>>

CleanupCache ==
  /\ cache' = Cache!Purge(cache, now)
  /\ UNCHANGED <<now, login, loginEnd, pc, sentAt, answer, header>>

Close ==
  /\ login = "ok"
  /\ cache' = Cache!EmptyCache
  /\ UNCHANGED <<now, login, loginEnd, pc, sentAt, answer, header>>

\* Time does not run past the instant the client gives a read up.
Tick ==
  /\ now < MaxTime
  /\ \A r \in Requests : pc[r] = "read" => now < sentAt[r] + VaultTimeout
  /\ now' = now + 1
  /\ UNCHANGED <<login, loginEnd, cache, pc, sentAt, answer, header>>

Inject(r) == \/ LookupHit(r) \/ LookupMiss(r) \/ SendRead(r)
             \/ StoreAndInject(r) \/ Fail(r)

Next ==
  \/ authenticate \/ AuthenticateFails
  \/ \E r \in Requests : Arrive(r) \/ Inject(r) \/ AnswerRead(r)
  \/ CleanupCache
  \/ Close
  \/ Tick

\* The goroutines run; the client's timeout ends a read nobody answers.
Spec == Init /\ [][Next]_vars /\ \A r \in Requests : WF_vars(Inject(r))

-----------------------------------------------------------------------------
\* The OAuth injector's view: every request brings the same subject, Path.
AsToken(secret) ==
  IF secret = NoSecret THEN NoSecret
  ELSE [sub |-> Path, issued |-> secret.issued, life |-> secret.lease]

AsCache ==
  [k \in {Path} |->
     IF cache[k] = NoEntry THEN NoEntry
     ELSE [token |-> AsToken(cache[k].token), expiresAt |-> cache[k].expiresAt]]

AsPhase == [r \in Requests |->
              CASE pc[r] = "missed" -> "auth"
                [] pc[r] = "read"   -> "exchange"
                [] OTHER            -> pc[r]]

\* There is no variable subject here: a request that ever began has Path.
AsSubject == [r \in Requests |-> IF pc[r] = "idle" THEN NoSecret ELSE Path]

AsAnswer == [r \in Requests |-> AsToken(answer[r])]
AsHeader == [r \in Requests |-> AsToken(header[r])]

OAuth == INSTANCE OAuthInjector WITH
  Subjects <- {Path}, Keys <- {Path}, CacheKey <- [s \in {Path} |-> Path],
  Lifetimes <- Leases, HttpTimeout <- VaultTimeout,
  NoSubject <- NoSecret, NoToken <- NoSecret,
  subject <- AsSubject, pc <- AsPhase, cache <- AsCache,
  answer <- AsAnswer, header <- AsHeader

ASSUME MappingAssumption ==
  /\ NoSecret # Path
  /\ NoSecret \notin OAuth!ExchangedToken
  /\ NoEntry \notin OAuth!Cache!Entry

(* Whatever holds of the OAuth injector with a single subject holds of the *)
(* Vault injector: the age of the secrets it injects is bounded in the     *)
(* same way, and every Inject returns (vault_injector.go:120-168).         *)
InjectsLikeOAuth == OAuth!Spec

(* A secret is not injected later than one read after its lease, or after  *)
(* cacheTtl, whichever ends first (vault_injector.go:147-156; README:      *)
(* "Lease-aware caching").                                                 *)
InjectedWithinLease ==
  [][\A r \in Requests :
       (header'[r] # header[r] /\ header'[r] # NoSecret) =>
         LET s == header'[r] IN
         /\ s.lease > 0 => now <= s.issued + s.lease * Second + VaultTimeout
         /\ now <= s.issued + CacheTTL + VaultTimeout]_vars
=============================================================================
