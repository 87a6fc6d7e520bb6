# Klaviger in TLA+

Klaviger is a sidecar proxy. Its reverse proxy verifies the bearer token of every
incoming request and forwards the request to a backend; its forward proxy puts a
token into every outgoing request. This directory models the parts of it that
keep state between requests, or that wait for something that may fail: TLA+
modules, TLC configurations that check small instances, and proofs checked by
TLAPS for all values of the constants.

Paths below are relative to the repository (`src/` in `PROJECT.json`).

## The system

| Component | State | Operations | Hard part | What makes it correct |
|---|---|---|---|---|
| Token cache (`internal/util/token_cache.go`) | map of tokens with deadlines | Get, Set, Delete, Clear, a cleanup goroutine | expiry is lazy: expired entries stay in the map until a cleanup round | callers cannot tell it from a store that drops a token at its deadline |
| OAuth injector (`internal/tokeninjector/oauth_exchange.go`) | token cache; cached client token | Inject, getK8sToken, Close | nothing joins concurrent misses; no lock between lookup and store; the endpoint may be slow, fail or never answer | own token, not too old, Inject returns |
| Vault injector (`.../vault_injector.go`) | Vault login, token cache | login, Inject, Close | the login is never renewed; leases | as OAuth |
| File injector (`.../file_injector.go`) | token in memory, fsnotify watch | load, two reload loops, Inject, Close | two loops read without a lock and store in any order; the file changes under them | always a token; the file's token in the end |
| JWKS cache (`internal/util/jwks_cache.go`) | key set, time of the last fetch, a RW mutex | Get, Clear | the fetch runs under the write lock; keys rotate meanwhile | one fetch per expiry; a set or an error; nobody stuck |
| JWT verifier (`internal/auth/jwt_verifier.go`) | none of its own | Verify | depends on the age of the key set | accepts only current keys |
| Server, main (`internal/server/server.go`, `cmd/klaviger/main.go`) | what run() has built; goroutines of two errgroups, contexts | run, Start, signal, Shutdown | construction fails, panics or waits; failures, signal and deadline race; one context cancels all | starting settles; the process ends; requests are drained |
| Reverse proxy, middleware (`internal/reverseproxy`) | counters | public paths, preflight, authenticate, forward | order of checks; what is counted when | nothing unauthenticated is forwarded |
| Introspection and Kubernetes verifiers (`internal/auth`) | none | Verify | a remote call per request, answered late, wrongly or never | a token revoked before its request came is turned away |
| Forward proxy, router (`internal/forwardproxy`) | rules, injectors; the connections of a tunnel | route, inject, forward; CONNECT tunnels | two copies of a tunnel, the first to end closes both | a request leaves as the first matching rule says; one direction of a tunnel is complete; nothing stays behind |
| SPIFFE sources (`internal/spiffe`) | cached JWT-SVID with a mutex; rotation monitor | FetchJWTSVID, NewSource, monitorUpdates, Close | mutex held during a fetch; NewSource waits for the agent | no cached SVID is used after it expired; callers return unless a fetch is stuck |
| Configuration (`internal/config`) | the configuration | Load, defaults, Validate, Sanitize | Sanitize shares memory with what it copies; a factory meets what Validate let pass | what Validate accepts can be built; the log shows no secret; the configuration in use is unchanged |
| Observability (`internal/observability`) | counters, logger, tracer | set-up | none | - |

How they interact: `main` loads the configuration, sanitizes it for the log,
builds a verifier and the reverse proxy, builds one injector per rule and the
forward proxy, and starts the servers. Every request runs in a goroutine of its
own. Request goroutines share the injectors' caches, the file injector's token,
the client token, the JWT-SVID and the key set; each of those has one mutex.
Background goroutines are one cleanup loop per token cache, two loops per file
injector, and the certificate monitor.

## Modules

| Module | Models | State and actions |
|---|---|---|
| `TokenTTL` | the ttl computation the OAuth and Vault injectors share | operators `Wrap` (an int64 product) and `EffectiveTTL` |
| `TokenCacheOps` | the map of the token cache | `Put`, `Drop`, `Purge`, `Hit`; each runs under the mutex, so the modules that use them take each as one step |
| `TokenStore` | abstract: what a cache promises | tokens vanish by the clock itself |
| `TokenCache` | the cache as an object | `Get`, `Set`, `Delete`, `Clear`, `cleanupExpired`, `Tick` |
| `TokenInjection` | abstract: what an injector promises to a request | one step that fails, or puts in one recent token of the request's cache key; no cache, no exchange |
| `OAuthInjector` | `Inject` of any number of request goroutines, and `Close` | `pc` is where a goroutine stands between two accesses to shared state: lookup, credential, exchange, store |
| `VaultInjector` | the same for Vault, with the login | refines `OAuthInjector` with one subject, the secret's path |
| `ClientToken` | `getK8sToken`: look, read, store | three steps, since the lock is given up between them |
| `JWTSource` | `FetchJWTSVID`: lock, look, fetch, unlock | one mutex over the whole call; the agent may answer with any SVID, fail or never answer |
| `AuthToken` | `getAuthToken`: the client token file, or the JWT source; composes `ClientToken` and `JWTSource` | a call takes one of the two ways; one clock for both |
| `JWKSCache` | `Get`: read lock, write lock, second look, fetch | the two fetch branches differ in what happens to the error |
| `JWTVerifier` | `Verify`; extends `JWKSCache` | `Begin`, `Decide`, and the steps of `Get` between them |
| `RemoteVerifier` | the introspection and the Kubernetes verifier | a question per request; the authority answers, revokes, or is silent |
| `ReverseProxy` | the mux, the middleware and the handler; extends `JWTVerifier`, instantiates `RemoteVerifier` | a request arrives at one of the handlers, is verified in the steps of `Verify`, forwarded, and ends with or without an answer; `counted` is how often `requests_total` was incremented for it |
| `Tunnel` | `handleConnect`: dial, hijack, two copies | what each peer has sent and what of it was delivered, per direction |
| `ForwardProxy` | the router and `handleHTTP`; extends `OAuthInjector`, instantiates `Tunnel` | a request arrives, goes through `Inject` step by step, is sent, copied back and answered; or its goroutine serves a tunnel |
| `FileInjector` | construction, `watchFile`, `periodicRefresh`, `Close` | each `loadToken` is a read step and a store step; the file is changed by external actions |
| `Lifecycle` | abstract: what the process promises to its clients and to whoever started it | each server opens and shuts once; the process ends for a reason and with the result the reason asks for |
| `Server` | `Start`, `Shutdown`, the end of `run` | one variable per kind of goroutine; `net/http` and the clients are external actions |
| `Config` | defaults, `Validate`, `Sanitize` and the conditions of the factories and of the muxes | one operator per function of the code, on records that have the fields of the structs some decision reads |
| `Sidecar` | `run()` from the file to the end of the process; composes `Config` and `Server` | one action per step of the construction, with its errors, panics and waits; then the steps of `Server` |

`OAuthInjector` and `VaultInjector` instantiate `TokenCacheOps` for the cache they
own. Inbound, one request is followed from its arrival through the verification
to the backend (`ReverseProxy` over `JWTVerifier` over `JWKSCache`, or over
`RemoteVerifier`); outbound, from its arrival through routing, cache and exchange
to the answer of the upstream (`ForwardProxy` over `OAuthInjector` over
`TokenCacheOps`). Four modules instantiate the specification they implement:
`TokenCache` implements `TokenStore`, `OAuthInjector` implements `TokenInjection`,
`VaultInjector` implements `OAuthInjector`, and `Sidecar` implements `Lifecycle`.
`PROJECT.json` maps every definition to the lines it models.

Modules named `MC...` instantiate a specification for TLC. Modules named
`...Proofs` hold theorems. Definitions commented "Seeded fault" are never part of
a specification: each is a plausible mistake in one definition, and exchanging it
for that definition must break the property `PROJECT.json` pairs it with.

### Conventions and abstractions

- *Time.* `now` counts small units of the process's monotonic clock. A guard in
  `Tick` keeps time from passing beyond what a timeout of the code allows: with an
  exchange in flight the clock stops at the instant the HTTP client gives up, so
  some action has to happen first. This makes a timeout a bound and not merely a
  failure that may happen. `MaxTime` bounds the clock in every module but
  `TokenStore`. `ForwardProxy` runs with a clock that stands still: its properties
  compare no times, and `OAuthTiming` runs the same injector with a clock.
- *Data.* A token is a record of what the properties tell apart: whose it is, when
  it was issued, how long it lives. A subject is a model value and `CacheKey` the
  function from subjects to their first 16 characters. A JWT is its `kid`, who
  signed it, its expiry and the claims the verifier tests. An SVID is its expiry.
  What goes through a tunnel is counted in pieces. In a configuration a string is
  one of the few that decisions tell apart: empty, a URL or not, there or missing,
  a secret, a redacted one. Of a pattern of `net/http`'s `ServeMux` the model knows
  its host and the methods and paths it matches (`Host`, `Matches`; none if it is
  no pattern), for that decides which two patterns a mux refuses to hold together.
- *Failures.* Everything that makes an operation return an error is one
  nondeterministic action, taken at any point at which the code can meet it.
- *Requests repeat.* A request goroutine that has ended may begin again, so a few
  goroutines stand for any number of requests of which a few run at a time.
- *Left out*: log lines other than the configuration, spans, metrics other than
  the two proxy counters the reverse proxy shares, and the form of error messages.

## Checks

Every run ends within three minutes on two cores. `expect: pass`:

| Run | Bounds | Shows |
|---|---|---|
| `TokenCache` | 2 keys, 2 tokens, ttls negative to 2 | the cache with lazy expiry implements `TokenStore`, and expired entries leave memory |
| `OAuthTiming` | 2 goroutines, 2 subjects with distinct keys, lifetimes 0, 1, 3, 5 at half range 4 (5 wraps), clock to 4 | everyone is served the own token; how long after its issue a token can be injected; to a request, `Inject` is the one step of `TokenInjection` |
| `ForwardProxy` | 2 goroutines, 3 hosts, 2 overlapping rules, 3 subjects of whom 2 share a key, 1 tunnel, 1 piece per direction | a request leaves as its rule says and never with a token of another key; every request is answered, even if the endpoint or the upstream never answers; a tunnel unwinds and has delivered one direction |
| `AuthToken` | 2 goroutines, 3 versions of the file, SVIDs that come fresh, at their end or after it, clock to 5 | late stores never make a returned client token older than the period and one read; no cached SVID is returned after its expiry; calls return unless a fetch is stuck |
| `VaultInjector` | 2 goroutines, leases 0, 1, 5, login ending at 0 or never | refinement of `OAuthInjector` including its liveness; age bounded by the lease |
| `JWTVerifier` | 2 goroutines, 1 key that comes and goes, a genuine token and one without a key id, clock to 4 = cacheTtl 2 + fetch 1 + 1 | accepted keys are current; no second fetch while fresh; Verify answers, with the client that has a timeout |
| `ReverseProxy` | 2 goroutines, 5 kinds of request, 5 kinds of token, 2 credentials at the remote authority, key fetches through the client that loses errors, cacheTtl 1, fetch 1, clock to 2 | only requests verified with a current key pass, and none whose token was revoked before it came; every answered guarded one is counted, with panics of the verifier next to it |
| `FileInjector` | 2 contents, 2 changes | a token always; the right one in the end; Close ends the loops |
| `Sidecar` | about 950 configuration files, 3 servers, 2 connections | what Validate accepts can be built; the log shows no secret; starting settles; the process ends, with an error if a server failed, and requests are drained; seen from outside, it is what `Lifecycle` says |

Two goroutines are enough for every race in these components: each is between a
lookup and a store, or between a holder of a lock and one that waits. The clocks
run past the sum of all delays a property adds up, so that its violation fits.
Two changes of the file are needed to have one loop read the old and the other
the new content; `writes` counts only the start of a change, since truncating is
always followed by writing. One tunnel next to one plain request is enough, since
tunnels share no state with anything. The configuration files of `MCSidecar` are a
small accepted one and what one or two changes make of it, one set for every
function that validates and one with public paths, alone and in pairs of eleven
patterns that contain, overlap or repeat each other and those of the reverse proxy;
the proofs cover every configuration.

`expect: violation`, each one a statement of the repository that the code does
not keep:

| Run | Statement | What happens |
|---|---|---|
| `OAuthPrefixClash` | README: "Exchanges incoming token for a new token" | two subjects with the same 16 first characters share a cache entry, and all JWTs with the same header do |
| `JWTNilKeySet` | comment: "Get returns the cached JWKS, fetching if necessary" | with `bearerTokenFile` or `caFile` the error of a fetch is lost in a shadowed variable; `Get` returns nil and no error, and `Verify` panics |
| `ConfigSecrets` | comment: "Sanitize returns a copy of the config with secrets redacted"; test: "Original should be unchanged" | the copy shares the array of `HostRules`, so logging the configuration redacts the Vault token of a rule before the injector that needs it is built |

More limits show in the models and are part of what their properties say, rather
than runs of their own:

- After a replacement of its file the file injector's watch is gone; only the
  ticker is left, and `TokenConverges` holds because of it.
- The first direction of a tunnel to end closes both, so that only one direction
  is sure to be complete (`OneDirectionDelivered`). Shutdown does not wait for
  tunnels, and a tunnel between silent peers stays open.
- An error of closing the SPIFFE source cancels the context all servers drain
  with (`RequestsDrained` names it as an exception).
- An `expires_in` or `lease_duration` that overflows a `time.Duration` can give a
  deadline in the past, so that the token is not kept at all (`TokenTTL`).
- Validate refuses an empty metrics path but lets any other pass that is no pattern
  (without a slash, or malformed like `/metrics/{`), does not look at `publicPaths`
  (a duplicate, `/`, `/health/`, an empty or malformed path, or one that overlaps
  another without being more specific), and accepts malformed SPIFFE names. Each of
  them makes the start panic or fail; `AcceptedConfigBuilds` names them, and nothing
  else does.
- `defaultMode` gets no defaults and is not redacted: the Vault token of the
  default injector is logged as it is. `LoggedCopyRedacted` speaks of the rules.
- run() waits for a SPIRE agent without a limit and before it handles signals
  (`StartupSettles` names it); a JWT-SVID fetch the agent never answers holds up
  every other exchange (`AuthTokenReturns` names it).
- An access review of the Kubernetes verifier has no timeout but the request's.

`AcceptedKeyIsCurrent` holds even with the lost error: a nil set lets no token
through.

### Fairness

- Request goroutines and background goroutines are scheduled: weak fairness of
  their steps. An operation that waits for a remote is given weak fairness only as
  "the answer is handled or the operation fails", because of the client's timeout
  (10 s in `oauth_exchange.go:82` and `jwks_cache.go:117`, 30 s of the forward
  proxy's client, the default of the Vault client). No remote, client or file owner
  ever has to do anything.
- `JWKSCache` and `AuthToken` assume strong fairness for taking the mutex:
  `sync.RWMutex` starves neither readers nor writers, and `sync.Mutex` goes over to
  handing itself to the longest waiting goroutine. Without the client that has a
  timeout no fairness is assumed for the end of a key fetch, and `VerifyReturns` is
  not claimed. Of a JWT-SVID fetch only the end after its context is cancelled is
  fair; no client has to go away, so `AuthTokenReturns` excepts the stuck fetch.
- `FileInjector` assumes strong fairness for leaving a loop: Go's `select` chooses
  at random among the ready cases, so the closed channel is taken in the end.
- `ForwardProxy`: the handlers run, and a copy whose source has ended or whose
  connection is closed ends. A peer need neither read nor write nor close.
- `Sidecar`: run() goes on with its construction, an injector that waits for the
  agent gives up after its 10 seconds, and once it serves the fairness of `Server`
  holds. The agent need never come.
- `InjectReturns` and `RequestsAnswered` take the client credential for one step
  that ends. That holds of a client secret and of a token file; in SPIFFE mode it
  rests on the agent, since the fetch of a JWT-SVID (`jwt_source.go:68-95`) has no
  timeout of its own and ends only with its context. `AuthToken` looks into it, and
  `AuthTokenReturns` excepts the fetch that is stuck.

`CHECK_DEADLOCK FALSE` stands where the system may stop: a process that has ended
or waits for ever (`Sidecar`, `ConfigSecrets`), an injector that was not built or
whose loops have ended (`FileInjector`), a login that failed (`VaultInjector`).

## Proofs

| Module | Theorems | Argument |
|---|---|---|
| `TokenCacheProofs` | `TypeCorrect`, `CacheImplementsStore` | step simulation: with the visible part of the map as `held`, each operation maps to one of `TokenStore`, a cleanup round to a stutter |
| `OAuthInjectorProofs` | `EffectiveTTLBounded`, `TypeCorrect`, `ServesSameKey`, `ServesOwnToken`, `InjectsSoonAfterExpiryAtMost`, `ReusesForCacheTTLAtMost`, `KeepsPromise` | a wrapped value never exceeds a non-negative exact one (`WrapBelow`), so the ttl is bounded by cacheTtl and a positive lifetime, overflow or not; step simulation of `TokenInjection`, in which a hit and a store are its one success and everything between lookup and answer a stutter; the rest below |
| `ForwardProxyProofs` | `FPTypeCorrect`, `RequestsLeaveAsRuled`, `DeliversOneDirection`, `RunsTheInjector`, `ProxyServesSameKey`, `ProxyKeepsPromise`, `ProxyInjectsFresh` | every step is one of the injector or leaves it alone (`RunsTheInjector`), so what is proved of the injector holds inside the proxy; a request waits in `Inject` under its own key until it leaves; in a tunnel a copy that ended without a reset has delivered all its peer sent |
| `VaultInjectorProofs` | `TypeCorrect`, `MovesLikeOAuth`, `InjectsWithinLease`, `KeepsPromise` | every step maps to one of `OAuthInjector` or a stutter; the OAuth injector's theorems are then used through the same mapping (`Proved == INSTANCE OAuthInjectorProofs`) |
| `AuthTokenProofs` | `TypeCorrect`, `ReturnsRecentToken`, `ReturnsValidSVID` | every token read or cached was in the file at most `ReadTime` before it was stored: the date of its end is related to the date of the read, then to the date of the store. The cached SVID's own expiry is never before the one the source keeps for it |
| `ReverseProxyProofs` | `TypeCorrect`, `NeverFetchesWhileFresh`, `AcceptsCurrentKeys`, `RunsTheVerifier`, `ProxyFetchesWhenStale`, `RPTypeCorrect`, `ReturnsKeysOrError`, `CountsAnswered`, `ForwardsOnlyVerified`, `TurnsRevokedAway` | of the verifier: each key of an answer, of the cache and of a returned set is published or was withdrawn after the fetch was sent; the fetch lasts at most `FetchTimeout`, the set is used for less than `TTL` after it. Of the proxy: every step is a step of the verifier or leaves it alone (`RunsTheVerifier`), so the verifier's invariant carries over; only an accepting verdict, reached with a key of the set just returned, forwards a guarded request; a token once revoked is never answered with yes |
| `FileInjectorProofs` | `TypeCorrect`, `NeverWithoutToken`, `ConvergenceIsKept` | what a loop has read and not yet stored is a token; the set of loops about to store what the file no longer has (`Behind`) only shrinks while the file rests |
| `SidecarProofs` | `SCTypeCorrect`, `DrainsRequests`, `LivesItsLifecycle`, `EndNeverStuck`, `ValidateSuffices`, `LogsNoSecret`, `SecretsReachInjectors` | see below |

The inductive invariant `IInv` of `OAuthInjectorProofs` adds three facts to
`TypeOK`: an entry of the cache under key *k* holds a token whose subject has the
key *k*; its deadline is at most one exchange after the instant the token's life,
and cacheTtl, counted from its issue, are over; and the answer in flight belongs to
the subject of its request and is not older than the exchange. The invariants that
TLC checks are not inductive: none of them says anything of the cache, and a hit
copies from there.

The inductive invariant `SCInv` of `SidecarProofs` has a part for each half of the
process. Of the servers (`ServerInv`): a server that is off or drained has no
request, one that is cut off has a reason, and Shutdown, its servers and the
process end in that order; `RequestsDrained` alone says nothing before the exit.
While run() builds, the servers are untouched (`Untouched`), and what the
configuration has still to build can be built (`ConfigBuilds`), which follows from
`Validate` through one lemma per function and has to survive the redaction of
`Sanitize`. What `Validate` does not look at is left to `Unchecked`: by
`MuxTakesTheRest` the mux of the reverse proxy refuses nothing but a bad public
path, so that without public paths it is always built. This rests on
`MuxAssumption`, which says of `/health/` and `/` that both are patterns and the
first is the more specific one.

`LivesItsLifecycle` maps the process to what can be seen of it: its phase, the door
of each server, the server each request is at. It needs one more invariant,
`Orderly`, which ties the goroutines of `Start` and `Shutdown` to each other:
nothing is shut before Shutdown has begun, it ends after all it closes, and its
context is cancelled as soon as time is over or a step of it has failed. Each step is a step of
`Lifecycle` or a stutter, by one lemma per group of actions; a server whose
goroutine has yet to listen when Shutdown closes it is `barred`, and can then only
shut.

Two theorems are the safety halves of liveness properties TLC checks. After the
signal, or a failure, a guard of one of the steps with fairness holds until the
process has ended (`EndNeverStuck`, for `SignalEndsProcess`). While the file rests,
each loop of the file injector stores at most one outdated token, and every other
store brings the token of the file (`ConvergenceIsKept`, for `TokenConverges`).
`SecretsReachInjectors` bounds the defect that `ConfigSecrets` shows: if no rule
logs in to Vault with a token written out in the file, every injector is built with
the secrets it was given.

Four theorems assume something of the instance: `ServesOwnToken` that `CacheKey`
is injective on `Subjects`, `AcceptsCurrentKeys` that the client with a timeout is
configured, `SecretsReachInjectors` that each file is one it speaks of, and
`ReturnsKeysOrError` that the client of its own is not configured, since with it
the error is lost (`JWTNilKeySet`); the theorem is what shows that the other branch
is right, as all runs of the key cache take the client of its own. All other
theorems assume only the named assumptions of the modules, which TLC evaluates for
every instance.

Only model-checked: liveness (`ExpiredArePurged`, `InjectReturns`, `AuthTokenReturns`,
`VerifyReturns`, `TokenConverges`, `CloseStopsLoops`, `RequestsAnswered`,
`TunnelUnwinds`, `StartupSettles`, `SignalEndsProcess`, `FailureEndsProcess`, and
the liveness in `InjectsLikeOAuth`), because TLAPS reasons about neither fairness
nor ENABLED here.

## Not modelled

- *Observability*: set-up of logging, metrics and tracing; no behaviour depends on
  it. The counters of the reverse proxy are in `ReverseProxy`.
- *Reading the configuration*: the file, the expansion of variables and YAML come
  before `Config`, which starts from any parsed value; a failure of `Load` is one
  step of `Sidecar`.
- *TLS objects and certificate rotation*: the SPIFFE library rotates certificates
  by itself; `monitorUpdates` only writes a metric and a log line. What `NewSource`
  waits for, and what `GetServerTLSConfig` refuses, is in `Sidecar`.
- *Of the Kubernetes verifier*: that a kubeconfig with credentials of its own would
  have the API judge those instead of the token of the request; `RemoteVerifier`
  assumes the configuration of a pod.
- *Demo, examples and deployment files* are no part of the program.

What is left to do: one request through both proxies of one sidecar as a single
composition. The two share no state but the configuration and the process, which
`Sidecar` models, so it would combine states and add no interaction.
