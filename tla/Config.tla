--------------------------------- MODULE Config ---------------------------------
(***************************************************************************)
(* internal/config: the configuration as parsed, its defaults, what        *)
(* Validate accepts, and Sanitize.                                         *)
(*                                                                         *)
(* A record stands for a struct, Nil for a pointer to a section that the   *)
(* file leaves out.  Data is reduced to what the code tells apart:         *)
(*   URLs      "" | "bad" | "otherScheme" | "noHost" | "http"              *)
(*   files     "" | "missing" | "there"                                    *)
(*   binds     "" | "noIP" | an address                                    *)
(*   secrets   "" | "envRef" (of a variable that is not set) | "secret"    *)
(*             | "redacted"                                                *)
(*   patterns of a ServeMux: as they are; Host and Matches say what of     *)
(*             them the mux sees                                           *)
(*   other names: "" when absent.                                          *)
(* Parsing and the expansion of variables that are set come before.        *)
(***************************************************************************)
EXTENDS Integers, Sequences

CONSTANTS
  Nil,          \* a nil pointer
  Strings,      \* what strings are reduced to, the defaults among them
  Host(_),      \* the host in a pattern of net/http, "" for none
  Matches(_)    \* the methods and paths a pattern matches: none if it is none

ASSUME ConfigAssumption ==
  {"unix", "0.0.0.0", "token", "/metrics", "info", "json", "klaviger"} \subseteq Strings

\* What the reverse proxy itself registers: all paths, and those below one.
ASSUME MuxAssumption ==
  /\ Host("/health/") = Host("/")
  /\ Matches("/health/") # {}
  /\ Matches("/health/") \subseteq Matches("/")
  /\ Matches("/health/") # Matches("/")

Present(section) == section # Nil

\* x.SPIFFE != nil && x.SPIFFE.Enabled
UsesSPIFFE(spiffe) == Present(spiffe) /\ spiffe.enabled

-----------------------------------------------------------------------------
(* The structs, with the fields that the code below reads.                 *)

Section(S) == S \union {Nil}

SPIFFEConfig == [enabled : BOOLEAN, socketPath : Strings, ids : Strings, trustDomain : Strings]
TLSConfig == [enabled : BOOLEAN, certFile : Strings, keyFile : Strings,
              spiffe : Section(SPIFFEConfig)]
ClientTLSConfig == [enabled : BOOLEAN, certFile : Strings, keyFile : Strings, caFile : Strings,
                    spiffe : Section(SPIFFEConfig)]
ServerConfig ==
  [reverseProxyPort : Int, reverseProxyBind : Strings,
   forwardProxyPort : Int, forwardProxyBind : Strings,
   readTimeout : Int, writeTimeout : Int,
   tls : TLSConfig, clientTls : ClientTLSConfig, spiffe : Section(SPIFFEConfig)]

JWTConfig == [jwksUrl : Strings, issuer : Strings, audience : Strings, cacheTtl : Int]

\* Sanitize never writes into this section of the configuration itself.
IntrospectionConfig ==
  [endpoint : Strings, clientId : Strings, clientSecret : {"", "envRef", "secret"}]

KubernetesConfig == [verb : Strings, resource : Strings]
VerificationConfig ==
  [mode : Strings, jwt : Section(JWTConfig), introspection : Section(IntrospectionConfig),
   kubernetes : Section(KubernetesConfig)]
ReverseProxyConfig ==
  [backend : Strings, verification : VerificationConfig, publicPaths : Seq(Strings)]

FileConfig == [path : Strings, refreshInterval : Int]
OAuthConfig == [tokenUrl : Strings, cacheTtl : Int, clientAuthMethod : Strings]
VaultConfig ==
  [address : Strings, path : Strings, field : Strings, cacheTtl : Int, authMethod : Strings,
   role : Strings, token : {"", "envRef", "secret", "redacted"}]
InjectionMode ==
  [type : Strings, file : Section(FileConfig), oauth : Section(OAuthConfig),
   vault : Section(VaultConfig)]
HostRule == [hostPattern : Strings, mode : InjectionMode]
ForwardProxyConfig == [defaultMode : InjectionMode, hostRules : Seq(HostRule)]

MetricsConfig == [enabled : BOOLEAN, port : Int, path : Strings]
TracingConfig == [enabled : BOOLEAN, endpoint : Strings, serviceName : Strings]
LoggingConfig == [level : Strings, format : Strings]
ObservabilityConfig == [metrics : MetricsConfig, tracing : TracingConfig, logging : LoggingConfig]

Configs ==
  [server : ServerConfig, reverseProxy : ReverseProxyConfig,
   forwardProxy : ForwardProxyConfig, observability : ObservabilityConfig]

-----------------------------------------------------------------------------
(* setDefaults                                                             *)

Default(value, absent, default) == IF value = absent THEN default ELSE value

DefaultSocket(spiffe) ==
  IF Present(spiffe)
  THEN [spiffe EXCEPT !.socketPath = Default(@, "", "unix")] ELSE Nil

\* server.tls and server.clientTls
DefaultTLS(tls) == [tls EXCEPT !.spiffe = DefaultSocket(@)]

DefaultServer(s) ==
  [s EXCEPT !.reverseProxyPort = Default(@, 0, 8080),
            !.reverseProxyBind = Default(@, "", "0.0.0.0"),
            !.forwardProxyPort = Default(@, 0, 8081),
            !.forwardProxyBind = Default(@, "", "0.0.0.0"),
            !.readTimeout = Default(@, 0, 30),
            !.writeTimeout = Default(@, 0, 30),
            !.spiffe = DefaultSocket(@),
            !.tls = DefaultTLS(@),
            !.clientTls = DefaultTLS(@)]

\* cacheTtl of a JWT verifier or an OAuth injector.
DefaultTTL(section, ttl) ==
  IF Present(section) THEN [section EXCEPT !.cacheTtl = Default(@, 0, ttl)] ELSE Nil

DefaultFile(file) ==
  IF Present(file) THEN [file EXCEPT !.refreshInterval = Default(@, 0, 60)] ELSE Nil

DefaultVault(vault) ==
  IF Present(vault)
  THEN [vault EXCEPT !.cacheTtl = Default(@, 0, 300),
                     !.field = Default(@, "", "token")] ELSE Nil

\* The settings of an injector, for host rules only.
DefaultInjection(m) ==
  [m EXCEPT !.file = DefaultFile(@),
            !.oauth = DefaultTTL(@, 600),
            !.vault = DefaultVault(@)]

DefaultRules(rules) ==
  [i \in DOMAIN rules |-> [rules[i] EXCEPT !.mode = DefaultInjection(@)]]

DefaultMetrics(m) == [m EXCEPT !.port = Default(@, 0, 9090), !.path = Default(@, "", "/metrics")]
DefaultLogging(l) == [l EXCEPT !.level = Default(@, "", "info"), !.format = Default(@, "", "json")]
DefaultTracing(t) == [t EXCEPT !.serviceName = Default(@, "", "klaviger")]
DefaultObservability(o) ==
  [o EXCEPT !.metrics = DefaultMetrics(@),
            !.logging = DefaultLogging(@),
            !.tracing = DefaultTracing(@)]

setDefaults(cfg) ==
  [cfg EXCEPT !.server = DefaultServer(@),
              !.reverseProxy.verification.jwt = DefaultTTL(@, 300),
              !.forwardProxy.hostRules = DefaultRules(@),
              !.observability = DefaultObservability(@)]

-----------------------------------------------------------------------------
(* Validate                                                                *)

ValidPort(p) == p \in 1 .. 65535
HTTPURL(u) == u \in {"http", "noHost"}

ValidSPIFFE(spiffe) ==
  spiffe.enabled =>
    /\ spiffe.socketPath = "unix"
    /\ spiffe.ids # "foreign"

FileBased(tls) == tls.certFile # "" \/ tls.keyFile # ""

ValidTLS(tls) ==
  /\ FileBased(tls) # UsesSPIFFE(tls.spiffe)
  /\ FileBased(tls) => tls.certFile = "there" /\ tls.keyFile = "there"
  /\ UsesSPIFFE(tls.spiffe) => ValidSPIFFE(tls.spiffe)

ValidClientTLS(tls) ==
  /\ ~((FileBased(tls) \/ tls.caFile # "") /\ UsesSPIFFE(tls.spiffe))
  /\ FileBased(tls) => tls.certFile = "there" /\ tls.keyFile = "there"
  /\ tls.caFile # "missing"
  /\ UsesSPIFFE(tls.spiffe) => ValidSPIFFE(tls.spiffe)

validateServer(s) ==
  /\ ValidPort(s.reverseProxyPort) /\ ValidPort(s.forwardProxyPort)
  /\ s.reverseProxyBind # "noIP" /\ s.forwardProxyBind # "noIP"
  /\ s.reverseProxyPort = s.forwardProxyPort => s.reverseProxyBind # s.forwardProxyBind
  /\ s.readTimeout > 0 /\ s.writeTimeout > 0
  /\ s.tls.enabled => ValidTLS(s.tls)
  /\ s.clientTls.enabled => ValidClientTLS(s.clientTls)
  /\ Present(s.spiffe) => ValidSPIFFE(s.spiffe)

ValidJWT(jwt) ==
  /\ HTTPURL(jwt.jwksUrl)
  /\ jwt.issuer # "" /\ jwt.audience # ""
  /\ jwt.cacheTtl > 0

ValidIntrospection(i) == HTTPURL(i.endpoint) /\ i.clientId # "" /\ i.clientSecret # ""

ValidKubernetes(k) == k.verb \notin {"", "unknown"} /\ k.resource # ""

validateVerification(v) ==
  \/ v.mode = "jwt" /\ Present(v.jwt) /\ ValidJWT(v.jwt)
  \/ v.mode = "introspection" /\ Present(v.introspection) /\ ValidIntrospection(v.introspection)
  \/ v.mode = "k8s" /\ Present(v.kubernetes) /\ ValidKubernetes(v.kubernetes)

validateReverseProxy(r) == r.backend = "http" /\ validateVerification(r.verification)

ValidOAuth(o) ==
  /\ HTTPURL(o.tokenUrl)
  /\ o.cacheTtl > 0
  /\ o.clientAuthMethod \in {"", "header", "assertion"}

ValidVault(v) ==
  /\ HTTPURL(v.address)
  /\ v.path # "" /\ v.field # ""
  /\ \/ v.authMethod = "kubernetes" /\ v.role # ""
     \/ v.authMethod = "token" /\ v.token # ""
  /\ v.cacheTtl > 0

\* Seeded fault: any interval is accepted.
validateInjectionModeAnyInterval(m) ==
  \/ m.type = "passthrough"
  \/ m.type = "file" /\ Present(m.file) /\ m.file.path # ""
  \/ m.type = "oauth" /\ Present(m.oauth) /\ ValidOAuth(m.oauth)
  \/ m.type = "vault" /\ Present(m.vault) /\ ValidVault(m.vault)

validateInjectionMode(m) ==
  \/ m.type = "passthrough"
  \/ m.type = "file" /\ Present(m.file) /\ m.file.path # "" /\ m.file.refreshInterval > 0
  \/ m.type = "oauth" /\ Present(m.oauth) /\ ValidOAuth(m.oauth)
  \/ m.type = "vault" /\ Present(m.vault) /\ ValidVault(m.vault)

validateForwardProxy(f) ==
  /\ validateInjectionMode(f.defaultMode)
  /\ \A i \in DOMAIN f.hostRules :
       LET rule == f.hostRules[i] IN
       /\ rule.hostPattern \notin {"", "noRegexp"}
       /\ \A j \in 1 .. (i - 1) : f.hostRules[j].hostPattern # rule.hostPattern
       /\ validateInjectionMode(rule.mode)

validateObservability(o) ==
  /\ o.metrics.enabled => ValidPort(o.metrics.port) /\ o.metrics.path # ""
  /\ o.tracing.enabled => o.tracing.endpoint # "" /\ o.tracing.serviceName # ""
  /\ o.logging.level \in {"debug", "info", "warn", "error"}
  /\ o.logging.format \in {"json", "console"}

Validate(cfg) ==
  /\ validateServer(cfg.server)
  /\ validateReverseProxy(cfg.reverseProxy)
  /\ validateForwardProxy(cfg.forwardProxy)
  /\ validateObservability(cfg.observability)

-----------------------------------------------------------------------------
(* Sanitize                                                                *)

redactSecret(s) == IF s \in {"", "envRef"} THEN s ELSE "redacted"

\* The introspection section is copied before its secret is redacted.
RedactIntrospection(i) ==
  IF Present(i) THEN [i EXCEPT !.clientSecret = redactSecret(@)] ELSE Nil

\* So is the Vault section of every rule, but into the one array of rules.
RedactVault(vault) ==
  IF Present(vault) THEN [vault EXCEPT !.token = redactSecret(@)] ELSE Nil
RedactRules(rules) ==
  [i \in DOMAIN rules |-> [rules[i] EXCEPT !.mode.vault = RedactVault(@)]]

\* Seeded fault: the rules are left out.
SanitizedIntrospectionOnly(cfg) ==
  [cfg EXCEPT !.reverseProxy.verification.introspection = RedactIntrospection(@)]

\* What Sanitize returns.
Sanitized(cfg) ==
  [cfg EXCEPT !.reverseProxy.verification.introspection = RedactIntrospection(@),
              !.forwardProxy.hostRules = RedactRules(@)]

\* What it leaves of the configuration it is given: HostRules is a slice, and
\* the copied struct shares its array.
AfterSanitize(cfg) ==
  [cfg EXCEPT !.forwardProxy.hostRules = Sanitized(cfg).forwardProxy.hostRules]

-----------------------------------------------------------------------------
(* What the factories make of a configuration.                             *)

\* NewVerifier finds its section.
VerifierBuilds(v) ==
  \/ v.mode = "jwt" /\ Present(v.jwt)
  \/ v.mode = "introspection" /\ Present(v.introspection)
  \/ v.mode = "k8s" /\ Present(v.kubernetes)

\* NewInjector finds its section; the ticker of a file injector panics on an
\* interval that is not positive; Vault needs a way to log in.
InjectorBuilds(m) ==
  \/ m.type = "passthrough"
  \/ m.type = "file" /\ Present(m.file) /\ m.file.refreshInterval > 0
  \/ m.type = "oauth" /\ Present(m.oauth)
  \/ /\ m.type = "vault" /\ Present(m.vault)
     /\ \/ m.vault.authMethod = "kubernetes"
        \/ m.vault.authMethod = "token" /\ m.vault.token # ""

\* ServeMux.Handle panics on a string that is no pattern (it is empty, has no
\* slash, an open brace, ...), and on a second pattern for the same requests
\* or for some of them, when neither pattern is the more specific one.
Parses(p) == Matches(p) # {}
Conflict(p, q) ==
  /\ Host(p) = Host(q)
  /\ Matches(p) \intersect Matches(q) # {}
  /\ Matches(p) \subseteq Matches(q) <=> Matches(q) \subseteq Matches(p)

\* A mux takes the patterns, one after the other.
MuxTakes(patterns) ==
  \A i \in DOMAIN patterns :
    /\ Parses(patterns[i])
    /\ \A j \in 1 .. (i - 1) : ~Conflict(patterns[j], patterns[i])

\* Handler of the reverse proxy registers the health endpoints, the public
\* paths and everything else.
HandlerBuilds(r) == MuxTakes(<<"/health/">> \o r.publicPaths \o <<"/">>)

\* Metrics enabled or not.
MetricsBuild(o) == MuxTakes(<<o.metrics.path>>)

\* GetServerTLSConfig parses the accepted ids and the trust domain.
ServerTLSBuilds(tls) ==
  (tls.enabled /\ UsesSPIFFE(tls.spiffe)) =>
    /\ tls.spiffe.ids # "malformed"
    /\ tls.spiffe.ids = "" => tls.spiffe.trustDomain # "malformed"

\* The injectors of the router, in the order it builds them.
Injectors(cfg) ==
  <<cfg.forwardProxy.defaultMode>> \o
  [i \in DOMAIN cfg.forwardProxy.hostRules |-> cfg.forwardProxy.hostRules[i].mode]
=============================================================================
