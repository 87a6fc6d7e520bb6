-------------------------------- MODULE MCSidecar --------------------------------
(* Configuration files: a small one that is accepted, and what one or two   *)
(* changes make of it, one set for every function that validates and one    *)
(* for the public paths, which none of them looks at.                       *)
EXTENDS Sidecar

MCStrings == STRING

\* The patterns among the strings, the methods and paths that each matches,
\* and the only pattern with a host.
AllPaths == {"/", "/health/", "/health/live", "/metrics", "/api/login", "/api/logout",
             "/web/login"}
Patterns ==
  LET all == {"GET", "POST"}  get == {"GET"}
      health == {"/health/", "/health/live"} IN
  [p \in {"/", "api.com/", "GET /", "/health/", "/health/live", "GET /health/live",
          "/metrics", "/api/login", "GET /api/login", "/api/{name}", "/{api}/login"} |->
     CASE p \in {"/", "api.com/"} -> all \X AllPaths
       [] p = "GET /"             -> get \X AllPaths
       [] p = "/health/"          -> all \X health
       [] p = "/health/live"      -> all \X {"/health/live"}
       [] p = "GET /health/live"  -> get \X {"/health/live"}
       [] p = "/metrics"          -> all \X {"/metrics"}
       [] p = "/api/login"        -> all \X {"/api/login"}
       [] p = "GET /api/login"    -> get \X {"/api/login"}
       [] p = "/api/{name}"       -> all \X {"/api/login", "/api/logout"}
       [] p = "/{api}/login"      -> all \X {"/api/login", "/web/login"}]
MCMatches(p) == IF p \in DOMAIN Patterns THEN Patterns[p] ELSE {}
MCHost(p) == IF p = "api.com/" THEN "api.com" ELSE ""

Spiffe(socket, ids, domain) ==
  [enabled |-> TRUE, socketPath |-> socket, ids |-> ids, trustDomain |-> domain]
AnySpiffe == {Nil, [Spiffe("", "", "") EXCEPT !.enabled = FALSE]} \union
  {Spiffe(s, i, d) : s \in {"", "tcp"}, i \in {"", "foreign", "malformed"},
                     d \in {"", "malformed"}}

NoMode == [type |-> "passthrough", file |-> Nil, oauth |-> Nil, vault |-> Nil]
FileMode(path, interval) ==
  [NoMode EXCEPT !.type = "file", !.file = [path |-> path, refreshInterval |-> interval]]
OAuthMode(url, ttl, method) ==
  [NoMode EXCEPT !.type = "oauth",
                 !.oauth = [tokenUrl |-> url, cacheTtl |-> ttl, clientAuthMethod |-> method]]
VaultMode(method, role, token, ttl) ==
  [NoMode EXCEPT !.type = "vault",
                 !.vault = [address |-> "http", path |-> "p", field |-> "", cacheTtl |-> ttl,
                            authMethod |-> method, role |-> role, token |-> token]]
AnyMode ==
  {[NoMode EXCEPT !.type = t] : t \in {"passthrough", "file", "oauth", "vault", "other"}}
  \union {FileMode(p, i) : p \in {"", "p"}, i \in {-1, 0, 60}}
  \union {OAuthMode(u, t, m) : u \in {"bad", "http"}, t \in {-1, 0, 600}, m \in {"", "other"}}
  \union {VaultMode(m, r, k, t) : m \in {"", "token", "kubernetes"}, r \in {"", "r"},
                                  k \in {"", "envRef", "secret"}, t \in {0, 300}}
  \union {[VaultMode("token", "", "secret", 300) EXCEPT !.vault.field = "f"]}

NoTLS == [enabled |-> FALSE, certFile |-> "", keyFile |-> "", spiffe |-> Nil]
NoClientTLS == [enabled |-> FALSE, certFile |-> "", keyFile |-> "", caFile |-> "", spiffe |-> Nil]

JWT(url, ttl) == [jwksUrl |-> url, issuer |-> "i", audience |-> "a", cacheTtl |-> ttl]
NoVerification == [mode |-> "jwt", jwt |-> Nil, introspection |-> Nil, kubernetes |-> Nil]
Introspection(secret) == [endpoint |-> "http", clientId |-> "c", clientSecret |-> secret]

Base ==
  [server |-> [reverseProxyPort |-> 0, reverseProxyBind |-> "",
               forwardProxyPort |-> 0, forwardProxyBind |-> "",
               readTimeout |-> 0, writeTimeout |-> 0,
               tls |-> NoTLS, clientTls |-> NoClientTLS, spiffe |-> Nil],
   reverseProxy |-> [backend |-> "http",
                     verification |-> [NoVerification EXCEPT !.jwt = JWT("http", 0)],
                     publicPaths |-> <<>>],
   forwardProxy |-> [defaultMode |-> NoMode, hostRules |-> <<>>],
   observability |-> [metrics |-> [enabled |-> FALSE, port |-> 0, path |-> ""],
                      tracing |-> [enabled |-> FALSE, endpoint |-> "", serviceName |-> ""],
                      logging |-> [level |-> "", format |-> ""]]]

ServerFiles ==
  {[Base EXCEPT !.server.reverseProxyPort = p, !.server.forwardProxyPort = q,
                !.server.reverseProxyBind = b, !.server.readTimeout = t] :
     p \in {0, 8081, 65536}, q \in {0, 8080}, b \in {"", "127.0.0.1", "noIP"}, t \in {-1, 0}}
TLSFiles ==
  {[Base EXCEPT !.server.tls = [enabled |-> e, certFile |-> c, keyFile |-> k, spiffe |-> s]] :
     e \in BOOLEAN, c \in {"", "missing", "there"}, k \in {"", "there"}, s \in AnySpiffe}
ClientFiles ==
  {[Base EXCEPT !.server.clientTls = [enabled |-> TRUE, certFile |-> c, keyFile |-> k,
                                      caFile |-> a, spiffe |-> s],
                !.server.spiffe = t, !.forwardProxy.hostRules = <<>>] :
     c \in {"", "there"}, k \in {"", "there"}, a \in {"", "missing", "there"},
     s \in {Nil, Spiffe("", "", "")}, t \in {Nil, Spiffe("", "", ""), Spiffe("tcp", "", "")}}
VerificationFiles ==
  {[Base EXCEPT !.reverseProxy = [backend |-> b, verification |-> v,
                                      publicPaths |-> <<>>]] :
     b \in {"http", "noHost"},
     v \in {[NoVerification EXCEPT !.mode = m] : m \in {"jwt", "introspection", "k8s", ""}}
           \union {[NoVerification EXCEPT !.jwt = JWT(u, t)] :
                     u \in {"noHost", "otherScheme"}, t \in {-1, 0}}
           \union {[NoVerification EXCEPT !.mode = "introspection", !.introspection = Introspection(s)] :
                     s \in {"", "envRef", "secret"}}
           \union {[NoVerification EXCEPT !.mode = "k8s", !.kubernetes = [verb |-> w, resource |-> "r"]] :
                     w \in {"get", "unknown"}}}
PublicFiles ==
  {[Base EXCEPT !.reverseProxy.publicPaths = paths] :
     paths \in {<<p, q>> : p, q \in DOMAIN Patterns} \union
               {<<p>> : p \in DOMAIN Patterns \union {"", "login", "/{"}}}
ForwardFiles ==
  {[Base EXCEPT !.forwardProxy.defaultMode = m] : m \in AnyMode}
  \union {[Base EXCEPT !.forwardProxy.hostRules = <<[hostPattern |-> p, mode |-> NoMode],
                                                    [hostPattern |-> "p", mode |-> m]>>,
                       !.server.spiffe = s] :
            p \in {"p", "q", "noRegexp"}, m \in AnyMode, s \in {Nil, Spiffe("", "", "")}}
ObservabilityFiles ==
  {[Base EXCEPT !.observability =
      [metrics |-> [enabled |-> e, port |-> p, path |-> q],
       tracing |-> [enabled |-> t, endpoint |-> n, serviceName |-> ""],
       logging |-> [level |-> l, format |-> ""]]] :
     e \in BOOLEAN, p \in {0, -1}, q \in {"", "metrics", "/metrics/{"}, t \in BOOLEAN,
     n \in {"", "n"}, l \in {"", "trace"}}

MCFiles == ServerFiles \union TLSFiles \union ClientFiles \union VerificationFiles
           \union PublicFiles \union ForwardFiles \union ObservabilityFiles
=============================================================================
