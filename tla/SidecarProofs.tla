----------------------------- MODULE SidecarProofs -----------------------------
(***************************************************************************)
(* The end of the process leaves no request behind unless time ran out,    *)
(* for any servers and clients; and a configuration that Validate accepts  *)
(* can be built, for every configuration there is.                         *)
(***************************************************************************)
EXTENDS Sidecar, TLAPS

-----------------------------------------------------------------------------
(* The servers                                                             *)

\* A server that is not there, and one that has drained, serve no request.
NoneLeft == \A s \in Servers : (serve[s] = "off" \/ stop[s] = "ok") => Busy(s) = {}

\* Only the context of Shutdown cuts a server off, and it has two reasons.
CutOffHasReason ==
  /\ \A s \in Servers : stop[s] = "error" => cutOff
  /\ cutOff => deadline \/ spiffe = "error"

\* Shutdown ends after all it started, and run() after Shutdown.
EndsInOrder ==
  /\ shutdown # "waiting" => ctxDone
  /\ shutdown \in {"ok", "error"} => \A s \in Servers : stop[s] \in {"ok", "error"}
  /\ shutdown = "ok" => \A s \in Servers : stop[s] = "ok"
  /\ exit = "ok" => shutdown = "ok"

ServerInv == TypeOK /\ NoneLeft /\ CutOffHasReason /\ EndsInOrder

(* A step of a server, of its shutdown or of the process.                  *)
LEMMA ServerStep ==
  ASSUME ServerInv, [Next]_vars
  PROVE  ServerInv'
<1> USE DEF ServerInv
<1>1. ASSUME NEW s \in Servers, Listen(s) \/ ServeFails(s) \/ ServeReturns(s)
      PROVE  ServerInv'
  <2>1. TypeOK'
    BY <1>1 DEF TypeOK, Listen, ServeFails, ServeReturns
  <2>2. NoneLeft'
    <3>1. UNCHANGED <<conn, stop>> /\ \A t \in Servers : serve'[t] = "off" => serve[t] = "off"
      BY <1>1 DEF TypeOK, Listen, ServeFails, ServeReturns
    <3>2. QED
      BY <3>1 DEF NoneLeft, Busy
  <2>3. CutOffHasReason' /\ EndsInOrder'
    BY <1>1 DEF CutOffHasReason, EndsInOrder, Listen, ServeFails, ServeReturns
  <2>4. QED
    BY <2>1, <2>2, <2>3
<1>2. ASSUME NEW s \in Servers, Stop(s) PROVE ServerInv'
  <2>1. TypeOK'
    BY <1>2 DEF TypeOK, Stop, CloseListener, Drained, DrainCutOff
  <2>2. NoneLeft'
    <3>1. /\ UNCHANGED <<conn, serve>>
          /\ \A t \in Servers : stop'[t] = "ok" => (stop[t] = "ok" \/ Busy(t) = {})
      BY <1>2 DEF TypeOK, Stop, CloseListener, Drained, DrainCutOff
    <3>2. QED
      BY <3>1 DEF NoneLeft, Busy
  <2>3. CutOffHasReason'
    BY <1>2 DEF TypeOK, CutOffHasReason, Stop, CloseListener, Drained, DrainCutOff
  <2>4. EndsInOrder'
    BY <1>2 DEF TypeOK, EndsInOrder, Stop, CloseListener, Drained, DrainCutOff
  <2>5. QED
    BY <2>1, <2>2, <2>3, <2>4
<1>3. CASE Signal
  BY <1>3 DEF Signal, TypeOK, NoneLeft, Busy, CutOffHasReason, EndsInOrder
<1>4. CASE BeginShutdown
  <2>1. TypeOK'
    BY <1>4 DEF TypeOK, BeginShutdown
  <2>2. NoneLeft'
    BY <1>4 DEF TypeOK, NoneLeft, Busy, BeginShutdown
  <2>3. CutOffHasReason' /\ EndsInOrder'
    BY <1>4 DEF TypeOK, CutOffHasReason, EndsInOrder, BeginShutdown
  <2>4. QED
    BY <2>1, <2>2, <2>3
<1>5. CASE CloseSPIFFE
  <2>1. /\ UNCHANGED <<serve, conn, ctxDone, stop, shutdown, deadline, exit>>
        /\ \/ spiffe' = "closed" /\ cutOff' = cutOff
           \/ spiffe' = "error" /\ cutOff' = TRUE
        /\ spiffe # "error"
    BY <1>5 DEF CloseSPIFFE
  <2>2. TypeOK'
    BY <2>1 DEF TypeOK
  <2>3. NoneLeft' /\ EndsInOrder'
    BY <2>1 DEF NoneLeft, Busy, EndsInOrder
  <2>4. CutOffHasReason'
    BY <2>1 DEF CutOffHasReason
  <2>5. QED
    BY <2>2, <2>3, <2>4
<1>6. CASE Timeout
  BY <1>6 DEF Timeout, TypeOK, NoneLeft, Busy, CutOffHasReason, EndsInOrder
<1>7. CASE EndShutdown
  BY <1>7 DEF EndShutdown, TypeOK, NoneLeft, Busy, CutOffHasReason, EndsInOrder
<1>8. CASE Exit
  BY <1>8 DEF Exit, TypeOK, NoneLeft, Busy, CutOffHasReason, EndsInOrder
<1>9. ASSUME NEW c \in Connections, Request(c) \/ Hijack(c) \/ Done(c)
      PROVE  ServerInv'
  <2>1. TypeOK'
    <3>1. CASE Request(c)
      BY <3>1 DEF TypeOK, Request
    <3>2. CASE Hijack(c)
      BY <3>2 DEF TypeOK, Hijack
    <3>3. CASE Done(c)
      BY <3>3 DEF TypeOK, Done, NoConn
    <3>4. QED
      BY <1>9, <3>1, <3>2, <3>3
  <2>2. NoneLeft'
    <3>1. ASSUME NEW s \in Servers, (serve[s] = "off" \/ stop[s] = "ok")
          PROVE  Busy(s)' = {}
      <4>1. ASSUME NEW d \in Connections PROVE conn'[d] # [at |-> s, doing |-> "request"]
        <5>1. conn[d] # [at |-> s, doing |-> "request"]
          BY <3>1 DEF NoneLeft, Busy
        <5>2. CASE Request(c)
          <6>1. PICK t \in Servers :
                  /\ serve[t] = "listening" /\ ~ShuttingDown(t)
                  /\ conn' = [conn EXCEPT ![c] = [at |-> t, doing |-> "request"]]
            BY <5>2 DEF Request
          <6>2. t # s
            BY <3>1, <6>1 DEF ShuttingDown
          <6>3. QED
            BY <5>1, <6>1, <6>2 DEF TypeOK
        <5>3. CASE Hijack(c)
          BY <5>1, <5>3 DEF Hijack, TypeOK
        <5>4. CASE Done(c)
          BY <5>1, <5>4 DEF Done, NoConn, TypeOK
        <5>5. QED
          BY <1>9, <5>2, <5>3, <5>4
      <4>2. QED
        BY <4>1 DEF Busy
    <3>2. UNCHANGED <<serve, stop>>
      BY <1>9 DEF Request, Hijack, Done
    <3>3. QED
      BY <3>1, <3>2 DEF NoneLeft
  <2>3. CutOffHasReason' /\ EndsInOrder'
    BY <1>9 DEF CutOffHasReason, EndsInOrder, Request, Hijack, Done
  <2>4. QED
    BY <2>1, <2>2, <2>3
<1>10. CASE UNCHANGED vars
  BY <1>10 DEF vars, TypeOK, NoneLeft, Busy, CutOffHasReason, EndsInOrder
<1>11. QED
  BY <1>1, <1>2, <1>3, <1>4, <1>5, <1>6, <1>7, <1>8, <1>9, <1>10 DEF Next, Serve, Clients

(* When the process ends a request is cut off for a reason only.           *)
LEMMA DrainedByInv == ServerInv => RequestsDrained
<1> SUFFICES ASSUME ServerInv, NEW s \in Servers, ~Running, Busy(s) # {}
             PROVE  (deadline \/ spiffe = "error") /\ exit = "error"
  BY DEF RequestsDrained
<1>1. shutdown \in {"ok", "error"} /\ exit \in {"ok", "error"}
  BY DEF ServerInv, TypeOK, Running
<1>2. stop[s] = "error"
  BY <1>1 DEF ServerInv, EndsInOrder, NoneLeft
<1>3. QED
  BY <1>1, <1>2 DEF ServerInv, EndsInOrder, CutOffHasReason

-----------------------------------------------------------------------------
(* The configuration                                                       *)

(* The defaults of each section keep the types of its fields.              *)
LEMMA DefaultSocketTyped ==
  ASSUME NEW x \in Section(SPIFFEConfig)
  PROVE  DefaultSocket(x) \in Section(SPIFFEConfig)
BY ConfigAssumption DEF DefaultSocket, Default, Section, SPIFFEConfig, Present

LEMMA DefaultTLSTyped ==
  /\ \A x \in TLSConfig : DefaultTLS(x) \in TLSConfig
  /\ \A x \in ClientTLSConfig : DefaultTLS(x) \in ClientTLSConfig
<1>1. ASSUME NEW x \in TLSConfig PROVE DefaultTLS(x) \in TLSConfig
  <2>1. x.spiffe \in Section(SPIFFEConfig)
    BY DEF TLSConfig
  <2>2. DefaultSocket(x.spiffe) \in Section(SPIFFEConfig)
    BY <2>1, DefaultSocketTyped
  <2>3. QED
    BY <2>2 DEF DefaultTLS, TLSConfig
<1>2. ASSUME NEW x \in ClientTLSConfig PROVE DefaultTLS(x) \in ClientTLSConfig
  <2>1. x.spiffe \in Section(SPIFFEConfig)
    BY DEF ClientTLSConfig
  <2>2. DefaultSocket(x.spiffe) \in Section(SPIFFEConfig)
    BY <2>1, DefaultSocketTyped
  <2>3. QED
    BY <2>2 DEF DefaultTLS, ClientTLSConfig
<1>3. QED
  BY <1>1, <1>2

LEMMA DefaultServerTyped ==
  ASSUME NEW x \in ServerConfig
  PROVE  DefaultServer(x) \in ServerConfig
<1>1. x.tls \in TLSConfig /\ x.clientTls \in ClientTLSConfig /\ x.spiffe \in Section(SPIFFEConfig)
  BY DEF ServerConfig
<1>2. /\ x.reverseProxyPort \in Int /\ x.forwardProxyPort \in Int
      /\ x.readTimeout \in Int /\ x.writeTimeout \in Int
  BY DEF ServerConfig
<1>3. x.reverseProxyBind \in Strings /\ x.forwardProxyBind \in Strings
  BY DEF ServerConfig
<1> DEFINE p == Default(x.reverseProxyPort, 0, 8080)
           q == Default(x.forwardProxyPort, 0, 8081)
           t == Default(x.readTimeout, 0, 30)
           u == Default(x.writeTimeout, 0, 30)
           b == Default(x.reverseProxyBind, "", "0.0.0.0")
           c == Default(x.forwardProxyBind, "", "0.0.0.0")
           k == DefaultSocket(x.spiffe)
           l == DefaultTLS(x.tls)
           m == DefaultTLS(x.clientTls)
<1>4. p \in Int /\ q \in Int /\ t \in Int /\ u \in Int
  BY <1>2 DEF Default
<1>5. b \in Strings /\ c \in Strings
  BY <1>3, ConfigAssumption DEF Default
<1>6. k \in Section(SPIFFEConfig) /\ l \in TLSConfig /\ m \in ClientTLSConfig
  BY <1>1, DefaultSocketTyped, DefaultTLSTyped
<1>7. DefaultServer(x) =
        [x EXCEPT !.reverseProxyPort = p, !.reverseProxyBind = b,
                  !.forwardProxyPort = q, !.forwardProxyBind = c,
                  !.readTimeout = t, !.writeTimeout = u,
                  !.spiffe = k, !.tls = l, !.clientTls = m]
  BY DEF DefaultServer
<1> HIDE DEF p, q, t, u, b, c, k, l, m
<1> DEFINE y == [x EXCEPT !.reverseProxyPort = p, !.reverseProxyBind = b,
                          !.forwardProxyPort = q, !.forwardProxyBind = c,
                          !.readTimeout = t, !.writeTimeout = u]
<1>8. y \in ServerConfig
  BY <1>4, <1>5 DEF ServerConfig
<1>9. DefaultServer(x) = [y EXCEPT !.spiffe = k, !.tls = l, !.clientTls = m]
  BY <1>7
<1> HIDE DEF y
<1>10. QED
  BY <1>6, <1>8, <1>9 DEF ServerConfig

LEMMA DefaultTTLTyped ==
  ASSUME NEW ttl \in Int
  PROVE  /\ \A x \in Section(JWTConfig) : DefaultTTL(x, ttl) \in Section(JWTConfig)
         /\ \A x \in Section(OAuthConfig) : DefaultTTL(x, ttl) \in Section(OAuthConfig)
<1>1. ASSUME NEW x \in JWTConfig PROVE [x EXCEPT !.cacheTtl = Default(@, 0, ttl)] \in JWTConfig
  BY DEF JWTConfig, Default
<1>2. ASSUME NEW x \in OAuthConfig PROVE [x EXCEPT !.cacheTtl = Default(@, 0, ttl)] \in OAuthConfig
  BY DEF OAuthConfig, Default
<1>3. QED
  BY <1>1, <1>2 DEF DefaultTTL, Section, Present

LEMMA DefaultVaultTyped ==
  ASSUME NEW x \in Section(VaultConfig)
  PROVE  DefaultVault(x) \in Section(VaultConfig)
<1>1. CASE x \in VaultConfig /\ Present(x)
  <2> DEFINE t == Default(x.cacheTtl, 0, 300)
             f == Default(x.field, "", "token")
  <2>1. x.cacheTtl \in Int /\ x.field \in Strings
    BY <1>1 DEF VaultConfig
  <2>2. t \in Int
    BY <2>1 DEF Default
  <2>3. f \in Strings
    BY <2>1, ConfigAssumption DEF Default
  <2>4. DefaultVault(x) = [x EXCEPT !.cacheTtl = t, !.field = f]
    BY <1>1, Zenon DEF DefaultVault
  <2> HIDE DEF t, f
  <2>5. [x EXCEPT !.cacheTtl = t, !.field = f] \in VaultConfig
    BY <1>1, <2>2, <2>3 DEF VaultConfig
  <2>6. QED
    BY <2>4, <2>5 DEF Section
<1>2. CASE ~Present(x)
  BY <1>2 DEF DefaultVault, Section
<1>3. QED
  BY <1>1, <1>2 DEF Section, Present

LEMMA DefaultInjectionTyped ==
  ASSUME NEW x \in InjectionMode
  PROVE  DefaultInjection(x) \in InjectionMode
<1>1. /\ x.file \in Section(FileConfig)
      /\ x.oauth \in Section(OAuthConfig)
      /\ x.vault \in Section(VaultConfig)
  BY DEF InjectionMode
<1>2. DefaultFile(x.file) \in Section(FileConfig)
  BY <1>1 DEF DefaultFile, Default, Section, FileConfig, Present
<1>3. DefaultTTL(x.oauth, 600) \in Section(OAuthConfig)
  BY <1>1, DefaultTTLTyped
<1>4. DefaultVault(x.vault) \in Section(VaultConfig)
  BY <1>1, DefaultVaultTyped
<1> DEFINE f == DefaultFile(x.file)
           o == DefaultTTL(x.oauth, 600)
           v == DefaultVault(x.vault)
<1>5. DefaultInjection(x) = [x EXCEPT !.file = f, !.oauth = o, !.vault = v]
  BY DEF DefaultInjection
<1> HIDE DEF f, o, v
<1>6. f \in Section(FileConfig) /\ o \in Section(OAuthConfig) /\ v \in Section(VaultConfig)
  BY <1>2, <1>3, <1>4 DEF f, o, v
<1>7. QED
  BY <1>5, <1>6 DEF InjectionMode

LEMMA DefaultObservabilityTyped ==
  ASSUME NEW x \in ObservabilityConfig
  PROVE  DefaultObservability(x) \in ObservabilityConfig
<1>1. x.metrics \in MetricsConfig /\ x.logging \in LoggingConfig /\ x.tracing \in TracingConfig
  BY DEF ObservabilityConfig
<1>2. DefaultMetrics(x.metrics) \in MetricsConfig
  <2> DEFINE p == Default(x.metrics.port, 0, 9090)
             q == Default(x.metrics.path, "", "/metrics")
  <2>1. x.metrics.port \in Int /\ x.metrics.path \in Strings
    BY <1>1 DEF MetricsConfig
  <2>2. p \in Int
    BY <2>1 DEF Default
  <2>3. q \in Strings
    BY <2>1, ConfigAssumption DEF Default
  <2>4. DefaultMetrics(x.metrics) = [x.metrics EXCEPT !.port = p, !.path = q]
    BY Zenon DEF DefaultMetrics
  <2> HIDE DEF p, q
  <2>5. QED
    BY <1>1, <2>2, <2>3, <2>4 DEF MetricsConfig
<1>3. DefaultLogging(x.logging) \in LoggingConfig
  <2>1. x.logging.level \in Strings /\ x.logging.format \in Strings
    BY <1>1 DEF LoggingConfig
  <2>2. /\ Default(x.logging.level, "", "info") \in Strings
        /\ Default(x.logging.format, "", "json") \in Strings
    BY <2>1, ConfigAssumption DEF Default
  <2>3. QED
    BY <1>1, <2>2 DEF LoggingConfig, DefaultLogging
<1>4. DefaultTracing(x.tracing) \in TracingConfig
  <2>1. x.tracing.serviceName \in Strings
    BY <1>1 DEF TracingConfig
  <2>2. Default(x.tracing.serviceName, "", "klaviger") \in Strings
    BY <2>1, ConfigAssumption DEF Default
  <2>3. QED
    BY <1>1, <2>2 DEF TracingConfig, DefaultTracing
<1>5. QED
  BY <1>1, <1>2, <1>3, <1>4 DEF DefaultObservability, ObservabilityConfig

(* The rules stay a sequence of rules when each is given another mode.     *)
LEMMA RulesTyped ==
  ASSUME NEW rules \in Seq(HostRule), NEW new,
         DOMAIN new = DOMAIN rules,
         new = [i \in DOMAIN rules |-> new[i]],
         \A i \in DOMAIN rules : new[i] \in HostRule
  PROVE  new \in Seq(HostRule) /\ Len(new) = Len(rules)
<1>1. DOMAIN new = 1 .. Len(rules) /\ Len(rules) \in Nat
  OBVIOUS
<1>2. new \in [1 .. Len(rules) -> HostRule]
  BY <1>1
<1>3. QED
  BY <1>1, <1>2

(* setDefaults keeps the type of a configuration.                          *)
LEMMA DefaultsTyped ==
  ASSUME NEW f \in Configs
  PROVE  setDefaults(f) \in Configs
<1> DEFINE v == [f.reverseProxy.verification EXCEPT !.jwt = DefaultTTL(@, 300)]
           r == [f.reverseProxy EXCEPT !.verification = v]
           w == [f.forwardProxy EXCEPT !.hostRules = DefaultRules(@)]
<1>1. /\ f.server \in ServerConfig
      /\ f.reverseProxy \in ReverseProxyConfig
      /\ f.forwardProxy \in ForwardProxyConfig
      /\ f.observability \in ObservabilityConfig
  BY DEF Configs
<1>2. r \in ReverseProxyConfig
  <2>1. f.reverseProxy.verification \in VerificationConfig
    BY <1>1 DEF ReverseProxyConfig
  <2>2. DefaultTTL(f.reverseProxy.verification.jwt, 300) \in Section(JWTConfig)
    BY <2>1, DefaultTTLTyped DEF VerificationConfig
  <2>3. v \in VerificationConfig
    BY <2>1, <2>2 DEF VerificationConfig
  <2> HIDE DEF v
  <2>4. QED
    BY <1>1, <2>3 DEF ReverseProxyConfig
<1>3. w \in ForwardProxyConfig
  <2> DEFINE rules == f.forwardProxy.hostRules
  <2>1. rules \in Seq(HostRule)
    BY <1>1 DEF ForwardProxyConfig
  <2>2. \A i \in DOMAIN rules : DefaultRules(rules)[i] \in HostRule
    <3>1. ASSUME NEW i \in DOMAIN rules PROVE DefaultRules(rules)[i] \in HostRule
      <4>1. rules[i] \in HostRule
        BY <2>1
      <4>2. DefaultInjection(rules[i].mode) \in InjectionMode
        BY <4>1, DefaultInjectionTyped DEF HostRule
      <4>3. QED
        BY <4>1, <4>2 DEF DefaultRules, HostRule
    <3>2. QED
      BY <3>1
  <2>3. DOMAIN DefaultRules(rules) = DOMAIN rules
    BY DEF DefaultRules
  <2>4. DefaultRules(rules) = [i \in DOMAIN rules |-> DefaultRules(rules)[i]]
    BY DEF DefaultRules
  <2>5. DefaultRules(rules) \in Seq(HostRule)
    BY <2>1, <2>2, <2>3, <2>4, RulesTyped
  <2>6. QED
    BY <1>1, <2>5 DEF ForwardProxyConfig
<1>4. DefaultServer(f.server) \in ServerConfig
  BY <1>1, DefaultServerTyped
<1>5. DefaultObservability(f.observability) \in ObservabilityConfig
  BY <1>1, DefaultObservabilityTyped
<1>6. setDefaults(f) = [f EXCEPT !.server = DefaultServer(f.server), !.reverseProxy = r,
                                 !.forwardProxy = w,
                                 !.observability = DefaultObservability(f.observability)]
  BY <1>1 DEF setDefaults, Configs
<1> HIDE DEF r, w
<1>7. QED
  BY <1>2, <1>3, <1>4, <1>5, <1>6 DEF Configs

\* The rule that redacting leaves of a rule.
RedactedRule(r) == [r EXCEPT !.mode = [r.mode EXCEPT !.vault = RedactVault(r.mode.vault)]]

LEMMA RedactedRuleTyped ==
  ASSUME NEW r \in HostRule
  PROVE  RedactedRule(r) \in HostRule
<1>1. r.mode \in InjectionMode
  BY DEF HostRule
<1>2. r.mode.vault \in Section(VaultConfig)
  BY <1>1 DEF InjectionMode
<1>3. RedactVault(r.mode.vault) \in Section(VaultConfig)
  BY <1>2 DEF RedactVault, redactSecret, Section, Present, VaultConfig
<1>4. [r.mode EXCEPT !.vault = RedactVault(r.mode.vault)] \in InjectionMode
  BY <1>1, <1>3 DEF InjectionMode
<1>5. QED
  BY <1>4 DEF RedactedRule, HostRule

(* What Sanitize leaves of a configuration: the rest is as it was, and the *)
(* rules are as many, of the same types, with the same other fields.       *)
LEMMA SanitizeKeeps ==
  ASSUME NEW f \in Configs
  PROVE  /\ AfterSanitize(f) \in Configs
         /\ AfterSanitize(f).reverseProxy = f.reverseProxy
         /\ AfterSanitize(f).server = f.server
         /\ AfterSanitize(f).observability = f.observability
         /\ AfterSanitize(f).forwardProxy.defaultMode = f.forwardProxy.defaultMode
         /\ AfterSanitize(f).forwardProxy.hostRules = RedactRules(f.forwardProxy.hostRules)
         /\ Sanitized(f).forwardProxy.hostRules = RedactRules(f.forwardProxy.hostRules)
         /\ Sanitized(f).reverseProxy.verification.introspection =
              RedactIntrospection(f.reverseProxy.verification.introspection)
         /\ RedactRules(f.forwardProxy.hostRules) \in Seq(HostRule)
<1> DEFINE rules == f.forwardProxy.hostRules
<1>1. /\ f.forwardProxy \in ForwardProxyConfig
      /\ f.reverseProxy \in ReverseProxyConfig
      /\ f.reverseProxy.verification \in VerificationConfig
      /\ rules \in Seq(HostRule)
  BY DEF Configs, ForwardProxyConfig, ReverseProxyConfig
<1>2. RedactRules(rules) \in Seq(HostRule)
  <2>1. ASSUME NEW i \in DOMAIN rules PROVE RedactRules(rules)[i] \in HostRule
    <3>1. rules[i] \in HostRule
      BY <1>1
    <3>2. RedactRules(rules)[i] = RedactedRule(rules[i])
      BY <3>1 DEF RedactRules, RedactedRule, HostRule
    <3>3. QED
      BY <3>1, <3>2, RedactedRuleTyped
  <2>2. DOMAIN RedactRules(rules) = DOMAIN rules
    BY DEF RedactRules
  <2>3. RedactRules(rules) = [i \in DOMAIN rules |-> RedactRules(rules)[i]]
    BY DEF RedactRules
  <2>4. QED
    BY <1>1, <2>1, <2>2, <2>3, RulesTyped
<1>3. /\ Sanitized(f).forwardProxy.hostRules = RedactRules(rules)
      /\ Sanitized(f).reverseProxy.verification.introspection =
           RedactIntrospection(f.reverseProxy.verification.introspection)
  BY <1>1 DEF Sanitized, Configs, ForwardProxyConfig, ReverseProxyConfig, VerificationConfig
<1>4. AfterSanitize(f) = [f EXCEPT !.forwardProxy =
                            [f.forwardProxy EXCEPT !.hostRules = RedactRules(rules)]]
  BY <1>1, <1>3 DEF AfterSanitize, Configs
<1>5. [f.forwardProxy EXCEPT !.hostRules = RedactRules(rules)] \in ForwardProxyConfig
  BY <1>1, <1>2 DEF ForwardProxyConfig
<1>6. AfterSanitize(f) \in Configs
  BY <1>4, <1>5 DEF Configs
<1>7. /\ AfterSanitize(f).reverseProxy = f.reverseProxy
      /\ AfterSanitize(f).server = f.server
      /\ AfterSanitize(f).observability = f.observability
      /\ AfterSanitize(f).forwardProxy.defaultMode = f.forwardProxy.defaultMode
      /\ AfterSanitize(f).forwardProxy.hostRules = RedactRules(rules)
  BY <1>1, <1>4 DEF Configs, ForwardProxyConfig
<1>8. QED
  BY <1>2, <1>3, <1>6, <1>7

(* The injectors of the router: one for the default mode and one per rule. *)
LEMMA InjectorsOf ==
  ASSUME NEW f \in Configs
  PROVE  /\ Len(Injectors(f)) \in Nat /\ Len(Injectors(f)) > 0
         /\ Injectors(f)[1] = f.forwardProxy.defaultMode
         /\ \A i \in 2 .. Len(Injectors(f)) :
              /\ i - 1 \in DOMAIN f.forwardProxy.hostRules
              /\ Injectors(f)[i] = f.forwardProxy.hostRules[i - 1].mode
<1> DEFINE rules == f.forwardProxy.hostRules
           modes == [i \in DOMAIN rules |-> rules[i].mode]
<1>1. rules \in Seq(HostRule) /\ f.forwardProxy.defaultMode \in InjectionMode
  BY DEF Configs, ForwardProxyConfig
<1>2. DOMAIN rules = 1 .. Len(rules) /\ Len(rules) \in Nat
  BY <1>1
<1>3. modes \in [1 .. Len(rules) -> InjectionMode]
  <2>1. \A i \in 1 .. Len(rules) : rules[i] \in HostRule
    BY <1>1, <1>2
  <2>2. \A x \in HostRule : x.mode \in InjectionMode
    BY DEF HostRule
  <2>3. \A i \in 1 .. Len(rules) : rules[i].mode \in InjectionMode
    BY <2>1, <2>2
  <2>4. QED
    BY <1>2, <2>3
<1>4. modes \in Seq(InjectionMode) /\ Len(modes) = Len(rules)
  BY <1>2, <1>3
<1>5. \A i \in 1 .. Len(rules) : modes[i] = rules[i].mode
  BY <1>2
<1>6. Injectors(f) = <<f.forwardProxy.defaultMode>> \o modes
  BY DEF Injectors
<1> HIDE DEF modes
<1>7. QED
  BY <1>1, <1>2, <1>4, <1>5, <1>6

-----------------------------------------------------------------------------
(* What is validated can be built                                          *)

Buildable(f) ==
  /\ VerifierBuilds(f.reverseProxy.verification)
  /\ InjectorBuilds(f.forwardProxy.defaultMode)
  /\ \A i \in DOMAIN f.forwardProxy.hostRules :
       InjectorBuilds(f.forwardProxy.hostRules[i].mode)

(* Every section and every number a factory needs has been looked at.      *)
LEMMA ValidBuilds ==
  ASSUME NEW f, Validate(f)
  PROVE  Buildable(f)
<1>1. ASSUME NEW m, validateInjectionMode(m) PROVE InjectorBuilds(m)
  BY <1>1 DEF validateInjectionMode, InjectorBuilds, ValidVault
<1>2. validateVerification(f.reverseProxy.verification)
  BY DEF Validate, validateReverseProxy
<1>3. validateForwardProxy(f.forwardProxy)
  BY DEF Validate
<1>4. VerifierBuilds(f.reverseProxy.verification)
  BY <1>2 DEF validateVerification, VerifierBuilds
<1>5. QED
  BY <1>1, <1>3, <1>4 DEF validateForwardProxy, Buildable

(* A redacted token is a token.                                            *)
LEMMA SanitizeBuilds ==
  ASSUME NEW f \in Configs, Buildable(f)
  PROVE  Buildable(AfterSanitize(f))
<1> DEFINE rules == f.forwardProxy.hostRules
<1>1. rules \in Seq(HostRule)
  BY DEF Configs, ForwardProxyConfig
<1>2. ASSUME NEW i \in DOMAIN rules PROVE InjectorBuilds(RedactRules(rules)[i].mode)
  <2> DEFINE m == rules[i].mode
             n == RedactRules(rules)[i].mode
  <2>1. rules[i] \in HostRule
    BY <1>1
  <2>2. m \in InjectionMode
    BY <2>1 DEF HostRule
  <2>3. n = [m EXCEPT !.vault = RedactVault(m.vault)]
    BY <2>1 DEF RedactRules, HostRule
  <2>4. InjectorBuilds(m)
    BY DEF Buildable
  <2> HIDE DEF m, n
  <2>5. n.type = m.type /\ n.file = m.file /\ n.oauth = m.oauth /\ n.vault = RedactVault(m.vault)
    BY <2>2, <2>3 DEF InjectionMode
  <2>6. ASSUME Present(m.vault)
        PROVE  /\ Present(n.vault)
               /\ n.vault.authMethod = m.vault.authMethod
               /\ m.vault.token # "" => n.vault.token # ""
    <3>1. m.vault \in VaultConfig
      BY <2>2, <2>6 DEF InjectionMode, Section, Present
    <3>2. n.vault = [m.vault EXCEPT !.token = redactSecret(m.vault.token)]
      BY <2>5, <2>6 DEF RedactVault
    <3>3. /\ redactSecret(m.vault.token) \in {"", "envRef", "secret", "redacted"}
          /\ m.vault.token # "" => redactSecret(m.vault.token) # ""
      BY <3>1 DEF VaultConfig, redactSecret
    <3>4. n.vault \in VaultConfig
      BY <3>1, <3>2, <3>3 DEF VaultConfig
    <3>5. Present(n.vault)
      BY <3>4, FilesAssumption DEF Present
    <3>6. QED
      BY <3>1, <3>2, <3>3, <3>5 DEF VaultConfig
  <2>7. InjectorBuilds(n)
    BY <2>4, <2>5, <2>6 DEF InjectorBuilds
  <2>8. QED
    BY <2>7 DEF n
<1>3. DOMAIN RedactRules(rules) = DOMAIN rules
  BY DEF RedactRules
<1>4. QED
  BY <1>2, <1>3, SanitizeKeeps DEF Buildable

(* So the router builds every injector it comes to.                        *)
LEMMA NextBuilds ==
  ASSUME cfg \in Configs, Buildable(cfg), built \in Nat, built < Len(Injectors(cfg))
  PROVE  InjectorBuilds(NextInjector)
<1>1. CASE built = 0
  BY <1>1, InjectorsOf DEF NextInjector, Buildable
<1>2. CASE built > 0
  <2>1. built + 1 \in 2 .. Len(Injectors(cfg))
    BY <1>2, InjectorsOf
  <2>2. /\ built \in DOMAIN cfg.forwardProxy.hostRules
        /\ NextInjector = cfg.forwardProxy.hostRules[built].mode
    BY <2>1, InjectorsOf DEF NextInjector
  <2>3. QED
    BY <2>2 DEF Buildable
<1>3. QED
  BY <1>1, <1>2

(* No secret of the introspection client or of a rule is in the copy.      *)
LEMMA SanitizeRedacts ==
  ASSUME stage = "log", cfg \in Configs, Log
  PROVE  LoggedCopyRedacted'
<1> DEFINE i == cfg.reverseProxy.verification.introspection
           rules == cfg.forwardProxy.hostRules
<1>1. logged' = Sanitized(cfg) /\ cfg' = AfterSanitize(cfg)
  BY DEF Log
<1>2. /\ logged'.reverseProxy.verification.introspection = RedactIntrospection(i)
      /\ cfg'.reverseProxy.verification.introspection = i
      /\ logged'.forwardProxy.hostRules = RedactRules(rules)
  BY <1>1, SanitizeKeeps
<1>3. i \in Section(IntrospectionConfig) /\ rules \in Seq(HostRule)
  <2>1. cfg.reverseProxy.verification \in VerificationConfig
    BY DEF Configs, ReverseProxyConfig
  <2>2. QED
    BY <2>1 DEF VerificationConfig, Configs, ForwardProxyConfig
<1>4. ASSUME Present(RedactIntrospection(i))
      PROVE  RedactIntrospection(i).clientSecret # "secret" /\ i.clientSecret # "redacted"
  <2>1. i \in IntrospectionConfig /\ Present(i)
    BY <1>3, <1>4 DEF RedactIntrospection, Section, Present
  <2>2. RedactIntrospection(i) = [i EXCEPT !.clientSecret = redactSecret(i.clientSecret)]
    BY <2>1 DEF RedactIntrospection
  <2>3. i.clientSecret \in {"", "envRef", "secret"}
    BY <2>1 DEF IntrospectionConfig
  <2>4. RedactIntrospection(i).clientSecret = redactSecret(i.clientSecret)
    BY <2>1, <2>2 DEF IntrospectionConfig
  <2>5. QED
    BY <2>3, <2>4 DEF redactSecret
<1>5. ASSUME NEW k \in DOMAIN RedactRules(rules),
             Present(RedactRules(rules)[k].mode.vault)
      PROVE  RedactRules(rules)[k].mode.vault.token # "secret"
  <2> DEFINE v == rules[k].mode.vault
  <2>1. k \in DOMAIN rules
    BY DEF RedactRules
  <2>2. rules[k] \in HostRule
    BY <1>3, <2>1
  <2>3. rules[k].mode \in InjectionMode
    BY <2>2 DEF HostRule
  <2>4. v \in Section(VaultConfig)
    BY <2>3 DEF InjectionMode
  <2>5. RedactRules(rules)[k].mode.vault = RedactVault(v)
    BY <2>1, <2>2, <2>3 DEF RedactRules, HostRule, InjectionMode
  <2>6. v \in VaultConfig /\ Present(v)
    BY <1>5, <2>4, <2>5 DEF RedactVault, Section, Present
  <2>7. RedactVault(v).token = redactSecret(v.token)
    BY <2>6 DEF RedactVault, VaultConfig
  <2>8. redactSecret(v.token) # "secret"
    BY <2>6 DEF redactSecret, VaultConfig
  <2>9. QED
    BY <2>5, <2>7, <2>8
<1>6. QED
  BY <1>2, <1>4, <1>5 DEF LoggedCopyRedacted

-----------------------------------------------------------------------------
(* The process                                                             *)

\* Until the servers start nothing has happened to them.
Untouched ==
  stage # "serving" =>
    /\ conn = [c \in Connections |-> NoConn]
    /\ stop = [s \in Servers |-> "idle"]
    /\ shutdown = "waiting"
    /\ ~cutOff

\* Once it is loaded the configuration can be built.
ConfigBuilds == stage \notin {"load", "serving", "dead"} => Buildable(cfg)

SCInv ==
  /\ ServerInv
  /\ StartTypeOK
  /\ Untouched
  /\ ConfigBuilds
  /\ AcceptedConfigBuilds
  /\ LoggedCopyRedacted

(* The process starts with servers to which nothing has happened.          *)
LEMMA FreshServers ==
  ASSUME NEW metrics \in BOOLEAN, NEW hasSPIFFE \in BOOLEAN,
         serve = NewServers(metrics), spiffe = NewSource(hasSPIFFE),
         conn = [c \in Connections |-> NoConn], stop = [s \in Servers |-> "idle"],
         shutdown = "waiting", exit = "no",
         ctxDone = FALSE, cutOff = FALSE, deadline \in BOOLEAN
  PROVE  ServerInv
<1>1. TypeOK
  <2>1. serve \in [Servers -> {"off", "starting", "listening", "closed", "failed"}]
    BY DEF NewServers
  <2>2. spiffe \in {"none", "open", "closing", "closed", "error"}
    BY DEF NewSource
  <2>3. conn \in [Connections -> [at : Servers \union {"none"},
                                  doing : {"nothing", "request", "tunnel"}]]
    BY DEF NoConn
  <2>4. QED
    BY <2>1, <2>2, <2>3 DEF TypeOK
<1>2. \A s \in Servers : Busy(s) = {}
  BY DEF Busy, NoConn
<1>3. NoneLeft /\ CutOffHasReason /\ EndsInOrder
  BY <1>2 DEF NoneLeft, CutOffHasReason, EndsInOrder
<1>4. QED
  BY <1>1, <1>3 DEF ServerInv

LEMMA SCInitInv == SCInit => SCInv
<1> SUFFICES ASSUME SCInit PROVE SCInv
  OBVIOUS
<1>1. ServerInv
  BY FreshServers DEF SCInit
<1>2. StartTypeOK
  BY FilesAssumption DEF SCInit, StartTypeOK, Building
<1>3. Untouched /\ ConfigBuilds /\ AcceptedConfigBuilds /\ LoggedCopyRedacted
  BY DEF SCInit, Untouched, ConfigBuilds, AcceptedConfigBuilds, LoggedCopyRedacted
<1>4. QED
  BY <1>1, <1>2, <1>3 DEF SCInv

(* If no public path is bad the mux of the reverse proxy takes all it is   *)
(* given; in particular, if there is no public path.                       *)
LEMMA MuxTakesTheRest ==
  ASSUME cfg \in Configs, ~BadPublicPath
  PROVE  HandlerBuilds(cfg.reverseProxy)
<1> DEFINE paths == cfg.reverseProxy.publicPaths
           n == Len(paths)
           all == <<"/health/">> \o paths \o <<"/">>
<1>1. paths \in Seq(Strings) /\ n \in Nat /\ DOMAIN paths = 1 .. n
  BY DEF Configs, ReverseProxyConfig
<1>2. /\ DOMAIN all = 1 .. n + 2
      /\ all[1] = "/health/" /\ all[n + 2] = "/"
      /\ \A i \in 2 .. n + 1 : i - 1 \in 1 .. n /\ all[i] = paths[i - 1]
  BY <1>1
<1>3. \A i \in 1 .. n :
        /\ Parses(paths[i])
        /\ ~Conflict(paths[i], "/health/") /\ ~Conflict(paths[i], "/")
        /\ \A j \in 1 .. (i - 1) : ~Conflict(paths[i], paths[j])
  BY <1>1 DEF BadPublicPath
<1>4. Parses("/health/") /\ Parses("/") /\ ~Conflict("/health/", "/")
  BY MuxAssumption DEF Parses, Conflict
<1>5. \A p, q : Conflict(p, q) <=> Conflict(q, p)
  BY DEF Conflict
<1>6. ASSUME NEW i \in 1 .. n + 2
      PROVE  Parses(all[i]) /\ \A j \in 1 .. (i - 1) : ~Conflict(all[j], all[i])
  <2> HIDE DEF paths, n, all
  <2>1. CASE i = 1
    BY <1>2, <1>4, <2>1
  <2>2. CASE i \in 2 .. n + 1
    <3>1. ASSUME NEW j \in 1 .. (i - 1) PROVE ~Conflict(all[j], all[i])
      <4>1. CASE j = 1
        BY <1>2, <1>3, <1>5, <2>2, <4>1
      <4>2. CASE j # 1
        <5>1. j \in 2 .. n + 1 /\ j - 1 \in 1 .. ((i - 1) - 1)
          BY <1>1, <2>2, <4>2
        <5>2. ~Conflict(paths[i - 1], paths[j - 1])
          BY <1>2, <1>3, <2>2, <5>1
        <5>3. QED
          BY <1>2, <1>5, <2>2, <5>1, <5>2
      <4>3. QED
        BY <4>1, <4>2
    <3>2. QED
      BY <1>2, <1>3, <2>2, <3>1
  <2>3. CASE i = n + 2
    <3>1. ASSUME NEW j \in 1 .. n + 1 PROVE ~Conflict(all[j], "/")
      <4>1. CASE j = 1
        BY <1>2, <1>4, <4>1
      <4>2. CASE j # 1
        BY <1>1, <1>2, <1>3, <4>2
      <4>3. QED
        BY <4>1, <4>2
    <3>2. QED
      BY <1>1, <1>2, <1>4, <2>3, <3>1
  <2>4. QED
    BY <1>1, <2>1, <2>2, <2>3
<1>7. QED
  BY <1>2, <1>6 DEF HandlerBuilds, MuxTakes

(* What Validate does not look at is in the configuration.                 *)
LEMMA UncheckedStays ==
  ASSUME UNCHANGED cfg
  PROVE  Unchecked' <=> Unchecked
BY DEF Unchecked, BadPublicPath, ServerSVID, Parses, Conflict

(* The process ends before it serves.                                      *)
LEMMA DieKeeps ==
  ASSUME SCInv, stage \notin {"serving", "dead"},
         NEW why \in {"refused", "environment", "configuration", "signal"}, Die(why),
         why = "configuration" => Unchecked
  PROVE  SCInv'
<1> USE DEF SCInv
<1>1. UNCHANGED <<vars, cfg, logged, built, agent>> /\ stage' = "dead" /\ reason' = why
  BY DEF Die
<1>2. ServerInv'
  BY <1>1, ServerStep
<1>3. StartTypeOK'
  BY <1>1 DEF StartTypeOK, Building, vars
<1>4. Untouched' /\ ConfigBuilds'
  BY <1>1 DEF Untouched, ConfigBuilds, vars
<1>5. AcceptedConfigBuilds'
  BY <1>1, UncheckedStays DEF AcceptedConfigBuilds
<1>6. LoggedCopyRedacted'
  BY <1>1 DEF LoggedCopyRedacted
<1>7. QED
  BY <1>2, <1>3, <1>4, <1>5, <1>6

(* It goes on to the next step, with the configuration it has.             *)
LEMMA ProceedKeeps ==
  ASSUME SCInv, stage \in {"trace"} \union Building, NEW next \in Building, Proceed(next),
         UNCHANGED <<cfg, logged>>, built' \in Nat,
         next = "reverseProxy" => built' = 0,
         next = "injectors" => built' < Len(Injectors(cfg)),
         next \in {"clientTls", "metrics", "server"} => built' = Len(Injectors(cfg))
  PROVE  SCInv'
<1> USE DEF SCInv
<1>1. UNCHANGED <<vars, agent, reason>> /\ stage' = next
  BY DEF Proceed
<1>2. ServerInv'
  BY <1>1, ServerStep
<1>3. StartTypeOK'
  BY <1>1 DEF StartTypeOK, Building, vars
<1>4. Untouched' /\ ConfigBuilds'
  BY <1>1 DEF Untouched, ConfigBuilds, Building, vars
<1>5. AcceptedConfigBuilds'
  BY <1>1, UncheckedStays DEF AcceptedConfigBuilds
<1>6. LoggedCopyRedacted'
  BY <1>1 DEF LoggedCopyRedacted
<1>7. QED
  BY <1>2, <1>3, <1>4, <1>5, <1>6

(* Every step of the process keeps the invariant.                          *)
LEMMA SCStepInv == SCInv /\ [SCNext]_scVars => SCInv'
<1> SUFFICES ASSUME SCInv, [SCNext]_scVars PROVE SCInv'
  OBVIOUS
<1> USE DEF SCInv
<1>1. stage # "serving" => cfg \in Configs
  BY DEF StartTypeOK
<1>3. CASE Load
  <2>1. CASE ~Validate(setDefaults(cfg)) /\ Die("refused")
    BY <1>3, <2>1, DieKeeps DEF Load
  <2>2. CASE /\ Validate(setDefaults(cfg)) /\ cfg' = setDefaults(cfg)
             /\ Proceed("log") /\ UNCHANGED <<logged, built>>
    <3>1. stage = "load" /\ stage' = "log" /\ UNCHANGED <<vars, agent, reason, logged, built>>
      BY <1>3, <2>2 DEF Load, Proceed
    <3>2. cfg' \in Configs /\ Buildable(cfg')
      BY <1>1, <2>2, <3>1, DefaultsTyped, ValidBuilds
    <3>3. ServerInv'
      BY <3>1, ServerStep
    <3>4. StartTypeOK'
      BY <3>1, <3>2 DEF StartTypeOK, Building, vars
    <3>5. Untouched' /\ ConfigBuilds'
      BY <3>1, <3>2 DEF Untouched, ConfigBuilds, vars
    <3>6. AcceptedConfigBuilds' /\ LoggedCopyRedacted'
      BY <3>1 DEF AcceptedConfigBuilds, LoggedCopyRedacted, StartTypeOK
    <3>7. QED
      BY <3>3, <3>4, <3>5, <3>6
  <2>3. QED
    BY <1>3, <2>1, <2>2 DEF Load
<1>4. CASE Log
  <2>1. /\ stage = "log" /\ stage' = "trace" /\ UNCHANGED <<vars, agent, reason, built>>
        /\ cfg' = AfterSanitize(cfg)
    BY <1>4 DEF Log, Proceed
  <2>2. cfg' \in Configs /\ Buildable(cfg')
    BY <1>1, <2>1, SanitizeKeeps, SanitizeBuilds DEF ConfigBuilds
  <2>3. ServerInv'
    BY <2>1, ServerStep
  <2>4. StartTypeOK'
    BY <2>1, <2>2 DEF StartTypeOK, Building, vars
  <2>5. Untouched' /\ ConfigBuilds'
    BY <2>1, <2>2 DEF Untouched, ConfigBuilds, vars
  <2>6. AcceptedConfigBuilds'
    BY <2>1 DEF AcceptedConfigBuilds, StartTypeOK
  <2>7. LoggedCopyRedacted'
    BY <1>1, <1>4, <2>1, SanitizeRedacts
  <2>8. QED
    BY <2>3, <2>4, <2>5, <2>6, <2>7
<1>5. CASE SetupTracing
  BY <1>5, ProceedKeeps DEF SetupTracing, Building, StartTypeOK
<1>6. CASE BuildReverseProxy
  <2>1. stage = "reverseProxy" /\ VerifierBuilds(cfg.reverseProxy.verification)
    BY <1>6 DEF BuildReverseProxy, ConfigBuilds, Buildable
  <2>2. CASE Proceed("injectors") /\ UNCHANGED <<cfg, logged, built>>
    <3>1. built = 0 /\ built < Len(Injectors(cfg))
      BY <1>1, <2>1, InjectorsOf DEF StartTypeOK
    <3>2. QED
      BY <2>1, <2>2, <3>1, ProceedKeeps DEF Building
  <2>3. CASE ~ReverseProxyBuilds(cfg.reverseProxy) /\ Die("configuration")
    <3>1. ~HandlerBuilds(cfg.reverseProxy)
      BY <2>1, <2>3 DEF ReverseProxyBuilds
    <3>2. Unchecked
      BY <1>1, <2>1, <3>1, MuxTakesTheRest DEF Unchecked
    <3>3. QED
      BY <2>1, <2>3, <3>2, DieKeeps
  <2>4. QED
    BY <1>6, <2>2, <2>3 DEF BuildReverseProxy
<1>7. CASE BuildInjector
  <2>1. stage = "injectors" /\ built \in Nat /\ built < Len(Injectors(cfg)) /\ Buildable(cfg)
    BY <1>7 DEF BuildInjector, StartTypeOK, ConfigBuilds
  <2>2. InjectorBuilds(NextInjector) /\ Len(Injectors(cfg)) \in Nat
    BY <1>1, <2>1, NextBuilds, InjectorsOf
  <2>3. /\ built' = built + 1 /\ UNCHANGED <<cfg, logged>>
        /\ Proceed(IF built + 1 = Len(Injectors(cfg)) THEN "clientTls" ELSE "injectors")
    BY <1>7, <2>2 DEF BuildInjector
  <2>4. CASE built + 1 = Len(Injectors(cfg))
    BY <2>1, <2>3, <2>4, ProceedKeeps DEF Building
  <2>5. CASE built + 1 # Len(Injectors(cfg))
    BY <2>1, <2>2, <2>3, <2>5, ProceedKeeps DEF Building
  <2>6. QED
    BY <2>4, <2>5
<1>8. CASE BuildClientTLS
  BY <1>8, ProceedKeeps DEF BuildClientTLS, Building, StartTypeOK
<1>9. CASE BuildMetrics
  <2>1. CASE ~MetricsBuild(cfg.observability) /\ Die("configuration")
    <3>1. Unchecked
      BY <2>1 DEF MetricsBuild, MuxTakes, Unchecked
    <3>2. QED
      BY <1>9, <2>1, <3>1, DieKeeps DEF BuildMetrics
  <2>2. CASE Proceed("server") /\ UNCHANGED <<cfg, logged, built>>
    BY <1>9, <2>2, ProceedKeeps DEF BuildMetrics, Building, StartTypeOK
  <2>3. QED
    BY <1>9, <2>1, <2>2 DEF BuildMetrics
<1>10. CASE StartServing
  <2>1. CASE ~ServerTLSBuilds(cfg.server.tls) /\ Die("configuration")
    <3>1. Unchecked
      BY <2>1 DEF ServerTLSBuilds, Unchecked, ServerSVID
    <3>2. QED
      BY <1>10, <2>1, <3>1, DieKeeps DEF StartServing
  <2>2. CASE ServerTLSBuilds(cfg.server.tls) /\ stage' = "serving"
    <3>1. /\ stage = "server"
          /\ serve' = NewServers(cfg.observability.metrics.enabled)
          /\ spiffe' = NewSource(ServerSVID)
          /\ cfg' = Nil /\ logged' = Nil /\ built' = 0 /\ agent' = TRUE
          /\ UNCHANGED <<conn, ctxDone, stop, shutdown, cutOff, deadline, exit, reason>>
      BY <1>10, <2>2 DEF StartServing, Die
    <3>2. cfg.observability.metrics.enabled \in BOOLEAN /\ ServerSVID \in BOOLEAN
      <4>1. cfg.observability.metrics \in MetricsConfig
        BY <1>1, <3>1 DEF Configs, ObservabilityConfig
      <4>2. cfg.observability.metrics.enabled \in BOOLEAN
        BY <4>1 DEF MetricsConfig
      <4>3. ServerSVID \in BOOLEAN
        BY DEF ServerSVID
      <4>4. QED
        BY <4>2, <4>3
    <3>3. /\ conn = [c \in Connections |-> NoConn] /\ stop = [s \in Servers |-> "idle"]
          /\ shutdown = "waiting" /\ exit = "no" /\ ctxDone = FALSE /\ cutOff = FALSE
          /\ deadline \in BOOLEAN
      BY <3>1 DEF Untouched, StartTypeOK, ServerInv, TypeOK
    <3>4. ServerInv'
      <4>1. /\ conn' = [c \in Connections |-> NoConn] /\ stop' = [s \in Servers |-> "idle"]
            /\ shutdown' = "waiting" /\ exit' = "no" /\ ctxDone' = FALSE /\ cutOff' = FALSE
            /\ deadline' \in BOOLEAN
        BY <3>1, <3>3
      <4>2. TypeOK'
        <5>1. serve' \in [Servers -> {"off", "starting", "listening", "closed", "failed"}]
          BY <3>1 DEF NewServers
        <5>2. spiffe' \in {"none", "open", "closing", "closed", "error"}
          BY <3>1 DEF NewSource
        <5>3. conn' \in [Connections -> [at : Servers \union {"none"},
                                         doing : {"nothing", "request", "tunnel"}]]
          BY <4>1 DEF NoConn
        <5>4. QED
          BY <4>1, <5>1, <5>2, <5>3 DEF TypeOK
      <4>3. NoneLeft'
        BY <4>1 DEF NoneLeft, Busy, NoConn
      <4>4. CutOffHasReason' /\ EndsInOrder'
        BY <4>1 DEF CutOffHasReason, EndsInOrder
      <4>5. QED
        BY <4>2, <4>3, <4>4 DEF ServerInv
    <3>5. StartTypeOK'
      BY <2>2, <3>1 DEF StartTypeOK, Building
    <3>6. Untouched' /\ ConfigBuilds'
      BY <2>2 DEF Untouched, ConfigBuilds
    <3>7. AcceptedConfigBuilds' /\ LoggedCopyRedacted'
      BY <3>1 DEF AcceptedConfigBuilds, LoggedCopyRedacted, StartTypeOK
    <3>8. QED
      BY <3>4, <3>5, <3>6, <3>7
  <2>3. QED
    BY <1>10, <2>1, <2>2 DEF StartServing
<1>11. CASE InjectorFails \/ StepFails \/ KilledAtStart
  BY <1>11, DieKeeps DEF InjectorFails, StepFails, KilledAtStart
<1>12. CASE AgentComes
  <2>1. UNCHANGED <<vars, stage, cfg, logged, built, reason>> /\ agent' = TRUE
    BY <1>12 DEF AgentComes
  <2>2. ServerInv'
    BY <2>1, ServerStep
  <2>3. StartTypeOK'
    BY <2>1 DEF StartTypeOK, vars
  <2>4. Untouched' /\ ConfigBuilds'
    BY <2>1 DEF Untouched, ConfigBuilds, vars
  <2>5. AcceptedConfigBuilds' /\ LoggedCopyRedacted'
    BY <2>1, UncheckedStays DEF AcceptedConfigBuilds, LoggedCopyRedacted
  <2>6. QED
    BY <2>2, <2>3, <2>4, <2>5
<1>13. CASE Serving(Next)
  <2>1. stage = "serving" /\ Next /\ UNCHANGED <<stage, cfg, logged, built, agent, reason>>
    BY <1>13 DEF Serving, startVars
  <2>2. ServerInv'
    BY <2>1, ServerStep
  <2>3. StartTypeOK'
    BY <2>1 DEF StartTypeOK
  <2>4. Untouched' /\ ConfigBuilds'
    BY <2>1 DEF Untouched, ConfigBuilds
  <2>5. AcceptedConfigBuilds' /\ LoggedCopyRedacted'
    BY <2>1, UncheckedStays DEF AcceptedConfigBuilds, LoggedCopyRedacted
  <2>6. QED
    BY <2>2, <2>3, <2>4, <2>5
<1>14. CASE UNCHANGED scVars
  <2>1. UNCHANGED <<vars, stage, cfg, logged, built, agent, reason>>
    BY <1>14 DEF scVars, startVars
  <2>2. ServerInv'
    BY <2>1, ServerStep
  <2>3. StartTypeOK' /\ Untouched' /\ ConfigBuilds'
    BY <2>1 DEF StartTypeOK, Untouched, ConfigBuilds, vars
  <2>4. AcceptedConfigBuilds' /\ LoggedCopyRedacted'
    BY <2>1, UncheckedStays DEF AcceptedConfigBuilds, LoggedCopyRedacted
  <2>5. QED
    BY <2>2, <2>3, <2>4
<1>15. QED
  BY <1>3, <1>4, <1>5, <1>6, <1>7, <1>8, <1>9, <1>10, <1>11, <1>12, <1>13, <1>14
     DEF SCNext, Startup

LEMMA SCInvHolds == SCSpec => []SCInv
  BY SCInitInv, SCStepInv, PTL DEF SCSpec

-----------------------------------------------------------------------------
(* The process implements its Lifecycle                                    *)

\* Nothing is shut before Shutdown has begun, it ends after all it closes, and
\* its context is done when one of them fails.  No server is up at the end.
Orderly ==
  /\ stage # "serving" => \A s \in Servers : serve[s] # "failed"
  /\ shutdown = "waiting" =>
       spiffe \in {"none", "open"} /\ \A s \in Servers : stop[s] = "idle"
  /\ shutdown \in {"ok", "error"} => spiffe # "closing"
  /\ shutdown # "waiting" => \A s \in Servers : stop[s] # "idle"
  /\ (deadline \/ spiffe = "error" \/ shutdown = "error") => cutOff
  /\ ~Running => \A s \in Servers : serve[s] \in {"off", "closed", "failed"}

\* A step within run() before the servers start, or none at all.
StepOfRun ==
  /\ UNCHANGED vars
  /\ \/ stage' = stage
     \/ stage \notin {"serving", "dead"} /\ stage' \notin {"serving", "dead"}

GivesUp == UNCHANGED vars /\ stage \notin {"serving", "dead"} /\ stage' = "dead"

BeginsToServe ==
  /\ stage = "server" /\ stage' = "serving"
  /\ \E metrics \in BOOLEAN : serve' = NewServers(metrics)
  /\ spiffe' \in {"none", "open"}
  /\ UNCHANGED <<conn, ctxDone, stop, shutdown, cutOff, deadline, exit>>

(* What a step of the process does to the servers.                         *)
LEMMA KindsOfStep ==
  ASSUME SCInv, [SCNext]_scVars
  PROVE  \/ StepOfRun \/ GivesUp \/ BeginsToServe
         \/ stage = "serving" /\ stage' = "serving" /\ Next
<1>1. CASE Load \/ Log \/ SetupTracing \/ BuildReverseProxy \/ BuildClientTLS \/ BuildMetrics
  BY <1>1 DEF Load, Log, SetupTracing, BuildReverseProxy, BuildClientTLS, BuildMetrics,
     Proceed, Die, StepOfRun, GivesUp
<1>2. CASE BuildInjector
  <2>1. stage = "injectors" /\ UNCHANGED vars /\ stage' \in {"clientTls", "injectors", "dead"}
    BY <1>2 DEF BuildInjector, Proceed, Die
  <2>2. QED
    BY <2>1 DEF StepOfRun, GivesUp
<1>3. CASE StartServing
  <2>1. CASE ServerTLSBuilds(cfg.server.tls) /\ stage' = "serving"
    <3>1. cfg.observability.metrics.enabled \in BOOLEAN
      <4>1. cfg \in Configs
        BY <1>3 DEF StartServing, SCInv, StartTypeOK
      <4>2. cfg.observability.metrics \in MetricsConfig
        BY <4>1 DEF Configs, ObservabilityConfig
      <4>3. QED
        BY <4>2 DEF MetricsConfig
    <3>2. /\ stage = "server" /\ serve' = NewServers(cfg.observability.metrics.enabled)
          /\ spiffe' = NewSource(ServerSVID)
          /\ UNCHANGED <<conn, ctxDone, stop, shutdown, cutOff, deadline, exit>>
      BY <1>3, <2>1 DEF StartServing, Die
    <3>3. QED
      BY <2>1, <3>1, <3>2 DEF BeginsToServe, NewSource
  <2>2. CASE ~ServerTLSBuilds(cfg.server.tls) /\ Die("configuration")
    BY <1>3, <2>2 DEF StartServing, Die, GivesUp
  <2>3. QED
    BY <1>3, <2>1, <2>2 DEF StartServing
<1>4. CASE InjectorFails \/ StepFails \/ KilledAtStart
  BY <1>4 DEF InjectorFails, StepFails, KilledAtStart, Die, GivesUp
<1>5. CASE AgentComes
  BY <1>5 DEF AgentComes, StepOfRun
<1>6. CASE Serving(Next)
  BY <1>6 DEF Serving, startVars
<1>7. CASE UNCHANGED scVars
  BY <1>7 DEF scVars, startVars, StepOfRun
<1>8. QED
  BY <1>1, <1>2, <1>3, <1>4, <1>5, <1>6, <1>7 DEF SCNext, Startup

LEMMA OrderlyStep ==
  ASSUME SCInv, Orderly, [SCNext]_scVars
  PROVE  Orderly'
<1>1. ServerInv
  BY DEF SCInv
<1>2. CASE StepOfRun \/ GivesUp
  BY <1>2 DEF StepOfRun, GivesUp, vars, Orderly, Running
<1>3. CASE BeginsToServe
  <2>1. shutdown = "waiting" /\ ~cutOff /\ exit = "no" /\ \A s \in Servers : stop[s] = "idle"
    BY <1>3 DEF BeginsToServe, SCInv, Untouched, StartTypeOK
  <2>2. QED
    BY <1>3, <2>1 DEF BeginsToServe, Orderly, Running
<1>4. CASE stage = "serving" /\ stage' = "serving" /\ Next
  <2>1. ASSUME NEW s \in Servers, Serve(s) \/ ServeFails(s) \/ Stop(s) PROVE Orderly'
    <3>1. CASE Serve(s) \/ ServeFails(s)
      <4>1. /\ UNCHANGED <<stop, spiffe, shutdown, cutOff, deadline, exit>>
            /\ serve[s] \in {"starting", "listening"}
        BY <3>1 DEF Serve, Listen, ServeReturns, ServeFails
      <4>2. QED
        BY <1>4, <4>1 DEF Orderly, Running
    <3>2. CASE Stop(s)
      <4>1. /\ UNCHANGED <<serve, spiffe, shutdown, cutOff, deadline, exit>>
            /\ stop[s] # "idle"
        BY <3>2 DEF Stop, CloseListener, Drained, DrainCutOff
      <4>2. \A t \in Servers : stop'[t] = stop[t] \/ stop'[t] # "idle"
        BY <1>1, <3>2 DEF Stop, CloseListener, Drained, DrainCutOff, ServerInv, TypeOK
      <4>3. QED
        BY <1>4, <4>1, <4>2 DEF Orderly, Running
    <3>3. QED
      BY <2>1, <3>1, <3>2
  <2>2. CASE Signal
    BY <1>4, <2>2 DEF Signal, Orderly, Running
  <2>3. CASE BeginShutdown
    BY <1>4, <2>3 DEF BeginShutdown, Orderly, Running
  <2>4. CASE CloseSPIFFE
    <3>1. /\ UNCHANGED <<serve, stop, shutdown, deadline, exit>> /\ spiffe = "closing"
          /\ \/ spiffe' = "closed" /\ cutOff' = cutOff
             \/ spiffe' = "error" /\ cutOff' = TRUE
      BY <2>4 DEF CloseSPIFFE
    <3>2. QED
      BY <1>1, <1>4, <3>1 DEF Orderly, Running, ServerInv, TypeOK
  <2>5. CASE Timeout
    BY <1>4, <2>5 DEF Timeout, Orderly, Running
  <2>6. CASE EndShutdown
    BY <1>1, <1>4, <2>6 DEF EndShutdown, Orderly, Running, ServerInv, CutOffHasReason
  <2>7. CASE Exit
    BY <1>4, <2>7 DEF Exit, Orderly, Running
  <2>8. CASE Clients
    BY <1>4, <2>8 DEF Clients, Request, Hijack, Done, Orderly, Running
  <2>9. QED
    BY <1>4, <2>1, <2>2, <2>3, <2>4, <2>5, <2>6, <2>7, <2>8 DEF Next
<1>5. QED
  BY <1>2, <1>3, <1>4, KindsOfStep

LEMMA OrderlyInit == SCInit => Orderly
  BY DEF SCInit, Orderly, Running, NewServers, NewSource

\* What the clients and whoever started the process see of it.
Failed == \E s \in Servers : serve[s] = "failed"
Outcome == IF stage = "dead" THEN "refused" ELSE exit

(* The doors stay as they are if each server and its shutdown do.          *)
LEMMA GatesStay ==
  ASSUME stage' = stage, serve' = serve,
         \A t \in Servers : serve[t] \in {"starting", "listening"} =>
                             (ShuttingDown(t)' <=> ShuttingDown(t))
  PROVE  Gate' = Gate
  BY DEF Gate

(* One door changes if one server or its shutdown does.                    *)
LEMMA OneGateMoves ==
  ASSUME stage = "serving", stage' = "serving", NEW s \in Servers, NEW x,
         \A t \in Servers \ {s} : serve'[t] = serve[t] /\ stop'[t] = stop[t],
         Gate'[s] = x
  PROVE  Gate' = [Gate EXCEPT ![s] = x]
<1>1. \A t \in Servers \ {s} : Gate'[t] = Gate[t]
  BY DEF Gate, ShuttingDown
<1>2. Gate' = [t \in Servers |-> Gate'[t]] /\ Gate = [t \in Servers |-> Gate[t]]
  BY DEF Gate
<1>3. QED
  BY <1>1, <1>2

(* The steps of run() before the servers start, and their start.           *)
LEMMA LifeBegins ==
  ASSUME SCInv, Orderly, StepOfRun \/ GivesUp \/ BeginsToServe
  PROVE  [Life!Next]_(Life!vars)
<1>1. CASE StepOfRun
  <2>1. Gate' = Gate
    BY <1>1 DEF StepOfRun, vars, Gate, ShuttingDown
  <2>2. LifePhase' = LifePhase /\ Outcome' = Outcome
    BY <1>1 DEF StepOfRun, vars, LifePhase, Running, Outcome
  <2>3. UNCHANGED <<RequestAt, Failed, cutOff>>
    BY <1>1 DEF StepOfRun, vars, RequestAt, Failed
  <2>4. QED
    BY <2>1, <2>2, <2>3 DEF Life!vars, Failed, Outcome
<1>2. CASE GivesUp
  <2>1. exit = "no"
    BY <1>2 DEF GivesUp, SCInv, StartTypeOK
  <2>2. LifePhase = "starting" /\ LifePhase' = "ended" /\ Outcome' = "refused"
    BY <1>2, <2>1 DEF GivesUp, LifePhase, Running, Outcome
  <2>3. UNCHANGED <<Gate, RequestAt, Failed, cutOff>>
    BY <1>2 DEF GivesUp, vars, Gate, RequestAt, Failed
  <2>4. Life!Refuse
    BY <2>2, <2>3 DEF Life!Refuse, Failed, Outcome
  <2>5. QED
    BY <2>4 DEF Life!Next
<1>3. CASE BeginsToServe
  <2>1. PICK metrics \in BOOLEAN : serve' = NewServers(metrics)
    BY <1>3 DEF BeginsToServe
  <2>2. exit = "no" /\ ~ctxDone /\ conn' = conn /\ exit' = exit /\ ctxDone' = ctxDone
    BY <1>3 DEF BeginsToServe, SCInv, StartTypeOK
  <2>3. stage = "server" /\ stage' = "serving" /\ stop' = stop
    BY <1>3 DEF BeginsToServe
  <2>4. \A s \in Servers : stop[s] = "idle"
    BY <2>3 DEF SCInv, Untouched
  <2>5. LifePhase = "starting" /\ LifePhase' = "running" /\ Outcome' = Outcome
    BY <2>2, <2>3 DEF LifePhase, Running, Outcome
  <2>6. ~Failed /\ ~Failed' /\ RequestAt' = RequestAt /\ cutOff' = cutOff
    <3>1. ~Failed
      BY <2>3 DEF Orderly, Failed
    <3>2. ~Failed'
      BY <2>1 DEF Failed, NewServers
    <3>3. QED
      BY <1>3, <2>2, <3>1, <3>2 DEF RequestAt, BeginsToServe
  <2>7. Gate' = [s \in Servers |->
                   IF s \in {t \in Servers : serve'[t] = "starting"} THEN "notYet" ELSE "shut"]
    <3>1. \A s \in Servers : serve'[s] \in {"off", "starting"}
      BY <2>1 DEF NewServers
    <3>2. \A s \in Servers : ~ShuttingDown(s)'
      BY <2>3, <2>4 DEF ShuttingDown
    <3>3. QED
      BY <2>3, <3>1, <3>2 DEF Gate
  <2>8. Life!Start
    <3>1. {t \in Servers : serve'[t] = "starting"} \in SUBSET Servers
      OBVIOUS
    <3>2. \E S \in SUBSET Servers :
            Gate' = [s \in Servers |-> IF s \in S THEN "notYet" ELSE "shut"]
      BY <2>7, <3>1
    <3>3. QED
      BY <2>5, <2>6, <3>2 DEF Life!Start, Failed, Outcome
  <2>9. QED
    BY <2>8 DEF Life!Next
<1>4. QED
  BY <1>1, <1>2, <1>3

(* The steps of a server and of its shutdown.                              *)
LEMMA LifeOfServer ==
  ASSUME SCInv, Orderly, stage = "serving", stage' = "serving",
         NEW s \in Servers, Serve(s) \/ ServeFails(s) \/ Stop(s)
  PROVE  [Life!Next]_(Life!vars)
<1>1. TypeOK /\ EndsInOrder
  BY DEF SCInv, ServerInv
<1>2. ShuttingDown(s) => ctxDone
  BY <1>1 DEF ShuttingDown, Orderly, EndsInOrder
<1>3. CASE Serve(s) \/ ServeFails(s)
  <2>1. serve[s] \in {"starting", "listening"} /\ stop' = stop
    BY <1>3 DEF Serve, Listen, ServeReturns, ServeFails
  <2>2. Running
    BY <2>1 DEF Orderly
  <2>3. UNCHANGED <<RequestAt, cutOff, Outcome, exit>>
    BY <1>3 DEF Serve, Listen, ServeReturns, ServeFails, RequestAt, Outcome
  <2>4. \A t \in Servers \ {s} : serve'[t] = serve[t] /\ stop'[t] = stop[t]
    BY <1>1, <1>3 DEF Serve, Listen, ServeReturns, ServeFails, TypeOK
  <2>5. Life!Alive
    BY <2>2 DEF Life!Alive, LifePhase
  <2>6. CASE Listen(s)
    <3>1. Gate[s] = "notYet" /\ Gate'[s] = "open"
      BY <1>1, <2>6 DEF Listen, Gate, ShuttingDown, TypeOK
    <3>2. Gate' = [Gate EXCEPT ![s] = "open"]
      BY <2>4, <3>1, OneGateMoves
    <3>3. UNCHANGED <<LifePhase, Failed>>
      BY <1>1, <2>3, <2>6 DEF Listen, LifePhase, Running, Failed, TypeOK
    <3>4. Life!Open(s)
      BY <2>3, <2>5, <3>1, <3>2, <3>3 DEF Life!Open, Failed, Outcome
    <3>5. QED
      BY <3>4 DEF Life!Next
  <2>7. CASE ServeReturns(s)
    <3>1. Gate[s] \in {"barred", "shut"} /\ Gate'[s] = "shut"
      BY <1>1, <2>7 DEF ServeReturns, Gate, ShuttingDown, TypeOK
    <3>2. Gate' = [Gate EXCEPT ![s] = "shut"]
      BY <2>4, <3>1, OneGateMoves
    <3>3. UNCHANGED <<LifePhase, Failed>>
      BY <1>1, <2>3, <2>7 DEF ServeReturns, LifePhase, Running, Failed, TypeOK
    <3>4. LifePhase = "ending"
      BY <1>2, <2>2, <2>7 DEF ServeReturns, LifePhase
    <3>5. Life!Shut(s)
      BY <2>3, <3>1, <3>2, <3>3, <3>4 DEF Life!Shut, Failed, Outcome
    <3>6. QED
      BY <3>5 DEF Life!Next
  <2>8. CASE ServeFails(s)
    <3>1. Gate[s] # "shut" /\ Gate'[s] = "shut"
      BY <1>1, <2>8 DEF ServeFails, Gate, ShuttingDown, TypeOK
    <3>2. Gate' = [Gate EXCEPT ![s] = "shut"]
      BY <2>4, <3>1, OneGateMoves
    <3>3. LifePhase' = "ending" /\ Failed'
      BY <1>1, <2>2, <2>3, <2>8 DEF ServeFails, LifePhase, Running, Failed, TypeOK
    <3>4. Life!Fail(s)
      BY <2>3, <2>5, <3>1, <3>2, <3>3 DEF Life!Fail, Failed, Outcome
    <3>5. QED
      BY <3>4 DEF Life!Next
  <2>9. QED
    BY <1>3, <2>6, <2>7, <2>8 DEF Serve
<1>4. CASE Stop(s)
  <2>1. UNCHANGED <<serve, RequestAt, Failed, cutOff, Outcome, LifePhase, exit>>
    BY <1>4 DEF Stop, CloseListener, Drained, DrainCutOff, RequestAt, Failed, Outcome,
       LifePhase, Running
  <2>2. \A t \in Servers \ {s} : serve'[t] = serve[t] /\ stop'[t] = stop[t]
    BY <1>1, <1>4 DEF Stop, CloseListener, Drained, DrainCutOff, TypeOK
  <2>3. CASE CloseListener(s)
    <3>1. stop[s] = "called" /\ stop'[s] = "draining"
      BY <1>1, <2>3 DEF CloseListener, TypeOK
    <3>2. ~ShuttingDown(s) /\ ShuttingDown(s)'
      BY <3>1 DEF ShuttingDown
    <3>3. Gate'[s] = IF Gate[s] = "notYet" THEN "barred" ELSE "shut"
      BY <1>1, <2>1, <3>2 DEF Gate, TypeOK
    <3>4. Gate' = [Gate EXCEPT ![s] = IF Gate[s] = "notYet" THEN "barred" ELSE "shut"]
      BY <2>2, <3>3, OneGateMoves
    <3>5. shutdown = "running" /\ ctxDone
      BY <1>1, <3>1 DEF Orderly, EndsInOrder, TypeOK
    <3>6. LifePhase = "ending"
      <4>1. Running
        BY <1>1, <3>5 DEF TypeOK, Running
      <4>2. QED
        BY <3>5, <4>1 DEF LifePhase
    <3>7. Life!Shut(s)
      BY <2>1, <3>4, <3>6 DEF Life!Shut, Failed, Outcome
    <3>8. QED
      BY <3>7 DEF Life!Next
  <2>4. CASE Drained(s) \/ DrainCutOff(s)
    <3>1. ShuttingDown(s) /\ ShuttingDown(s)'
      BY <1>1, <2>4 DEF Drained, DrainCutOff, ShuttingDown, TypeOK
    <3>2. \A t \in Servers : ShuttingDown(t)' <=> ShuttingDown(t)
      BY <2>2, <3>1 DEF ShuttingDown
    <3>3. Gate' = Gate
      BY <2>1, <3>2, GatesStay
    <3>4. QED
      BY <2>1, <3>3 DEF Life!vars, Failed, Outcome
  <2>5. QED
    BY <1>4, <2>3, <2>4 DEF Stop
<1>5. QED
  BY <1>3, <1>4

(* The steps of the clients.                                               *)
LEMMA LifeOfClient ==
  ASSUME SCInv, Orderly, stage = "serving", stage' = "serving",
         NEW c \in Connections, Request(c) \/ Hijack(c) \/ Done(c)
  PROVE  [Life!Next]_(Life!vars)
<1>1. TypeOK
  BY DEF SCInv, ServerInv
<1>2. /\ Running
      /\ UNCHANGED <<serve, ctxDone, stop, spiffe, shutdown, cutOff, deadline, exit>>
  BY DEF Request, Hijack, Done
<1>3. UNCHANGED <<LifePhase, Gate, Failed, Outcome, cutOff>>
  BY <1>2 DEF LifePhase, Running, Gate, ShuttingDown, Failed, Outcome
<1>4. Life!Alive
  BY <1>2 DEF Life!Alive, LifePhase
<1>5. CASE Request(c)
  <2>1. PICK s \in Servers :
          /\ serve[s] = "listening" /\ ~ShuttingDown(s)
          /\ conn' = [conn EXCEPT ![c] = [at |-> s, doing |-> "request"]]
    BY <1>5 DEF Request
  <2>2. Gate[s] = "open"
    BY <2>1 DEF Gate
  <2>3. RequestAt[c] = "none"
    BY <1>5 DEF Request, NoConn, RequestAt
  <2>4. RequestAt' = [RequestAt EXCEPT ![c] = s]
    BY <1>1, <2>1 DEF RequestAt, TypeOK
  <2>5. Life!Take(c, s)
    BY <1>3, <1>4, <2>2, <2>3, <2>4 DEF Life!Take, Life!Nobody, Failed, Outcome
  <2>6. QED
    BY <2>5 DEF Life!Next
<1>6. CASE Hijack(c) \/ Done(c)
  <2>1. RequestAt' = [RequestAt EXCEPT ![c] = "none"]
    <3>1. conn'[c].doing # "request"
      BY <1>1, <1>6 DEF Hijack, Done, NoConn, TypeOK
    <3>2. \A d \in Connections \ {c} : conn'[d] = conn[d]
      BY <1>1, <1>6 DEF Hijack, Done, TypeOK
    <3>3. QED
      BY <3>1, <3>2 DEF RequestAt
  <2>2. Life!Finish(c)
    BY <1>3, <1>4, <2>1 DEF Life!Finish, Life!Nobody, Failed, Outcome
  <2>3. QED
    BY <2>2 DEF Life!Next
<1>7. QED
  BY <1>5, <1>6

(* The process ends for a reason, after the last request or late.          *)
LEMMA LifeEnds ==
  ASSUME SCInv, Orderly, stage = "serving", stage' = "serving", Exit
  PROVE  Life!End
<1>1. TypeOK /\ EndsInOrder /\ NoneLeft
  BY DEF SCInv, ServerInv
<1>2. /\ Running /\ shutdown \in {"ok", "error"}
      /\ \A s \in Servers : serve[s] \in {"off", "closed", "failed"}
      /\ exit' = IF shutdown = "error" \/ Failed THEN "error" ELSE "ok"
      /\ UNCHANGED <<serve, conn, ctxDone, stop, spiffe, shutdown, cutOff, deadline>>
  BY DEF Exit, Failed
<1>3. LifePhase = "ending" /\ LifePhase' = "ended"
  BY <1>1, <1>2 DEF EndsInOrder, LifePhase, Running
<1>4. \A s \in Servers : Gate[s] = "shut"
  BY <1>2 DEF Gate
<1>5. UNCHANGED <<Gate, RequestAt, Failed, cutOff>>
  BY <1>2 DEF Gate, ShuttingDown, RequestAt, Failed
<1>6. Outcome' = exit'
  BY DEF Outcome
<1>7. shutdown = "ok" => Life!Quiet
  <2>1. SUFFICES ASSUME shutdown = "ok", NEW c \in Connections PROVE RequestAt[c] = "none"
    BY DEF Life!Quiet, Life!Nobody
  <2>2. \A s \in Servers : Busy(s) = {}
    BY <1>1, <2>1 DEF EndsInOrder, NoneLeft
  <2>3. conn[c] \in [at : Servers \union {"none"}, doing : {"nothing", "request", "tunnel"}]
    BY <1>1 DEF TypeOK
  <2>4. CASE conn[c].doing = "request" /\ conn[c].at \in Servers
    <3>1. conn[c] = [at |-> conn[c].at, doing |-> "request"]
      BY <2>3, <2>4
    <3>2. c \in Busy(conn[c].at)
      BY <3>1 DEF Busy
    <3>3. QED
      BY <2>2, <2>4, <3>2
  <2>5. CASE conn[c].doing # "request" \/ conn[c].at = "none"
    BY <2>5 DEF RequestAt
  <2>6. QED
    BY <2>3, <2>4, <2>5
<1>8. CASE exit' = "ok"
  <2>1. shutdown = "ok" /\ ~Failed
    BY <1>2, <1>8
  <2>2. QED
    BY <1>3, <1>4, <1>5, <1>6, <1>7, <1>8, <2>1 DEF Life!End, Failed, Outcome
<1>9. CASE exit' = "error"
  <2>1. cutOff \/ (shutdown = "ok" /\ Failed)
    BY <1>2, <1>9 DEF Orderly
  <2>2. QED
    BY <1>3, <1>4, <1>5, <1>6, <1>7, <1>9, <2>1 DEF Life!End, Failed, Outcome
<1>10. QED
  BY <1>2, <1>8, <1>9

(* The steps of the process as a whole.                                    *)
LEMMA LifeOfProcess ==
  ASSUME SCInv, Orderly, stage = "serving", stage' = "serving",
         Signal \/ BeginShutdown \/ CloseSPIFFE \/ Timeout \/ EndShutdown \/ Exit
  PROVE  [Life!Next]_(Life!vars)
<1>1. TypeOK /\ EndsInOrder
  BY DEF SCInv, ServerInv
<1>2. CASE Signal
  <2>1. UNCHANGED <<Gate, RequestAt, Failed, cutOff, Outcome>>
    BY <1>2 DEF Signal, Gate, ShuttingDown, RequestAt, Failed, Outcome
  <2>2. LifePhase = "running" /\ LifePhase' = "ending"
    BY <1>2 DEF Signal, LifePhase, Running
  <2>3. Life!Signal
    BY <2>1, <2>2 DEF Life!Signal, Failed, Outcome
  <2>4. QED
    BY <2>3 DEF Life!Next
<1>3. CASE BeginShutdown
  <2>1. UNCHANGED <<LifePhase, RequestAt, Failed, cutOff, Outcome>>
    BY <1>3 DEF BeginShutdown, LifePhase, Running, RequestAt, Failed, Outcome
  <2>2. Gate' = Gate
    <3>1. ASSUME NEW s \in Servers, serve[s] \in {"starting", "listening"}
          PROVE  ~ShuttingDown(s) /\ ~ShuttingDown(s)'
      <4>1. stop[s] = "idle"
        BY <1>3 DEF BeginShutdown, Orderly
      <4>2. stop'[s] = "called"
        BY <1>3, <3>1 DEF BeginShutdown
      <4>3. QED
        BY <4>1, <4>2 DEF ShuttingDown
    <3>2. serve' = serve
      BY <1>3 DEF BeginShutdown
    <3>3. QED
      BY <3>1, <3>2, GatesStay
  <2>3. QED
    BY <2>1, <2>2 DEF Life!vars, Failed, Outcome
<1>4. CASE CloseSPIFFE \/ Timeout
  <2>1. shutdown = "running"
    BY <1>1, <1>4 DEF CloseSPIFFE, Timeout, Orderly, TypeOK
  <2>2. LifePhase = "ending"
    <3>1. Running /\ ctxDone
      BY <1>1, <2>1 DEF TypeOK, Running, EndsInOrder
    <3>2. QED
      BY <3>1 DEF LifePhase
  <2>3. /\ UNCHANGED <<serve, conn, ctxDone, stop, shutdown, exit>>
        /\ cutOff' = cutOff \/ cutOff' = TRUE
    BY <1>4 DEF CloseSPIFFE, Timeout
  <2>4. UNCHANGED <<LifePhase, Gate, RequestAt, Failed, Outcome>>
    BY <2>3 DEF LifePhase, Running, Gate, ShuttingDown, RequestAt, Failed, Outcome
  <2>5. CASE cutOff' = cutOff
    BY <2>4, <2>5 DEF Life!vars, Failed, Outcome
  <2>6. CASE cutOff' = TRUE
    <3>1. Life!StopWaiting
      BY <2>2, <2>4, <2>6 DEF Life!StopWaiting, Failed, Outcome
    <3>2. QED
      BY <3>1 DEF Life!Next
  <2>7. QED
    BY <2>3, <2>5, <2>6
<1>5. CASE EndShutdown
  <2>1. UNCHANGED <<LifePhase, Gate, RequestAt, Failed, cutOff, Outcome>>
    BY <1>5 DEF EndShutdown, LifePhase, Running, Gate, ShuttingDown, RequestAt, Failed, Outcome
  <2>2. QED
    BY <2>1 DEF Life!vars, Failed, Outcome
<1>6. CASE Exit
  BY <1>6, LifeEnds DEF Life!Next
<1>7. QED
  BY <1>2, <1>3, <1>4, <1>5, <1>6

(* Each step of the process is one of its Lifecycle, or none.              *)
LEMMA StepOfLife ==
  ASSUME SCInv, Orderly, [SCNext]_scVars
  PROVE  [Life!Next]_(Life!vars)
<1>1. CASE StepOfRun \/ GivesUp \/ BeginsToServe
  BY <1>1, LifeBegins
<1>2. CASE stage = "serving" /\ stage' = "serving" /\ Next
  BY <1>2, LifeOfServer, LifeOfClient, LifeOfProcess DEF Next, Clients
<1>3. QED
  BY <1>1, <1>2, KindsOfStep

LEMMA OrderlyHolds == SCSpec => []Orderly
<1>1. SCInv /\ Orderly /\ [SCNext]_scVars => Orderly'
  BY OrderlyStep
<1>2. QED
  BY <1>1, OrderlyInit, SCInvHolds, PTL DEF SCSpec

LEMMA LifeInit == SCInit => Life!Init
<1> SUFFICES ASSUME SCInit PROVE Life!Init
  OBVIOUS
<1>1. LifePhase = "starting" /\ Outcome = "no" /\ cutOff = FALSE
  BY DEF SCInit, LifePhase, Running, Outcome
<1>2. Gate = [s \in Servers |-> "notYet"] /\ RequestAt = [c \in Connections |-> "none"]
  BY DEF SCInit, Gate, RequestAt, NoConn
<1>3. Failed = FALSE
  BY DEF SCInit, Failed, NewServers
<1>4. QED
  BY <1>1, <1>2, <1>3 DEF Life!Init, Life!Nobody, Failed, Outcome

-----------------------------------------------------------------------------
(* The end is never stuck: what fairness adds is SignalEndsProcess         *)

\* A step towards the end can be taken: by the goroutine that waits for the
\* context, by one that shuts a server down or serves, by the one that closes
\* the source, by the timer, by Shutdown's Wait, or by run().
EndGoesOn ==
  \/ shutdown = "waiting"
  \/ \E s \in Servers :
       \/ stop[s] = "called"
       \/ stop[s] = "draining" /\ (Busy(s) = {} \/ cutOff)
       \/ serve[s] \in {"starting", "listening"} /\ ShuttingDown(s)
  \/ spiffe = "closing"
  \/ shutdown = "running" /\ ~deadline
  \/ shutdown = "running" /\ \A s \in Servers : stop[s] \in {"ok", "error"}
  \/ shutdown \in {"ok", "error"} /\ \A s \in Servers : serve[s] \in {"off", "closed", "failed"}

NeverStuck == stage = "serving" /\ ctxDone /\ Running => EndGoesOn

LEMMA OrderlyGoesOn == SCInv /\ Orderly => NeverStuck
<1> SUFFICES ASSUME SCInv, Orderly, ~EndGoesOn PROVE FALSE
  BY DEF NeverStuck
<1>1. TypeOK /\ EndsInOrder
  BY DEF SCInv, ServerInv
<1>2. CASE shutdown = "running"
  <2>1. cutOff
    BY <1>2 DEF EndGoesOn, Orderly
  <2>2. ASSUME NEW s \in Servers PROVE stop[s] \in {"ok", "error"}
    <3>1. stop[s] \notin {"idle", "called", "draining"}
      BY <1>2, <2>1 DEF EndGoesOn, Orderly
    <3>2. QED
      BY <1>1, <3>1 DEF TypeOK
  <2>3. QED
    BY <1>2, <2>2 DEF EndGoesOn
<1>3. CASE shutdown \in {"ok", "error"}
  <2>1. ASSUME NEW s \in Servers PROVE serve[s] \in {"off", "closed", "failed"}
    <3>1. ShuttingDown(s)
      BY <1>1, <1>3 DEF EndsInOrder, ShuttingDown
    <3>2. serve[s] \notin {"starting", "listening"}
      BY <3>1 DEF EndGoesOn
    <3>3. QED
      BY <1>1, <3>2 DEF TypeOK
  <2>2. QED
    BY <1>3, <2>1 DEF EndGoesOn
<1>4. QED
  BY <1>1, <1>2, <1>3 DEF TypeOK, EndGoesOn

-----------------------------------------------------------------------------
(* Which injectors lose their token to the log                             *)

\* An injector that logs in to Vault with a token has one that stays as it is:
\* a rule in the file, when the copy is redacted; the default, when it is built.
LogsIn(mode) == mode.type = "vault" /\ Present(mode.vault) /\ mode.vault.authMethod = "token"
Spared(mode) == LogsIn(mode) => mode.vault.token \in {"", "envRef"}
Usable(mode) == LogsIn(mode) => mode.vault.token # "redacted"

SparedFile(f) ==
  /\ Usable(f.forwardProxy.defaultMode)
  /\ \A i \in DOMAIN f.forwardProxy.hostRules : Spared(f.forwardProxy.hostRules[i].mode)

SparedSoFar == stage \notin {"serving", "dead"} => SparedFile(cfg)

(* Neither the defaults nor Sanitize touch what a spared rule logs in with. *)
LEMMA ModeKept ==
  ASSUME NEW m \in InjectionMode, NEW v,
         Present(m.vault) => /\ v.authMethod = m.vault.authMethod
                             /\ m.vault.token \in {"", "envRef"} => v.token = m.vault.token,
         Present(v) => Present(m.vault),
         Spared(m), NEW n, n.type = m.type, n.vault = v
  PROVE  Spared(n)
  BY DEF Spared, LogsIn

LEMMA DefaultsSpare ==
  ASSUME NEW f \in Configs, SparedFile(f)
  PROVE  SparedFile(setDefaults(f))
<1> DEFINE rules == f.forwardProxy.hostRules
<1>1. rules \in Seq(HostRule) /\ f.forwardProxy \in ForwardProxyConfig
  BY DEF Configs, ForwardProxyConfig
<1>2. /\ setDefaults(f).forwardProxy.hostRules = DefaultRules(rules)
      /\ setDefaults(f).forwardProxy.defaultMode = f.forwardProxy.defaultMode
  BY <1>1 DEF setDefaults, Configs, ForwardProxyConfig
<1>3. ASSUME NEW i \in DOMAIN rules PROVE Spared(DefaultRules(rules)[i].mode)
  <2> DEFINE m == rules[i].mode
             n == DefaultInjection(m)
             v == DefaultVault(m.vault)
  <2>1. rules[i] \in HostRule
    BY <1>1
  <2>2. m \in InjectionMode /\ Spared(m)
    BY <2>1 DEF HostRule, SparedFile
  <2>3. DefaultRules(rules)[i].mode = n
    BY <2>1 DEF DefaultRules, HostRule
  <2>4. n.type = m.type /\ n.vault = v
    BY <2>2 DEF DefaultInjection, InjectionMode
  <2>5. ASSUME Present(m.vault) PROVE v.authMethod = m.vault.authMethod /\ v.token = m.vault.token
    <3>1. m.vault \in VaultConfig
      BY <2>2, <2>5 DEF InjectionMode, Section, Present
    <3>2. QED
      BY <2>5, <3>1 DEF DefaultVault, VaultConfig
  <2>6. Present(v) => Present(m.vault)
    BY DEF DefaultVault, Present
  <2> HIDE DEF m, n, v
  <2>7. Spared(n)
    BY <2>2, <2>4, <2>5, <2>6, ModeKept
  <2>8. QED
    BY <2>3, <2>7
<1>4. DOMAIN DefaultRules(rules) = DOMAIN rules
  BY DEF DefaultRules
<1>5. QED
  BY <1>2, <1>3, <1>4 DEF SparedFile

LEMMA SanitizeSpares ==
  ASSUME NEW f \in Configs, SparedFile(f)
  PROVE  SparedFile(AfterSanitize(f))
<1> DEFINE rules == f.forwardProxy.hostRules
<1>1. rules \in Seq(HostRule)
  BY DEF Configs, ForwardProxyConfig
<1>2. /\ AfterSanitize(f).forwardProxy.hostRules = RedactRules(rules)
      /\ AfterSanitize(f).forwardProxy.defaultMode = f.forwardProxy.defaultMode
  BY SanitizeKeeps
<1>3. ASSUME NEW i \in DOMAIN rules PROVE Spared(RedactRules(rules)[i].mode)
  <2> DEFINE m == rules[i].mode
             n == RedactRules(rules)[i].mode
             v == RedactVault(m.vault)
  <2>1. rules[i] \in HostRule
    BY <1>1
  <2>2. m \in InjectionMode /\ Spared(m)
    BY <2>1 DEF HostRule, SparedFile
  <2>3. n = [m EXCEPT !.vault = v]
    BY <2>1 DEF RedactRules, HostRule
  <2> HIDE DEF m, n
  <2>4. n.type = m.type /\ n.vault = v
    BY <2>2, <2>3 DEF InjectionMode
  <2>5. ASSUME Present(m.vault)
        PROVE  /\ v.authMethod = m.vault.authMethod
               /\ m.vault.token \in {"", "envRef"} => v.token = m.vault.token
    <3>1. m.vault \in VaultConfig
      BY <2>2, <2>5 DEF InjectionMode, Section, Present
    <3>2. QED
      BY <2>5, <3>1 DEF RedactVault, redactSecret, VaultConfig
  <2>6. Present(v) => Present(m.vault)
    BY DEF RedactVault, Present
  <2> HIDE DEF v
  <2>7. QED
    BY <2>2, <2>4, <2>5, <2>6, ModeKept DEF n
<1>4. DOMAIN RedactRules(rules) = DOMAIN rules
  BY DEF RedactRules
<1>5. QED
  BY <1>2, <1>3, <1>4 DEF SparedFile

LEMMA SparedStep ==
  ASSUME SCInv, SparedSoFar, [SCNext]_scVars
  PROVE  SparedSoFar'
<1>1. stage # "serving" => cfg \in Configs
  BY DEF SCInv, StartTypeOK
<1>2. CASE Load
  <2>1. stage = "load" /\ (stage' = "dead" \/ cfg' = setDefaults(cfg))
    BY <1>2 DEF Load, Die
  <2>2. QED
    BY <1>1, <2>1, DefaultsSpare DEF SparedSoFar
<1>3. CASE Log
  <2>1. stage = "log" /\ cfg' = AfterSanitize(cfg)
    BY <1>3 DEF Log
  <2>2. QED
    BY <1>1, <2>1, SanitizeSpares DEF SparedSoFar
<1>4. CASE StartServing
  BY <1>4 DEF StartServing, Die, SparedSoFar
<1>5. CASE \/ SetupTracing \/ BuildReverseProxy \/ BuildClientTLS \/ BuildMetrics
           \/ InjectorFails \/ StepFails \/ KilledAtStart \/ AgentComes \/ UNCHANGED scVars
  BY <1>5 DEF SetupTracing, BuildReverseProxy, BuildClientTLS, BuildMetrics, InjectorFails,
     StepFails, KilledAtStart, AgentComes, Proceed, Die, scVars, startVars, Building, SparedSoFar
<1>6. CASE BuildInjector
  <2>1. stage = "injectors" /\ UNCHANGED cfg
    BY <1>6 DEF BuildInjector, Die
  <2>2. QED
    BY <2>1 DEF SparedSoFar
<1>7. CASE Serving(Next)
  BY <1>7 DEF Serving, startVars, SparedSoFar
<1>8. QED
  BY <1>2, <1>3, <1>4, <1>5, <1>6, <1>7 DEF SCNext, Startup

(* The injector that is built next has its token.                          *)
LEMMA SparedIsUsable == SCInv /\ SparedSoFar => InjectorsGetSecrets
<1> SUFFICES ASSUME SCInv, SparedSoFar, stage = "injectors",
                    NextInjector.type = "vault", NextInjector.vault.authMethod = "token"
             PROVE  NextInjector.vault.token # "redacted"
  BY DEF InjectorsGetSecrets
<1>1. cfg \in Configs /\ built \in Nat /\ built < Len(Injectors(cfg)) /\ Buildable(cfg)
  BY DEF SCInv, StartTypeOK, ConfigBuilds
<1>2. SparedFile(cfg)
  BY DEF SparedSoFar
<1>3. Usable(NextInjector)
  <2>1. CASE built = 0
    BY <1>1, <1>2, <2>1, InjectorsOf DEF NextInjector, SparedFile
  <2>2. CASE built > 0
    <3>1. built + 1 \in 2 .. Len(Injectors(cfg))
      BY <1>1, <2>2, InjectorsOf
    <3>2. /\ built \in DOMAIN cfg.forwardProxy.hostRules
          /\ NextInjector = cfg.forwardProxy.hostRules[built].mode
      BY <1>1, <3>1, InjectorsOf DEF NextInjector
    <3>3. Spared(NextInjector)
      BY <1>2, <3>2 DEF SparedFile
    <3>4. QED
      BY <3>3 DEF Spared, Usable
  <2>3. QED
    BY <1>1, <2>1, <2>2
<1>4. Present(NextInjector.vault)
  <2>1. InjectorBuilds(NextInjector)
    BY <1>1, NextBuilds
  <2>2. QED
    BY <2>1 DEF InjectorBuilds
<1>5. QED
  BY <1>3, <1>4 DEF Usable, LogsIn

-----------------------------------------------------------------------------
(* The servers and the steps of run() keep their types, and nothing serves *)
(* while run() still builds (main.go:45-116, server.go:99-221).            *)
THEOREM SCTypeCorrect == SCSpec => []SCTypeOK
<1>1. SCInv => SCTypeOK
  BY DEF SCInv, ServerInv, SCTypeOK
<1>2. QED
  BY <1>1, SCInvHolds, PTL

(* No request is cut off by the end of the process without a reason, for   *)
(* any number of servers and connections (server.go:173-221).              *)
THEOREM DrainsRequests == SCSpec => []RequestsDrained
<1>1. SCInv => RequestsDrained
  BY DrainedByInv DEF SCInv
<1>2. QED
  BY <1>1, SCInvHolds, PTL

(* Whatever Validate accepts the factories can build, for every file, but  *)
(* for what they alone look at: a metrics path that is no pattern of a     *)
(* ServeMux, public paths that the mux of the reverse proxy does not take, *)
(* and malformed SPIFFE names (validation.go:11-41, 195-236,               *)
(* injector.go:22-44, verifier.go:30-50, reverseproxy/proxy.go:75-134).    *)
THEOREM ValidateSuffices == SCSpec => []AcceptedConfigBuilds
<1>1. SCInv => AcceptedConfigBuilds
  BY DEF SCInv
<1>2. QED
  BY <1>1, SCInvHolds, PTL

(* The copy that is logged shows no secret of the introspection client or  *)
(* of a rule, for every file and any number of rules (config.go:335-355).  *)
THEOREM LogsNoSecret == SCSpec => []LoggedCopyRedacted
<1>1. SCInv => LoggedCopyRedacted
  BY DEF SCInv
<1>2. QED
  BY <1>1, SCInvHolds, PTL

(* The process is what Lifecycle says, for any servers, any clients and    *)
(* any file: a server opens once and shuts for good, told to shut it does  *)
(* not fail, the process ends for a reason only, with no request left      *)
(* unless it is late, and its result tells so (main.go:45-116,             *)
(* server.go:99-221).                                                      *)
THEOREM LivesItsLifecycle == SCSpec => ImplementsLifecycle
<1>1. SCInit => Life!Init
  BY LifeInit
<1>2. SCInv /\ Orderly /\ [SCNext]_scVars => [Life!Next]_(Life!vars)
  BY StepOfLife
<1>3. QED
  BY <1>1, <1>2, OrderlyHolds, SCInvHolds, PTL DEF SCSpec, ImplementsLifecycle, Life!Spec

(* Once a signal or a failure has begun the end, there is always somebody  *)
(* to go on with it, whatever the clients do: no goroutine of Start or     *)
(* Shutdown waits for another that waits for it (server.go:163-221).       *)
THEOREM EndNeverStuck == SCSpec => []NeverStuck
<1>1. SCInv /\ Orderly => NeverStuck
  BY OrderlyGoesOn
<1>2. QED
  BY <1>1, SCInvHolds, OrderlyHolds, PTL

(* If no rule of the file logs in to Vault with a token written in the     *)
(* file itself, every Vault injector is built with the token it was given: *)
(* what Sanitize writes over in the array it shares hurts these rules and  *)
(* no other injector (config.go:335-355, router.go:25-60).                 *)
THEOREM SecretsReachInjectors ==
  ASSUME \A f \in Files : SparedFile(f)
  PROVE  SCSpec => []InjectorsGetSecrets
<1>1. SCInit => SparedSoFar
  BY DEF SCInit, SparedSoFar
<1>2. SCInv /\ SparedSoFar /\ [SCNext]_scVars => SparedSoFar'
  BY SparedStep
<1>3. SCInv /\ SparedSoFar => InjectorsGetSecrets
  BY SparedIsUsable
<1>4. QED
  BY <1>1, <1>2, <1>3, SCInvHolds, PTL DEF SCSpec
=============================================================================
