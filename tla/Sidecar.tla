--------------------------------- MODULE Sidecar ---------------------------------
(***************************************************************************)
(* cmd/klaviger/main.go, run(): the process from its configuration file to *)
(* its end.  It loads the configuration, logs a sanitized copy of it, and  *)
(* builds the reverse proxy, the injectors, the clients and the servers    *)
(* one after the other; then Server takes over.  An error on the way ends  *)
(* the process, through run() or logger.Fatal, and so does a panic.        *)
(*                                                                         *)
(* What the steps find outside is left open (files, Vault, the Kubernetes  *)
(* API, the collector of traces): they fail or they do not.  The SPIRE     *)
(* agent is a state, since some steps wait for it.  Until signal.Notify a  *)
(* signal kills the process at once.                                       *)
(***************************************************************************)
EXTENDS Server, Config

CONSTANT Files     \* configurations the file may hold, as parsed

ASSUME FilesAssumption ==
  /\ Files \subseteq Configs
  /\ Nil \notin Configs \union VaultConfig

VARIABLES
  stage,     \* the step of run() that is next
  cfg,       \* the configuration, until the servers start
  logged,    \* the sanitized copy that was logged
  built,     \* how many injectors of the router have been built
  agent,     \* the SPIRE agent answers
  reason     \* why the process ended before it served

startVars == <<stage, cfg, logged, built, agent, reason>>
scVars == <<vars, startVars>>

Building == {"reverseProxy", "injectors", "clientTls", "metrics", "server"}

StartTypeOK ==
  /\ stage \in {"load", "log", "trace", "serving", "dead"} \union Building
  /\ built \in Nat
  /\ agent \in BOOLEAN
  /\ reason \in {"none", "refused", "environment", "configuration", "signal"}
  /\ stage = "dead" <=> reason # "none"
  /\ IF stage = "serving" THEN cfg = Nil ELSE cfg \in Configs
  /\ stage \in {"load", "log", "serving"} => logged = Nil
  /\ stage \in {"load", "log", "trace", "reverseProxy"} => built = 0
  /\ stage = "injectors" => built < Len(Injectors(cfg))
  /\ stage \in {"clientTls", "metrics", "server"} => built = Len(Injectors(cfg))
  /\ stage # "serving" => exit = "no" /\ ~ctxDone

SCTypeOK == TypeOK /\ StartTypeOK

SCInit ==
  /\ serve = NewServers(FALSE)
  /\ spiffe = NewSource(FALSE)
  /\ conn = [c \in Connections |-> NoConn]
  /\ ctxDone = FALSE
  /\ stop = [s \in Servers |-> "idle"]
  /\ shutdown = "waiting"
  /\ cutOff = FALSE
  /\ deadline = FALSE
  /\ exit = "no"
  /\ stage = "load"
  /\ cfg \in Files
  /\ logged = Nil
  /\ built = 0
  /\ agent \in BOOLEAN
  /\ reason = "none"

Die(why) ==
  /\ stage' = "dead"
  /\ reason' = why
  /\ UNCHANGED <<vars, cfg, logged, built, agent>>

Proceed(next) ==
  /\ stage' = next
  /\ UNCHANGED <<vars, agent, reason>>

\* config.Load: parse, set defaults, validate.
Load ==
  /\ stage = "load"
  /\ \/ /\ Validate(setDefaults(cfg))
        /\ cfg' = setDefaults(cfg)
        /\ Proceed("log")
        /\ UNCHANGED <<logged, built>>
     \/ ~Validate(setDefaults(cfg)) /\ Die("refused")

\* The logger is set up and the sanitized configuration logged.
Log ==
  /\ stage = "log"
  /\ logged' = Sanitized(cfg)
  /\ cfg' = AfterSanitize(cfg)
  /\ Proceed("trace")
  /\ UNCHANGED built

SetupTracing ==
  /\ stage = "trace"
  /\ Proceed("reverseProxy")
  /\ UNCHANGED <<cfg, logged, built>>

\* createReverseProxyHandler: the verifier, the proxy and its mux.
ReverseProxyBuilds(r) == VerifierBuilds(r.verification) /\ HandlerBuilds(r)

BuildReverseProxy ==
  /\ stage = "reverseProxy"
  /\ \/ /\ ReverseProxyBuilds(cfg.reverseProxy)
        /\ Proceed("injectors")
        /\ UNCHANGED <<cfg, logged, built>>
     \/ ~ReverseProxyBuilds(cfg.reverseProxy) /\ Die("configuration")

\* The injector NewRouter builds next: the default, then the rules in order.
NextInjector == Injectors(cfg)[built + 1]

\* Seeded fault: the OAuth injector waits for the SPIRE agent without a limit.
InjectorFailsPatient == stage = "injectors" /\ FALSE /\ UNCHANGED scVars

\* No token file, no Vault login, no SPIRE agent within 10 seconds.
InjectorFails ==
  /\ stage = "injectors"
  /\ NextInjector.type # "passthrough"
  /\ Die("environment")

\* Seeded fault: the rules are forgotten.
BuildDefaultInjector ==
  /\ stage = "injectors"
  /\ built' = built + 1
  /\ Proceed("clientTls")
  /\ UNCHANGED <<cfg, logged>>

BuildInjector ==
  /\ stage = "injectors"
  /\ \/ /\ InjectorBuilds(NextInjector)
        /\ (NextInjector.type = "oauth" /\ UsesSPIFFE(cfg.server.spiffe)) => agent
        /\ built' = built + 1
        /\ Proceed(IF built + 1 = Len(Injectors(cfg)) THEN "clientTls" ELSE "injectors")
        /\ UNCHANGED <<cfg, logged>>
     \/ ~InjectorBuilds(NextInjector) /\ Die("configuration")

\* The TLS client of the forward proxy takes its SVID from server.spiffe.
ClientSVID == cfg.server.clientTls.enabled /\ UsesSPIFFE(cfg.server.spiffe)

\* spiffe.NewSource waits for the agent, with no limit.
BuildClientTLS ==
  /\ stage = "clientTls"
  /\ ClientSVID => agent
  /\ Proceed("metrics")
  /\ UNCHANGED <<cfg, logged, built>>

BuildMetrics ==
  /\ stage = "metrics"
  /\ \/ /\ MetricsBuild(cfg.observability)
        /\ Proceed("server")
        /\ UNCHANGED <<cfg, logged, built>>
     \/ ~MetricsBuild(cfg.observability) /\ Die("configuration")

\* The TLS server takes its SVID from server.tls.spiffe.
ServerSVID == cfg.server.tls.enabled /\ UsesSPIFFE(cfg.server.tls.spiffe)

\* server.New, signal.Notify and the call of Start.  Of the configuration only
\* the names of the TLS files are read from here on.
StartServing ==
  /\ stage = "server"
  /\ ServerSVID => agent
  /\ \/ /\ ServerTLSBuilds(cfg.server.tls)
        /\ serve' = NewServers(cfg.observability.metrics.enabled)
        /\ spiffe' = NewSource(ServerSVID)
        /\ stage' = "serving"
        /\ cfg' = Nil
        /\ logged' = Nil
        /\ built' = 0
        /\ agent' = TRUE
        /\ UNCHANGED <<conn, ctxDone, stop, shutdown, cutOff, deadline, exit, reason>>
     \/ ~ServerTLSBuilds(cfg.server.tls) /\ Die("configuration")

\* The file, the exporter, the kubeconfig, a certificate or the agent fails.
StepFails ==
  /\ stage \in {"load", "trace", "reverseProxy", "clientTls", "server"}
  /\ Die("environment")

KilledAtStart ==
  /\ stage \notin {"serving", "dead"}
  /\ Die("signal")

AgentComes ==
  /\ ~agent
  /\ stage \notin {"serving", "dead"}
  /\ agent' = TRUE
  /\ UNCHANGED <<vars, stage, cfg, logged, built, reason>>

Startup ==
  \/ Load \/ Log \/ SetupTracing \/ BuildReverseProxy \/ BuildInjector
  \/ BuildClientTLS \/ BuildMetrics \/ StartServing

Serving(A) == stage = "serving" /\ A /\ UNCHANGED startVars

SCNext ==
  \/ Startup \/ InjectorFails \/ StepFails \/ KilledAtStart \/ AgentComes
  \/ Serving(Next)

\* run() goes on; the injectors give an absent agent up after 10 seconds.  The
\* agent need never come.
SCFairness ==
  /\ WF_scVars(Startup)
  /\ WF_scVars(InjectorFails)
  /\ \A s \in Servers :
       WF_scVars(Serving(Serve(s))) /\ WF_scVars(Serving(Stop(s)))
  /\ WF_scVars(Serving(BeginShutdown)) /\ WF_scVars(Serving(CloseSPIFFE))
  /\ WF_scVars(Serving(Timeout)) /\ WF_scVars(Serving(EndShutdown))
  /\ WF_scVars(Serving(Exit))

SCSpec == SCInit /\ [][SCNext]_scVars /\ SCFairness

-----------------------------------------------------------------------------
\* A public path that net/http does not take: for itself, next to what the
\* reverse proxy registers for itself, or next to another one.
BadPublicPath ==
  LET paths == cfg.reverseProxy.publicPaths IN
  \E i \in DOMAIN paths :
    \/ ~Parses(paths[i])
    \/ Conflict(paths[i], "/health/") \/ Conflict(paths[i], "/")
    \/ \E j \in 1 .. (i - 1) : Conflict(paths[i], paths[j])

\* What Validate does not look at and a factory does.
Unchecked ==
  \/ ~Parses(cfg.observability.metrics.path)
  \/ BadPublicPath
  \/ ServerSVID /\ "malformed" \in {cfg.server.tls.spiffe.ids,
                                    cfg.server.tls.spiffe.trustDomain}

(* A configuration that Validate accepts is never the reason why a factory *)
(* fails or panics, for want of a section, an interval or a credential,    *)
(* in the default mode or in a rule; the metrics path, public paths and    *)
(* SPIFFE names above excepted, which only the factories look at           *)
(* (validation.go:195-236, 349-378, injector.go:22-44, verifier.go:30-50,  *)
(* reverseproxy/proxy.go:75-134).                                          *)
AcceptedConfigBuilds == reason = "configuration" => Unchecked

(* The copy that is logged shows no secret of the introspection client or  *)
(* of a rule, and the verifier is still given the real client secret       *)
(* (config.go:335-355, main.go:64-68).                                     *)
LoggedCopyRedacted ==
  logged # Nil =>
    /\ LET i == logged.reverseProxy.verification.introspection IN
       Present(i) =>
         i.clientSecret # "secret" /\
         cfg.reverseProxy.verification.introspection.clientSecret # "redacted"
    /\ \A k \in DOMAIN logged.forwardProxy.hostRules :
         LET v == logged.forwardProxy.hostRules[k].mode.vault IN
         Present(v) => v.token # "secret"

\* run() waits in spiffe.NewSource.
AwaitsAgent ==
  \/ stage = "clientTls" /\ ClientSVID /\ ~agent
  \/ stage = "server" /\ ServerSVID /\ ~agent

(* Starting ends: the process serves, or it is gone, or it waits in        *)
(* NewSource for a SPIRE agent that never comes (main.go:45-93,            *)
(* x509_source.go:42-49, jwt_source.go:34-50).                             *)
StartupSettles == <>[](stage \in {"serving", "dead"} \/ AwaitsAgent)

\* What can be seen of the process from outside.
LifePhase ==
  IF stage = "dead" \/ ~Running THEN "ended"
  ELSE IF stage # "serving" THEN "starting"
  ELSE IF ctxDone THEN "ending" ELSE "running"

Gate ==
  [s \in Servers |->
     IF stage # "serving" THEN "notYet"
     ELSE CASE serve[s] = "starting"  -> IF ShuttingDown(s) THEN "barred" ELSE "notYet"
            [] serve[s] = "listening" -> IF ShuttingDown(s) THEN "shut" ELSE "open"
            [] OTHER                  -> "shut"]

RequestAt ==
  [c \in Connections |-> IF conn[c].doing = "request" THEN conn[c].at ELSE "none"]

Life == INSTANCE Lifecycle WITH
  phase <- LifePhase, gate <- Gate, at <- RequestAt,
  failed <- \E s \in Servers : serve[s] = "failed",
  late <- cutOff, result <- IF stage = "dead" THEN "refused" ELSE exit

(* The process from its start to its end is what Lifecycle says: no server *)
(* opens again what Shutdown has closed, whenever its goroutine gets to    *)
(* run, and none fails for being closed; the process ends on a signal or a *)
(* failure only, after the last request or late; and it returns an error   *)
(* for one of these reasons only (main.go:45-116, server.go:99-221).       *)
ImplementsLifecycle == Life!Spec

(* Logging the configuration leaves it as it was: no Vault injector is     *)
(* built with a redacted token ("Original should be unchanged",            *)
(* config_test.go:393; "Sanitize returns a copy", config.go:334).          *)
InjectorsGetSecrets ==
  stage = "injectors" =>
    ~(NextInjector.type = "vault" /\ NextInjector.vault.authMethod = "token" /\
      NextInjector.vault.token = "redacted")
=============================================================================
