-------------------------------- MODULE Server --------------------------------
(***************************************************************************)
(* internal/server/server.go and the end of cmd/klaviger/main.go: how the  *)
(* process starts its HTTP servers, and how it stops.                      *)
(*                                                                         *)
(* Start runs one goroutine per server and one that waits for the context: *)
(* cancelled by the signal handler, or by the errgroup when a server       *)
(* fails.  That one calls Shutdown, which runs one goroutine per server    *)
(* and one that closes the SPIFFE source, in an errgroup of its own: the   *)
(* first error cancels the context all of them wait with.  run() returns   *)
(* when all goroutines have, and with it the process ends.                 *)
(*                                                                         *)
(* net/http is external: Shutdown of a server closes its listener, waits   *)
(* until no connection serves a request, or until its context is done, and *)
(* does not wait for hijacked connections, the tunnels of CONNECT.         *)
(***************************************************************************)
CONSTANTS
  Servers,       \* "reverse" and "forward", and "metrics"
  Connections    \* connections of clients

ASSUME ServerAssumption == {"reverse", "forward"} \subseteq Servers

VARIABLES
  serve,       \* serve[s]: the goroutine that runs server s, if there is one
  conn,        \* conn[c]: the server c is at, and what it is doing there
  ctxDone,     \* the context of Start is cancelled
  stop,        \* stop[s]: the goroutine that shuts server s down
  spiffe,      \* the SPIFFE source of server.tls, and the goroutine that closes it
  shutdown,    \* the goroutine that waits for ctxDone and calls Shutdown
  cutOff,      \* the context of Shutdown is done
  deadline,    \* ... because its 30 seconds are over
  exit         \* what run() returned

vars == <<serve, conn, ctxDone, stop, spiffe, shutdown, cutOff, deadline, exit>>

NoConn == [at |-> "none", doing |-> "nothing"]

\* run() ends after Shutdown has: a server returns long before it is drained.
TypeOK ==
  /\ serve \in [Servers -> {"off", "starting", "listening", "closed", "failed"}]
  /\ conn \in [Connections ->
                 [at : Servers \union {"none"},
                  doing : {"nothing", "request", "tunnel"}]]
  /\ ctxDone \in BOOLEAN
  /\ stop \in [Servers -> {"idle", "called", "draining", "ok", "error"}]
  /\ spiffe \in {"none", "open", "closing", "closed", "error"}
  /\ shutdown \in {"waiting", "running", "ok", "error"}
  /\ cutOff \in BOOLEAN
  /\ deadline \in BOOLEAN
  /\ exit \in {"no", "ok", "error"}
  /\ exit # "no" => shutdown \in {"ok", "error"} /\ ctxDone

\* What New creates: the metrics server and the SPIFFE source are optional.
NewServers(metrics) ==
  [s \in Servers |-> IF s = "metrics" /\ ~metrics THEN "off" ELSE "starting"]
NewSource(hasSPIFFE) == IF hasSPIFFE THEN "open" ELSE "none"

Init ==
  /\ \E metrics, hasSPIFFE \in BOOLEAN :
       serve = NewServers(metrics) /\ spiffe = NewSource(hasSPIFFE)
  /\ conn = [c \in Connections |-> NoConn]
  /\ ctxDone = FALSE
  /\ stop = [s \in Servers |-> "idle"]
  /\ shutdown = "waiting"
  /\ cutOff = FALSE
  /\ deadline = FALSE
  /\ exit = "no"

Running == exit = "no"

\* Shutdown of s has been entered: Accept and Listen end with ErrServerClosed.
ShuttingDown(s) == stop[s] \in {"draining", "ok", "error"}

\* ListenAndServe opens the port.
Listen(s) ==
  /\ serve[s] = "starting"
  /\ ~ShuttingDown(s)
  /\ serve' = [serve EXCEPT ![s] = "listening"]
  /\ UNCHANGED <<conn, ctxDone, stop, spiffe, shutdown, cutOff, deadline, exit>>

\* Seeded fault: an error of ListenAndServe is only logged.
ServeFailsLogged(s) ==
  /\ \/ serve[s] = "starting"
     \/ serve[s] = "listening" /\ ~ShuttingDown(s)
  /\ serve' = [serve EXCEPT ![s] = "failed"]
  /\ UNCHANGED <<conn, ctxDone, stop, spiffe, shutdown, cutOff, deadline, exit>>

\* The port is taken or a certificate missing (found out before or after
\* Shutdown has begun), or Accept fails for good: the goroutine returns an
\* error and the errgroup cancels the context.
ServeFails(s) ==
  /\ \/ serve[s] = "starting"
     \/ serve[s] = "listening" /\ ~ShuttingDown(s)
  /\ serve' = [serve EXCEPT ![s] = "failed"]
  /\ ctxDone' = TRUE
  /\ UNCHANGED <<conn, stop, spiffe, shutdown, cutOff, deadline, exit>>

\* Seeded fault: ErrServerClosed is taken for an error.
ServeReturnsError(s) ==
  /\ serve[s] \in {"starting", "listening"}
  /\ ShuttingDown(s)
  /\ serve' = [serve EXCEPT ![s] = "failed"]
  /\ UNCHANGED <<conn, ctxDone, stop, spiffe, shutdown, cutOff, deadline, exit>>

\* ErrServerClosed is no error.
ServeReturns(s) ==
  /\ serve[s] \in {"starting", "listening"}
  /\ ShuttingDown(s)
  /\ serve' = [serve EXCEPT ![s] = "closed"]
  /\ UNCHANGED <<conn, ctxDone, stop, spiffe, shutdown, cutOff, deadline, exit>>

\* main's goroutine receives SIGINT or SIGTERM and cancels the context.
Signal ==
  /\ Running
  /\ ~ctxDone
  /\ ctxDone' = TRUE
  /\ UNCHANGED <<serve, conn, stop, spiffe, shutdown, cutOff, deadline, exit>>

\* The waiting goroutine wakes up and calls Shutdown.
BeginShutdown ==
  /\ shutdown = "waiting"
  /\ ctxDone
  /\ shutdown' = "running"
  /\ stop' = [s \in Servers |-> IF serve[s] = "off" THEN "ok" ELSE "called"]
  /\ spiffe' = IF spiffe = "open" THEN "closing" ELSE spiffe
  /\ UNCHANGED <<serve, conn, ctxDone, cutOff, deadline, exit>>

\* http.Server.Shutdown closes the listener and begins to wait.
CloseListener(s) ==
  /\ stop[s] = "called"
  /\ stop' = [stop EXCEPT ![s] = "draining"]
  /\ UNCHANGED <<serve, conn, ctxDone, spiffe, shutdown, cutOff, deadline, exit>>

\* Connections of s with a request in progress; a tunnel is not among them.
Busy(s) == {c \in Connections : conn[c] = [at |-> s, doing |-> "request"]}

\* Seeded fault: the listener is closed and nothing is waited for.
DrainedAtOnce(s) ==
  /\ stop[s] = "draining"
  /\ stop' = [stop EXCEPT ![s] = "ok"]
  /\ UNCHANGED <<serve, conn, ctxDone, spiffe, shutdown, cutOff, deadline, exit>>

Drained(s) ==
  /\ stop[s] = "draining"
  /\ Busy(s) = {}
  /\ stop' = [stop EXCEPT ![s] = "ok"]
  /\ UNCHANGED <<serve, conn, ctxDone, spiffe, shutdown, cutOff, deadline, exit>>

\* The context is done first: an error, which cancels it for the others too.
DrainCutOff(s) ==
  /\ stop[s] = "draining"
  /\ cutOff
  /\ stop' = [stop EXCEPT ![s] = "error"]
  /\ UNCHANGED <<serve, conn, ctxDone, spiffe, shutdown, cutOff, deadline, exit>>

CloseSPIFFE ==
  /\ spiffe = "closing"
  /\ \/ spiffe' = "closed" /\ UNCHANGED cutOff
     \/ spiffe' = "error" /\ cutOff' = TRUE
  /\ UNCHANGED <<serve, conn, ctxDone, stop, shutdown, deadline, exit>>

\* Seeded fault: Shutdown waits with a context that has no timeout.
NoTimeout == FALSE /\ UNCHANGED vars

\* 30 seconds after Shutdown was called.
Timeout ==
  /\ shutdown = "running"
  /\ ~deadline
  /\ deadline' = TRUE
  /\ cutOff' = TRUE
  /\ UNCHANGED <<serve, conn, ctxDone, stop, spiffe, shutdown, exit>>

\* g.Wait() of Shutdown.
EndShutdown ==
  /\ shutdown = "running"
  /\ \A s \in Servers : stop[s] \in {"ok", "error"}
  /\ spiffe # "closing"
  /\ shutdown' = IF spiffe = "error" \/ \E s \in Servers : stop[s] = "error"
                 THEN "error" ELSE "ok"
  /\ UNCHANGED <<serve, conn, ctxDone, stop, spiffe, cutOff, deadline, exit>>

\* g.Wait() of Start; run() returns and the process with all connections ends.
Exit ==
  /\ Running
  /\ shutdown \in {"ok", "error"}
  /\ \A s \in Servers : serve[s] \in {"off", "closed", "failed"}
  /\ exit' = IF shutdown = "error" \/ \E s \in Servers : serve[s] = "failed"
             THEN "error" ELSE "ok"
  /\ UNCHANGED <<serve, conn, ctxDone, stop, spiffe, shutdown, cutOff, deadline>>

-----------------------------------------------------------------------------
\* The clients.  A request that arrived before the listener closed is served.
Request(c) ==
  /\ Running
  /\ conn[c] = NoConn
  /\ \E s \in Servers :
       /\ serve[s] = "listening"
       /\ ~ShuttingDown(s)
       /\ conn' = [conn EXCEPT ![c] = [at |-> s, doing |-> "request"]]
  /\ UNCHANGED <<serve, ctxDone, stop, spiffe, shutdown, cutOff, deadline, exit>>

\* handleConnect hijacks the connection.
Hijack(c) ==
  /\ Running
  /\ conn[c] = [at |-> "forward", doing |-> "request"]
  /\ conn' = [conn EXCEPT ![c].doing = "tunnel"]
  /\ UNCHANGED <<serve, ctxDone, stop, spiffe, shutdown, cutOff, deadline, exit>>

Done(c) ==
  /\ Running
  /\ conn[c] # NoConn
  /\ conn' = [conn EXCEPT ![c] = NoConn]
  /\ UNCHANGED <<serve, ctxDone, stop, spiffe, shutdown, cutOff, deadline, exit>>

Serve(s) == Listen(s) \/ ServeReturns(s)
Stop(s) == CloseListener(s) \/ Drained(s) \/ DrainCutOff(s)
Clients == \E c \in Connections : Request(c) \/ Hijack(c) \/ Done(c)

Next ==
  \/ \E s \in Servers : Serve(s) \/ ServeFails(s) \/ Stop(s)
  \/ Signal \/ BeginShutdown \/ CloseSPIFFE \/ Timeout \/ EndShutdown \/ Exit
  \/ Clients

\* The goroutines run and the timer fires; no client has to finish anything.
Fairness ==
  /\ \A s \in Servers : WF_vars(Serve(s)) /\ WF_vars(Stop(s))
  /\ WF_vars(BeginShutdown) /\ WF_vars(CloseSPIFFE) /\ WF_vars(Timeout)
  /\ WF_vars(EndShutdown) /\ WF_vars(Exit)

Spec == Init /\ [][Next]_vars /\ Fairness

-----------------------------------------------------------------------------
(* After a signal the process ends, even if clients keep their requests    *)
(* open for ever, and whatever fails on the way (server.go:163-221,        *)
(* main.go:95-115).                                                        *)
SignalEndsProcess == ctxDone ~> ~Running

(* A server that cannot listen or accept any more takes the process down,  *)
(* with an error: the sidecar never limps on with one proxy only           *)
(* (server.go:129-146, 170).                                               *)
FailureEndsProcess == \A s \in Servers : serve[s] = "failed" ~> exit = "error"

(* The process ends with a request still being served only if the 30       *)
(* seconds are over or closing the SPIFFE source failed, and then run()    *)
(* returns an error (server.go:173-221).                                   *)
RequestsDrained ==
  \A s \in Servers :
    (~Running /\ Busy(s) # {}) =>
      (deadline \/ spiffe = "error") /\ exit = "error"
=============================================================================
