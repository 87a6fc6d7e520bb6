----------------------------- MODULE FileInjector -----------------------------
(***************************************************************************)
(* internal/tokeninjector/file_injector.go: the token of a file, kept in   *)
(* memory and reloaded by two goroutines, watchFile on file system events  *)
(* and periodicRefresh on a ticker.  loadToken reads the file without a    *)
(* lock and stores under tokenMu, so the two can read in one order and     *)
(* store in the other.                                                     *)
(*                                                                         *)
(* The file and fsnotify are external.  Whoever provisions the file writes *)
(* it in place (truncate, then write: two Write events) or replaces it     *)
(* (rename over it, or the symlink swap of a Kubernetes secret).  A watch  *)
(* belongs to the old file: after a replacement or a removal fsnotify      *)
(* drops it and sends a Remove event, on which watchFile does nothing.     *)
(***************************************************************************)
EXTENDS Integers

CONSTANTS
  Contents,    \* tokens the file can hold
  Empty,       \* the file is truncated, or only white space
  Missing,     \* there is no file
  MaxWrites    \* bound on the changes of the file

ASSUME FileAssumption ==
  /\ Empty \notin Contents
  /\ Missing \notin Contents
  /\ Empty # Missing
  /\ MaxWrites \in Nat

Loops == {"watch", "refresh"}

VARIABLES
  file,      \* what the path holds
  writes,    \* changes of the file so far
  phase,     \* how far NewFileInjector is
  watched,   \* fsnotify watches the file at the path
  events,    \* Write events not handled yet
  token,     \* i.token
  lpc,       \* lpc[l]: where loop l stands
  data,      \* data[l]: what its loadToken has read
  closed     \* i.done is closed, and the watcher

vars == <<file, writes, phase, watched, events, token, lpc, data, closed>>

TypeOK ==
  /\ file \in Contents \union {Empty, Missing}
  /\ writes \in 0 .. MaxWrites
  /\ phase \in {"new", "loaded", "running", "failed"}
  /\ watched \in BOOLEAN
  /\ events \in Nat
  /\ token \in Contents \union {Empty}
  /\ lpc \in [Loops -> {"off", "select", "read", "store"}]
  /\ data \in [Loops -> Contents \union {Empty}]
  /\ closed \in BOOLEAN

Init ==
  /\ file \in Contents \union {Empty, Missing}
  /\ writes = 0
  /\ phase = "new"
  /\ watched = FALSE
  /\ events = 0
  /\ token = Empty
  /\ lpc = [l \in Loops |-> "off"]
  /\ data = [l \in Loops |-> Empty]
  /\ closed = FALSE

\* NewFileInjector loads the token; without one it returns an error.
LoadInitial ==
  /\ phase = "new"
  /\ IF file \in Contents
     THEN token' = file /\ phase' = "loaded"
     ELSE phase' = "failed" /\ UNCHANGED token
  /\ UNCHANGED <<file, writes, watched, events, lpc, data, closed>>

\* Only then does it watch the file, and start both loops.  fsnotify may have
\* no watch to give, for a file that is there too.
AddWatch ==
  /\ phase = "loaded"
  /\ \/ /\ file # Missing
        /\ phase' = "running"
        /\ watched' = TRUE
        /\ lpc' = [l \in Loops |-> "select"]
     \/ phase' = "failed" /\ UNCHANGED <<watched, lpc>>
  /\ UNCHANGED <<file, writes, events, token, data, closed>>

\* Seeded fault: a receive that does not test whether there was an event.
HandleAnyEvent ==
  /\ lpc["watch"] = "select"
  /\ events' = events - 1
  /\ lpc' = [lpc EXCEPT !["watch"] = "read"]
  /\ UNCHANGED <<file, writes, phase, watched, token, data, closed>>

\* watchFile receives a Write event and calls loadToken.
HandleEvent ==
  /\ lpc["watch"] = "select"
  /\ events > 0
  /\ events' = events - 1
  /\ lpc' = [lpc EXCEPT !["watch"] = "read"]
  /\ UNCHANGED <<file, writes, phase, watched, token, data, closed>>

\* periodicRefresh receives a tick and calls loadToken.  The interval is
\* abstracted: a tick may come at any instant.
HandleTick ==
  /\ lpc["refresh"] = "select"
  /\ lpc' = [lpc EXCEPT !["refresh"] = "read"]
  /\ UNCHANGED <<file, writes, phase, watched, events, token, data, closed>>

\* Seeded fault: an empty file is not an error.
ReadFileUnchecked(l) ==
  /\ lpc[l] = "read"
  /\ IF file = Missing
     THEN lpc' = [lpc EXCEPT ![l] = "select"] /\ UNCHANGED data
     ELSE /\ data' = [data EXCEPT ![l] = file]
          /\ lpc' = [lpc EXCEPT ![l] = "store"]
  /\ UNCHANGED <<file, writes, phase, watched, events, token, closed>>

\* Seeded fault: the loop returns on an error.
ReadFileOrQuit(l) ==
  /\ lpc[l] = "read"
  /\ IF file \in Contents
     THEN /\ data' = [data EXCEPT ![l] = file]
          /\ lpc' = [lpc EXCEPT ![l] = "store"]
     ELSE lpc' = [lpc EXCEPT ![l] = "off"] /\ UNCHANGED data
  /\ UNCHANGED <<file, writes, phase, watched, events, token, closed>>

\* os.ReadFile and the test for an empty token; an error is only logged.
ReadFile(l) ==
  /\ lpc[l] = "read"
  /\ IF file \in Contents
     THEN /\ data' = [data EXCEPT ![l] = file]
          /\ lpc' = [lpc EXCEPT ![l] = "store"]
     ELSE lpc' = [lpc EXCEPT ![l] = "select"] /\ UNCHANGED data
  /\ UNCHANGED <<file, writes, phase, watched, events, token, closed>>

\* loadToken assigns i.token and returns to the loop.
StoreToken(l) ==
  /\ lpc[l] = "store"
  /\ token' = data[l]
  /\ data' = [data EXCEPT ![l] = Empty]
  /\ lpc' = [lpc EXCEPT ![l] = "select"]
  /\ UNCHANGED <<file, writes, phase, watched, events, closed>>

\* Close closes done and the watcher; its caller calls it once.
Close ==
  /\ phase = "running"
  /\ ~closed
  /\ closed' = TRUE
  /\ watched' = FALSE
  /\ UNCHANGED <<file, writes, phase, events, token, lpc, data>>

\* Seeded fault: watchFile does not wait for done.
StopLoopRefresh(l) ==
  /\ closed
  /\ l = "refresh" /\ lpc[l] = "select"
  /\ lpc' = [lpc EXCEPT ![l] = "off"]
  /\ UNCHANGED <<file, writes, phase, watched, events, token, data, closed>>

\* A loop's select takes the closed channel; while others are ready too it
\* may take one of them first.
StopLoop(l) ==
  /\ closed
  /\ lpc[l] = "select"
  /\ lpc' = [lpc EXCEPT ![l] = "off"]
  /\ UNCHANGED <<file, writes, phase, watched, events, token, data, closed>>

-----------------------------------------------------------------------------
\* The provisioner.  A Write event reaches the queue while the file is watched.
Notify == events' = IF watched THEN events + 1 ELSE events

Truncate ==
  /\ writes < MaxWrites
  /\ file \in Contents
  /\ file' = Empty
  /\ writes' = writes + 1
  /\ Notify
  /\ UNCHANGED <<phase, watched, token, lpc, data, closed>>

\* The second half of writing in place: it always follows.
Fill ==
  /\ file = Empty
  /\ file' \in Contents
  /\ Notify
  /\ UNCHANGED <<writes, phase, watched, token, lpc, data, closed>>

\* A new file takes the place of the old one, which is gone with its watch.
Replace ==
  /\ writes < MaxWrites
  /\ file' \in Contents
  /\ writes' = writes + 1
  /\ watched' = FALSE
  /\ UNCHANGED <<phase, events, token, lpc, data, closed>>

Remove ==
  /\ writes < MaxWrites
  /\ file # Missing
  /\ file' = Missing
  /\ writes' = writes + 1
  /\ watched' = FALSE
  /\ UNCHANGED <<phase, events, token, lpc, data, closed>>

Construct == LoadInitial \/ AddWatch
Load(l) == ReadFile(l) \/ StoreToken(l)
Provision == Truncate \/ Fill \/ Replace \/ Remove

Next ==
  \/ Construct
  \/ HandleEvent
  \/ HandleTick
  \/ \E l \in Loops : Load(l) \/ StopLoop(l)
  \/ Close
  \/ Provision

\* The goroutines run, the ticker ticks, and select chooses at random among
\* the channels that are ready, so a closed one is taken in the end.
Fairness ==
  /\ WF_vars(Construct)
  /\ WF_vars(HandleEvent)
  /\ WF_vars(HandleTick)
  /\ \A l \in Loops : WF_vars(Load(l)) /\ SF_vars(StopLoop(l))

Spec == Init /\ [][Next]_vars /\ Fairness

-----------------------------------------------------------------------------
(* Once the injector is built Inject always has a token to put into a      *)
(* request, whatever is done to the file: truncated, emptied or removed    *)
(* (file_injector.go:66-87, 148-155).                                      *)
InjectNeverFails == phase = "running" => token \in Contents

(* When the file stops changing, the token in memory becomes the one in    *)
(* the file and stays it, also after a replacement that ended the watch    *)
(* and after the two loops stored what they read in the wrong order        *)
(* (file_injector.go:66-138).                                              *)
TokenConverges ==
  \A v \in Contents :
    <>[](file = v /\ phase = "running" /\ ~closed) => <>[](token = v)

(* After Close both goroutines end (file_injector.go:115, 134, 168-174).   *)
CloseStopsLoops == closed ~> \A l \in Loops : lpc[l] = "off"
=============================================================================
