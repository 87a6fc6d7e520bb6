------------------------------- MODULE Lifecycle -------------------------------
(***************************************************************************)
(* What the process promises to whoever starts it and to its clients, with *)
(* goroutines, contexts and configuration out of sight.  A server opens    *)
(* its door once and shuts it once, for good, and to be told to shut it is *)
(* no failure.  The process begins to end for a reason: a signal, or a     *)
(* server that failed.  It is gone when all doors are shut and no request  *)
(* is left, or time ran out; its result is an error exactly for a reason,  *)
(* and never hides a lost request.                                         *)
(***************************************************************************)
CONSTANTS Servers, Connections

VARIABLES
  phase,      \* "starting", "running", "ending", "ended"
  gate,       \* gate[s]: whether s takes requests: "notYet", "open", "shut",
              \* or "barred": told not to open before it has
  at,         \* at[c]: the server that has a request of c in progress
  failed,     \* a server has failed
  late,       \* no more waiting: time is over, or the end itself failed
  result      \* "no" until the end

vars == <<phase, gate, at, failed, late, result>>

Nobody == "none"
Quiet == \A c \in Connections : at[c] = Nobody
Alive == phase \in {"running", "ending"}

Init ==
  /\ phase = "starting"
  /\ gate = [s \in Servers |-> "notYet"]
  /\ at = [c \in Connections |-> Nobody]
  /\ failed = FALSE
  /\ late = FALSE
  /\ result = "no"

\* The process gives up before it serves anybody.
Refuse ==
  /\ phase = "starting"
  /\ phase' = "ended"
  /\ result' = "refused"
  /\ UNCHANGED <<gate, at, failed, late>>

\* It starts the servers it was configured to have.
Start ==
  /\ phase = "starting"
  /\ phase' = "running"
  /\ \E S \in SUBSET Servers : gate' = [s \in Servers |-> IF s \in S THEN "notYet" ELSE "shut"]
  /\ UNCHANGED <<at, failed, late, result>>

Open(s) ==
  /\ Alive
  /\ gate[s] = "notYet"
  /\ gate' = [gate EXCEPT ![s] = "open"]
  /\ UNCHANGED <<phase, at, failed, late, result>>

Shut(s) ==
  /\ phase = "ending"
  /\ gate' = [gate EXCEPT ![s] = IF gate[s] = "notYet" THEN "barred" ELSE "shut"]
  /\ UNCHANGED <<phase, at, failed, late, result>>

Fail(s) ==
  /\ Alive
  /\ gate[s] # "shut"
  /\ phase' = "ending"
  /\ gate' = [gate EXCEPT ![s] = "shut"]
  /\ failed' = TRUE
  /\ UNCHANGED <<at, late, result>>

Signal ==
  /\ phase = "running"
  /\ phase' = "ending"
  /\ UNCHANGED <<gate, at, failed, late, result>>

Take(c, s) ==
  /\ Alive
  /\ gate[s] = "open"
  /\ at[c] = Nobody
  /\ at' = [at EXCEPT ![c] = s]
  /\ UNCHANGED <<phase, gate, failed, late, result>>

Finish(c) ==
  /\ Alive
  /\ at' = [at EXCEPT ![c] = Nobody]
  /\ UNCHANGED <<phase, gate, failed, late, result>>

StopWaiting ==
  /\ phase = "ending"
  /\ late' = TRUE
  /\ UNCHANGED <<phase, gate, at, failed, result>>

End ==
  /\ phase = "ending"
  /\ \A s \in Servers : gate[s] = "shut"
  /\ \/ result' = "ok" /\ Quiet /\ ~failed
     \/ result' = "error" /\ (late \/ (failed /\ Quiet))
  /\ phase' = "ended"
  /\ UNCHANGED <<gate, at, failed, late>>

Next ==
  \/ Refuse \/ Start \/ Signal \/ StopWaiting \/ End
  \/ \E s \in Servers : Open(s) \/ Shut(s) \/ Fail(s)
  \/ \E c \in Connections : Finish(c) \/ \E s \in Servers : Take(c, s)

Spec == Init /\ [][Next]_vars
=============================================================================
