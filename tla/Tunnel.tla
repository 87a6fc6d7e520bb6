--------------------------------- MODULE Tunnel ---------------------------------
(***************************************************************************)
(* internal/forwardproxy/proxy.go, handleConnect: what the forward proxy   *)
(* does with a CONNECT request.                                            *)
(*                                                                         *)
(* The handler dials the destination, takes the client's connection over   *)
(* (Hijack) and starts two goroutines, each with an io.Copy in one         *)
(* direction.  It waits for a context that each of them cancels when its   *)
(* copy ends, and its deferred calls then close both connections, which    *)
(* makes the other copy fail.  No deadline applies to a hijacked           *)
(* connection: a silent tunnel stays open.                                 *)
(*                                                                         *)
(* The context derives from the request's.  Until Hijack net/http reads    *)
(* from the client in the background and cancels it when the client is     *)
(* gone, but that read ends with the first byte it gets.                   *)
(***************************************************************************)
EXTENDS Naturals

CONSTANTS
  Handlers,     \* goroutines of net/http that may run handleConnect
  MaxPieces     \* bound on what a peer sends through a tunnel

VARIABLES
  stage,     \* stage[h]: how far handleConnect is; its connections are open
             \* while it is "copying" and closed afterwards
  ctxDone,   \* ctxDone[h]: the context the handler waits for is cancelled
  flow,      \* flow[h][d]: what the sending peer of direction d has sent, what
             \* of it was delivered, and whether the peer has ended its side
  copier,    \* copier[h][d]: the goroutine that copies in direction d
  reset      \* reset[h]: one of the connections broke

tunnelVars == <<stage, ctxDone, flow, copier, reset>>

Directions == {"up", "down"}

NoFlow == [d \in Directions |-> [sent |-> 0, moved |-> 0, fin |-> FALSE]]
NoCopier == [d \in Directions |-> "none"]

TunnelTypeOK ==
  /\ stage \in [Handlers -> {"none", "dial", "refused", "copying", "closed"}]
  /\ ctxDone \in [Handlers -> BOOLEAN]
  /\ flow \in [Handlers -> [Directions -> [sent : Nat, moved : Nat, fin : BOOLEAN]]]
  /\ copier \in [Handlers -> [Directions -> {"none", "running", "ended"}]]
  /\ reset \in [Handlers -> BOOLEAN]
  /\ \A h \in Handlers, d \in Directions :
       /\ flow[h][d].moved <= flow[h][d].sent
       /\ copier[h][d] = "none" <=> stage[h] \in {"none", "dial", "refused"}

TunnelInit ==
  /\ stage = [h \in Handlers |-> "none"]
  /\ ctxDone = [h \in Handlers |-> FALSE]
  /\ flow = [h \in Handlers |-> NoFlow]
  /\ copier = [h \in Handlers |-> NoCopier]
  /\ reset = [h \in Handlers |-> FALSE]

\* Neither the handler nor a copier of an earlier tunnel runs on behalf of h.
Over(h) ==
  /\ stage[h] \in {"none", "refused", "closed"}
  /\ \A d \in Directions : copier[h][d] # "running"

\* h is another goroutine from now on, at stage st.
Renew(h, st) ==
  /\ Over(h)
  /\ stage' = [stage EXCEPT ![h] = st]
  /\ ctxDone' = [ctxDone EXCEPT ![h] = FALSE]
  /\ flow' = [flow EXCEPT ![h] = NoFlow]
  /\ copier' = [copier EXCEPT ![h] = NoCopier]
  /\ reset' = [reset EXCEPT ![h] = FALSE]

\* A CONNECT request: net.DialTimeout is called.
Connect(h) == Renew(h, "dial")

\* No connection to the destination, within 10 seconds at the latest: 502.  Or
\* the connection of the client cannot be taken over: 500.
Refuse(h) ==
  /\ stage[h] = "dial"
  /\ stage' = [stage EXCEPT ![h] = "refused"]
  /\ UNCHANGED <<ctxDone, flow, copier, reset>>

\* The destination has answered: Hijack, 200, and both copies start.
Establish(h) ==
  /\ stage[h] = "dial"
  /\ stage' = [stage EXCEPT ![h] = "copying"]
  /\ copier' = [copier EXCEPT ![h] = [d \in Directions |-> "running"]]
  /\ UNCHANGED <<ctxDone, flow, reset>>

\* io.Copy reads a piece and writes it to the other connection.
Copy(h, d) ==
  /\ copier[h][d] = "running"
  /\ stage[h] = "copying"
  /\ ~reset[h]
  /\ flow[h][d].moved < flow[h][d].sent
  /\ flow' = [flow EXCEPT ![h][d].moved = @ + 1]
  /\ UNCHANGED <<stage, ctxDone, copier, reset>>

\* Nothing more comes, or the connections are broken or closed.
CopyIsOver(h, d) ==
  /\ copier[h][d] = "running"
  /\ \/ flow[h][d].fin /\ flow[h][d].moved = flow[h][d].sent
     \/ reset[h]
     \/ stage[h] = "closed"

\* Seeded fault: the goroutine that copies downwards does not cancel.
CopyEndsUncancelled(h, d) ==
  /\ CopyIsOver(h, d)
  /\ copier' = [copier EXCEPT ![h][d] = "ended"]
  /\ ctxDone' = [ctxDone EXCEPT ![h] = @ \/ d = "up"]
  /\ UNCHANGED <<stage, flow, reset>>

\* io.Copy returns and the goroutine cancels the context.
CopyEnds(h, d) ==
  /\ CopyIsOver(h, d)
  /\ copier' = [copier EXCEPT ![h][d] = "ended"]
  /\ ctxDone' = [ctxDone EXCEPT ![h] = TRUE]
  /\ UNCHANGED <<stage, flow, reset>>

\* Seeded fault: the handler does not wait for the copies.
HandlerReturnsAtOnce(h) ==
  /\ stage[h] = "copying"
  /\ stage' = [stage EXCEPT ![h] = "closed"]
  /\ UNCHANGED <<ctxDone, flow, copier, reset>>

\* The context is done: the deferred calls close both connections.
HandlerReturns(h) ==
  /\ stage[h] = "copying"
  /\ ctxDone[h]
  /\ stage' = [stage EXCEPT ![h] = "closed"]
  /\ UNCHANGED <<ctxDone, flow, copier, reset>>

-----------------------------------------------------------------------------
\* The client may send before it is answered, the destination once it has
\* been dialled.
CanSend(h, d) ==
  /\ stage[h] = "copying" \/ (stage[h] = "dial" /\ d = "up")
  /\ ~flow[h][d].fin
  /\ ~reset[h]

Send(h, d) ==
  /\ CanSend(h, d)
  /\ flow[h][d].sent < MaxPieces
  /\ flow' = [flow EXCEPT ![h][d].sent = @ + 1]
  /\ UNCHANGED <<stage, ctxDone, copier, reset>>

\* A peer ends its side.  The background read notices a client that leaves
\* before Hijack and has sent nothing.
Finish(h, d) ==
  /\ CanSend(h, d)
  /\ flow' = [flow EXCEPT ![h][d].fin = TRUE]
  /\ ctxDone' = [ctxDone EXCEPT ![h] =
                   @ \/ (stage[h] = "dial" /\ flow[h][d].sent = 0)]
  /\ UNCHANGED <<stage, copier, reset>>

\* A connection breaks, and what was under way is forgotten.
Break(h) ==
  /\ stage[h] = "copying"
  /\ ~reset[h]
  /\ reset' = [reset EXCEPT ![h] = TRUE]
  /\ flow' = [flow EXCEPT ![h] = NoFlow]
  /\ UNCHANGED <<stage, ctxDone, copier>>

Dial(h) == Refuse(h) \/ Establish(h)
Peers(h) == Break(h) \/ \E d \in Directions : Send(h, d) \/ Finish(h, d)

TunnelStep(h) ==
  \/ Dial(h) \/ HandlerReturns(h) \/ Peers(h)
  \/ \E d \in Directions : Copy(h, d) \/ CopyEnds(h, d)

-----------------------------------------------------------------------------
(* A tunnel whose connections did not break is closed only when everything *)
(* one of the peers has sent was delivered, what the client sent before    *)
(* the tunnel stood included; the other direction may be cut off           *)
(* (proxy.go:262-300).                                                     *)
OneDirectionDelivered ==
  \A h \in Handlers :
    (stage[h] = "closed" /\ ~reset[h]) =>
      \E d \in Directions :
        flow[h][d].fin /\ flow[h][d].moved = flow[h][d].sent

(* When one copy has ended, the handler closes both connections and the    *)
(* other goroutine ends too, though its peers stay silent for ever         *)
(* (proxy.go:282-295).                                                     *)
TunnelUnwinds ==
  \A h \in Handlers :
    (\E d \in Directions : copier[h][d] = "ended") ~>
      (stage[h] = "closed" /\ \A d \in Directions : copier[h][d] = "ended")
=============================================================================
