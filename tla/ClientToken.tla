------------------------------ MODULE ClientToken ------------------------------
(***************************************************************************)
(* getK8sToken of internal/tokeninjector/oauth_exchange.go: the token the  *)
(* OAuth injector authenticates itself with, read from a file and kept for *)
(* five minutes.  The look at the cached token, the read of the file and   *)
(* the store are three steps; the lock is held in the first and the last,  *)
(* and the store looks at nothing: a goroutine that read the file early    *)
(* can store late, over a newer token, with the time of the store.         *)
(*                                                                         *)
(* The file is external: its owner replaces the token again and again, or  *)
(* takes it away.                                                          *)
(***************************************************************************)
EXTENDS Integers

CONSTANTS
  Requests,      \* goroutines that exchange tokens
  Period,        \* five minutes
  ReadTime,      \* the longest time between a read and its store
  MaxTime,       \* bound on the clock
  MaxVersions,   \* bound on the tokens the file ever holds
  NoToken        \* no token: none cached, none in the file, none returned

ASSUME ClientTokenAssumption ==
  /\ Period \in Nat \ {0}
  /\ ReadTime \in Nat
  /\ MaxTime \in Nat
  /\ MaxVersions \in Nat \ {0}
  /\ NoToken \notin Nat

VARIABLES
  now,       \* the process's monotonic clock
  current,   \* the token in the file, numbered in the order they were put there
  newest,    \* the last number given
  endedAt,   \* endedAt[v]: when v was replaced or taken away
  cached,    \* i.k8sToken
  storedAt,  \* i.k8sTokenTime
  pc,        \* pc[r]: where the goroutine stands in getK8sToken
  held,      \* held[r]: the token it has read, or returns
  readAt     \* readAt[r]: when it read the file

vars == <<now, current, newest, endedAt, cached, storedAt, pc, held, readAt>>

Versions == 1 .. MaxVersions

TypeOK ==
  /\ now \in Nat
  /\ current \in {NoToken} \union Versions
  /\ newest \in Versions
  /\ endedAt \in [Versions -> Nat]
  /\ cached \in {NoToken} \union Versions
  /\ storedAt \in Nat
  /\ pc \in [Requests -> {"idle", "check", "read", "store", "done"}]
  /\ held \in [Requests -> {NoToken} \union Versions]
  /\ \A r \in Requests : pc[r] = "store" => held[r] # NoToken
  /\ readAt \in [Requests -> Nat]

Init ==
  /\ now = 0
  /\ current = 1
  /\ newest = 1
  /\ endedAt = [v \in Versions |-> 0]
  /\ cached = NoToken
  /\ storedAt = 0
  /\ pc = [r \in Requests |-> "idle"]
  /\ held = [r \in Requests |-> NoToken]
  /\ readAt = [r \in Requests |-> 0]

Call(r) ==
  /\ pc[r] \in {"idle", "done"}
  /\ pc' = [pc EXCEPT ![r] = "check"]
  /\ held' = [held EXCEPT ![r] = NoToken]
  /\ UNCHANGED <<now, current, newest, endedAt, cached, storedAt, readAt>>

\* Seeded fault: a cached token is used whatever its age.
CheckOnce(r) ==
  /\ pc[r] = "check"
  /\ IF cached # NoToken
     THEN pc' = [pc EXCEPT ![r] = "done"] /\ held' = [held EXCEPT ![r] = cached]
     ELSE pc' = [pc EXCEPT ![r] = "read"] /\ UNCHANGED held
  /\ UNCHANGED <<now, current, newest, endedAt, cached, storedAt, readAt>>

\* Under the read lock: return the cached token while it is young.
Check(r) ==
  /\ pc[r] = "check"
  /\ IF cached # NoToken /\ now - storedAt < Period
     THEN pc' = [pc EXCEPT ![r] = "done"] /\ held' = [held EXCEPT ![r] = cached]
     ELSE pc' = [pc EXCEPT ![r] = "read"] /\ UNCHANGED held
  /\ UNCHANGED <<now, current, newest, endedAt, cached, storedAt, readAt>>

\* Seeded fault: the test for an empty file is missing.
ReadFileUnchecked(r) ==
  /\ pc[r] = "read"
  /\ held' = [held EXCEPT ![r] = current]
  /\ readAt' = [readAt EXCEPT ![r] = now]
  /\ pc' = [pc EXCEPT ![r] = "store"]
  /\ UNCHANGED <<now, current, newest, endedAt, cached, storedAt>>

\* os.ReadFile; without a token in the file an error is returned.
ReadFile(r) ==
  /\ pc[r] = "read"
  /\ IF current = NoToken
     THEN pc' = [pc EXCEPT ![r] = "done"] /\ UNCHANGED <<held, readAt>>
     ELSE /\ held' = [held EXCEPT ![r] = current]
          /\ readAt' = [readAt EXCEPT ![r] = now]
          /\ pc' = [pc EXCEPT ![r] = "store"]
  /\ UNCHANGED <<now, current, newest, endedAt, cached, storedAt>>

\* Under the write lock: cache the token and the time; return it.
Store(r) ==
  /\ pc[r] = "store"
  /\ cached' = held[r]
  /\ storedAt' = now
  /\ readAt' = [readAt EXCEPT ![r] = 0]
  /\ pc' = [pc EXCEPT ![r] = "done"]
  /\ UNCHANGED <<now, current, newest, endedAt, held>>

\* A new token takes the place of the old one.
Rotate ==
  /\ newest < MaxVersions
  /\ newest' = newest + 1
  /\ current' = newest'
  /\ endedAt' = IF current = NoToken THEN endedAt
                ELSE [endedAt EXCEPT ![current] = now]
  /\ UNCHANGED <<now, cached, storedAt, pc, held, readAt>>

\* The file is emptied or removed.
TakeAway ==
  /\ current # NoToken
  /\ current' = NoToken
  /\ endedAt' = [endedAt EXCEPT ![current] = now]
  /\ UNCHANGED <<now, newest, cached, storedAt, pc, held, readAt>>

\* Time does not run past ReadTime between a read and its store.
Tick ==
  /\ now < MaxTime
  /\ \A r \in Requests : pc[r] = "store" => now < readAt[r] + ReadTime
  /\ now' = now + 1
  /\ UNCHANGED <<current, newest, endedAt, cached, storedAt, pc, held, readAt>>

getK8sToken(r) == Check(r) \/ ReadFile(r) \/ Store(r)

Next ==
  \/ \E r \in Requests : Call(r) \/ getK8sToken(r)
  \/ Rotate
  \/ TakeAway
  \/ Tick

Spec == Init /\ [][Next]_vars

-----------------------------------------------------------------------------
\* The call of r ends in this step with a token.
Returns(r) == pc[r] # "done" /\ pc'[r] = "done" /\ held'[r] # NoToken

(* A token returned is still in the file or left it less than Period plus  *)
(* ReadTime ago, although a late store can bring back an older token with  *)
(* a new time (oauth_exchange.go:204-237).                                 *)
ReturnedTokenIsRecent ==
  [][\A r \in Requests :
       Returns(r) => \/ held'[r] = current
                     \/ now < endedAt[held'[r]] + Period + ReadTime]_vars
=============================================================================
