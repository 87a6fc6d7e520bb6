---------------------------- MODULE TokenInjection ----------------------------
(***************************************************************************)
(* What an injector with a cache promises to the request that waits for    *)
(* it, with cache, clock of the remote and other requests out of sight:    *)
(* the request goes on as it came if it brought no subject, it fails, or   *)
(* it leaves with one token, issued for a subject with the same cache key  *)
(* and recently.  Inject is called once for a request; nothing puts in a   *)
(* second token later, or takes the first away.                            *)
(***************************************************************************)
EXTENDS Integers

CONSTANTS
  Requests,      \* request goroutines
  Subjects,      \* what a token is issued for
  CacheKey,      \* CacheKey[s]: subjects with the same key are not told apart
  CacheTTL,      \* the configured limit of reuse
  Lifetimes,     \* what remotes say of the life of a token, in seconds
  Second,        \* ticks of the clock in one second
  HttpTimeout,   \* the longest a remote can take
  NoSubject, NoToken

VARIABLES
  now,        \* the process's monotonic clock
  subject,    \* subject[r]: what the request brought
  progress,   \* progress[r]: what Inject has come to
  header      \* header[r]: the token put into the request

vars == <<now, subject, progress, header>>

Token == [sub : Subjects, issued : Int, life : Lifetimes]

\* tok can be put at time t into a request that brought s.
Usable(tok, s, t) ==
  /\ tok \in Token
  /\ CacheKey[tok.sub] = CacheKey[s]
  /\ tok.life > 0 => t <= tok.issued + tok.life * Second + HttpTimeout
  /\ t <= tok.issued + CacheTTL + HttpTimeout

Init ==
  /\ now = 0
  /\ subject = [r \in Requests |-> NoSubject]
  /\ progress = [r \in Requests |-> "idle"]
  /\ header = [r \in Requests |-> NoToken]

\* A goroutine turns to a new request; without a subject it is done with it.
Arrive(r) ==
  /\ progress[r] # "busy"
  /\ \E s \in Subjects \union {NoSubject} :
       /\ subject' = [subject EXCEPT ![r] = s]
       /\ progress' = [progress EXCEPT ![r] = IF s = NoSubject THEN "done" ELSE "busy"]
  /\ header' = [header EXCEPT ![r] = NoToken]
  /\ UNCHANGED now

Succeed(r) ==
  /\ progress[r] = "busy"
  /\ Usable(header'[r], subject[r], now)
  /\ header' = [header EXCEPT ![r] = header'[r]]
  /\ progress' = [progress EXCEPT ![r] = "done"]
  /\ UNCHANGED <<now, subject>>

Fail(r) ==
  /\ progress[r] = "busy"
  /\ progress' = [progress EXCEPT ![r] = "failed"]
  /\ UNCHANGED <<now, subject, header>>

Tick == now' = now + 1 /\ UNCHANGED <<subject, progress, header>>

Next == (\E r \in Requests : Arrive(r) \/ Succeed(r) \/ Fail(r)) \/ Tick

Spec == Init /\ [][Next]_vars
=============================================================================
