------------------------------ MODULE TokenStore ------------------------------
(***************************************************************************)
(* What a token cache promises its callers: a store whose tokens vanish at *)
(* the very instant their time to live is over.  TokenCache keeps expired  *)
(* entries in its map and hides them; it implements this specification.    *)
(***************************************************************************)
EXTENDS Integers

CONSTANTS Keys, Tokens, TTLs, Nothing

VARIABLES
  now,     \* the clock
  held,    \* held[k]: the token a caller can get for k and its last instant
  reply    \* the answer of the latest Get

vars == <<now, held, reply>>

Init ==
  /\ now = 0
  /\ held = [k \in Keys |-> Nothing]
  /\ reply = Nothing

\* Get answers with the token held at this instant, or with a miss.
Ask(k) ==
  /\ reply' = IF held[k] = Nothing THEN Nothing ELSE held[k].token
  /\ UNCHANGED <<now, held>>

\* Set replaces what is held; a negative ttl leaves nothing to hold.
Keep(k, token, ttl) ==
  /\ held' = [held EXCEPT ![k] = IF ttl < 0 THEN Nothing
                                 ELSE [token |-> token, until |-> now + ttl]]
  /\ UNCHANGED <<now, reply>>

\* Delete and Clear.
Forget(S) ==
  /\ held' = [k \in Keys |-> IF k \in S THEN Nothing ELSE held[k]]
  /\ UNCHANGED <<now, reply>>

\* Time passes, and takes with it every token whose last instant is over.
Tick ==
  /\ now' = now + 1
  /\ held' = [k \in Keys |->
                IF held[k] # Nothing /\ held[k].until >= now' THEN held[k]
                ELSE Nothing]
  /\ UNCHANGED reply

Next ==
  \/ \E k \in Keys : Ask(k) \/ Forget({k})
  \/ \E k \in Keys, token \in Tokens, ttl \in TTLs : Keep(k, token, ttl)
  \/ Forget(Keys)
  \/ Tick

Spec == Init /\ [][Next]_vars
=============================================================================
