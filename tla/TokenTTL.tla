------------------------------ MODULE TokenTTL ------------------------------
(***************************************************************************)
(* How long an exchanged token or a Vault secret stays in the cache:       *)
(* the computation oauth_exchange.go and vault_injector.go share.          *)
(*                                                                         *)
(* Both turn a number of whole seconds (expires_in, lease_duration; any    *)
(* int64 the remote sends) into a time.Duration and take it when it is     *)
(* below the configured cacheTtl.  A time.Duration is an int64 number of   *)
(* nanoseconds, so the product wraps around.                               *)
(***************************************************************************)
EXTENDS Integers

CONSTANTS
  Second,      \* time.Second: clock units in one second
  HalfRange    \* 2^63 for int64: a Duration is in -HalfRange .. HalfRange-1

ASSUME DurationAssumption ==
  /\ Second \in Nat \ {0}
  /\ HalfRange \in Nat \ {0}

\* The value a signed integer of this width holds after an exact result x.
Wrap(x) == ((x + HalfRange) % (2 * HalfRange)) - HalfRange

\* Seeded fault: expires_in is ignored.
EffectiveTTLFixed(cap, secs) == cap

\* Seeded fault: cacheTtl is no upper bound.
EffectiveTTLUncapped(cap, secs) == IF secs > 0 THEN Wrap(secs * Second) ELSE cap

\* The ttl handed to TokenCache.Set: cap is cacheTtl, secs what the remote said.
EffectiveTTL(cap, secs) ==
  LET tokenTTL == Wrap(secs * Second)
  IN  IF secs > 0 /\ tokenTTL < cap THEN tokenTTL ELSE cap
=============================================================================
