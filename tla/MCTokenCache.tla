----------------------------- MODULE MCTokenCache -----------------------------
(* A small instance of TokenCache; one ttl is in the past.                *)
EXTENDS TokenCache

MCTTLs == {-1, 0, 2}
=============================================================================
