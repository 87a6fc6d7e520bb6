---------------------------- MODULE MCReverseProxy ----------------------------
(* One request of every kind that is handled differently.                  *)
EXTENDS MCJWTVerifier, ReverseProxy

Req(path, preflight, bearer) ==
  [path |-> path, preflight |-> preflight, bearer |-> bearer]

MCTokens == {Genuine(kA, 9), Genuine(kA, 1), Forged, Unscoped}

MCRequests == {Req("health", FALSE, FALSE), Req("public", TRUE, FALSE),
               Req("guarded", TRUE, TRUE), Req("guarded", FALSE, FALSE),
               Req("guarded", FALSE, TRUE)}
=============================================================================
