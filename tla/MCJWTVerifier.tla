----------------------------- MODULE MCJWTVerifier -----------------------------
(* Small instances of JWTVerifier: two goroutines, two keys.               *)
EXTENDS JWTVerifier, TLC

CONSTANTS c1, c2, kA, kB

TwoCallers == {c1, c2}
TwoKids == {kA, kB}
OneKid == {kA}
Symmetry == Permutations(TwoCallers)

MCIssuer == "issuer"
MCAudience == "api"
MCScopes == {"read"}

\* A token whose claims pass all checks, and what is wrong with the others.
Genuine(k, exp) == [kid |-> k, signer |-> k, exp |-> exp, iss |-> "issuer",
                    aud |-> {"api"}, scopes |-> {"read"}]
Forged == [Genuine(kA, 9) EXCEPT !.signer = Stranger]
Unnamed == [Genuine(kA, 9) EXCEPT !.kid = NoKid]
Unscoped == [Genuine(kA, 9) EXCEPT !.scopes = {}]

SomeTokens == {Genuine(kA, 9), Unnamed}
=============================================================================
