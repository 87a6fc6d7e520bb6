---------------------------- MODULE MCOAuthInjector ----------------------------
(* Small instances of OAuthInjector: subjects s1 and s2 start with the same *)
(* 16 characters, s3 does not.                                              *)
EXTENDS OAuthInjector, TLC

CONSTANTS s1, s2, s3, k1, k2, r1, r2

TwoRequests == {r1, r2}
Symmetry == Permutations(TwoRequests)

\* Two subjects with the same key, and a third.
SharedSubjects == {s1, s2, s3}
SharedKeys == {k1, k2}
SharedPrefix == [s \in SharedSubjects |-> IF s = s3 THEN k2 ELSE k1]

\* Two subjects that differ within their first 16 characters.
DistinctSubjects == {s1, s3}
DistinctKeys == {k1, k2}
DistinctPrefix == [s \in DistinctSubjects |-> IF s = s3 THEN k2 ELSE k1]

\* Two subjects that do not.
ClashSubjects == {s1, s2}
ClashKeys == {k1}
ClashPrefix == [s \in ClashSubjects |-> k1]
=============================================================================
