------------------------------- MODULE MCAuthToken -------------------------------
(* SVIDs that arrive expired, at their end, and with one, two or three units *)
(* left.                                                                     *)
EXTENDS AuthToken

MCLifetimes == {-1, 0, 1, 2, 3}
=============================================================================
