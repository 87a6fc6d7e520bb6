---------------------------- MODULE MCForwardProxy ----------------------------
(* Two rules that overlap: hostB matches both, hostA the second only, and  *)
(* hostC none.                                                             *)
EXTENDS MCOAuthInjector, ForwardProxy

CONSTANTS hostA, hostB, hostC

MCHosts == {hostA, hostB, hostC}
MCRules == <<[pattern |-> {hostB}, mode |-> "passthrough"],
             [pattern |-> {hostA, hostB}, mode |-> "oauth"]>>
=============================================================================
