-------------------------- MODULE FileInjectorProofs --------------------------
(***************************************************************************)
(* Inject always has a token, whatever happens to the file and however the *)
(* two loaders interleave.                                                 *)
(***************************************************************************)
EXTENDS FileInjector, TLAPS

\* What a loader is about to store is a token, not an empty string.
StoresTokens == \A l \in Loops : lpc[l] = "store" => data[l] \in Contents

\* The constructor loads before it starts anything.
LoadedFirst == phase \in {"loaded", "running"} => token \in Contents

IInv == TypeOK /\ StoresTokens /\ LoadedFirst

-----------------------------------------------------------------------------
(* Every step of the loops, of the constructor and of the file's owner     *)
(* keeps the invariant.                                                    *)
LEMMA StepIInv == IInv /\ [Next]_vars => IInv'
<1> SUFFICES ASSUME IInv, [Next]_vars PROVE IInv'
  OBVIOUS
<1> USE FileAssumption DEF IInv, TypeOK, StoresTokens, LoadedFirst, Loops
<1>1. CASE LoadInitial
  BY <1>1 DEF LoadInitial
<1>2. CASE AddWatch
  BY <1>2 DEF AddWatch
<1>3. CASE HandleEvent
  BY <1>3 DEF HandleEvent
<1>4. CASE HandleTick
  BY <1>4 DEF HandleTick
<1>5. ASSUME NEW l \in Loops, ReadFile(l) PROVE IInv'
  BY <1>5 DEF ReadFile
<1>6. ASSUME NEW l \in Loops, StoreToken(l) PROVE IInv'
  BY <1>6 DEF StoreToken
<1>7. ASSUME NEW l \in Loops, StopLoop(l) PROVE IInv'
  BY <1>7 DEF StopLoop
<1>8. CASE Close
  BY <1>8 DEF Close
<1>9. CASE Truncate
  BY <1>9 DEF Truncate, Notify
<1>10. CASE Fill
  BY <1>10 DEF Fill, Notify
<1>11. CASE Replace
  <2>1. TypeOK'
    <3>1. watched' \in BOOLEAN /\ closed' \in BOOLEAN
      BY <1>11, Zenon DEF Replace
    <3>2. file' \in Contents \union {Empty, Missing}
      BY <1>11 DEF Replace
    <3>3. writes' \in 0 .. MaxWrites
      BY <1>11 DEF Replace
    <3>4. UNCHANGED <<phase, events, token, lpc, data>>
      BY <1>11 DEF Replace
    <3>5. QED
      BY <3>1, <3>2, <3>3, <3>4
  <2>2. StoresTokens' /\ LoadedFirst'
    BY <1>11 DEF Replace
  <2>3. QED
    BY <2>1, <2>2
<1>12. CASE Remove
  <2>1. TypeOK'
    <3>1. watched' \in BOOLEAN /\ closed' \in BOOLEAN
      BY <1>12, Zenon DEF Remove
    <3>2. file' \in Contents \union {Empty, Missing}
      BY <1>12 DEF Remove
    <3>3. writes' \in 0 .. MaxWrites
      BY <1>12 DEF Remove
    <3>4. UNCHANGED <<phase, events, token, lpc, data>>
      BY <1>12 DEF Remove
    <3>5. QED
      BY <3>1, <3>2, <3>3, <3>4
  <2>2. StoresTokens' /\ LoadedFirst'
    BY <1>12 DEF Remove
  <2>3. QED
    BY <2>1, <2>2
<1>13. CASE UNCHANGED vars
  BY <1>13 DEF vars
<1>14. QED
  BY <1>1, <1>2, <1>3, <1>4, <1>5, <1>6, <1>7, <1>8, <1>9, <1>10, <1>11, <1>12,
     <1>13 DEF Next, Construct, Load, Provision

(* The invariant holds in every reachable state.                           *)
THEOREM InvariantHolds == Spec => []IInv
<1>1. Init => IInv
  <2> SUFFICES ASSUME Init PROVE IInv
    OBVIOUS
  <2>1. watched \in BOOLEAN /\ closed \in BOOLEAN
    BY DEF Init
  <2>2. QED
    BY <2>1, FileAssumption DEF Init, IInv, TypeOK, StoresTokens, LoadedFirst, Loops
<1>2. QED
  BY <1>1, StepIInv, PTL DEF Spec

(* The injector's state keeps its types.                                   *)
THEOREM TypeCorrect == Spec => []TypeOK
<1>1. IInv => TypeOK
  BY DEF IInv
<1>2. QED
  BY <1>1, InvariantHolds, PTL

(* Once NewFileInjector has returned an injector, Inject never runs into   *)
(* its "no token available" error.                                         *)
THEOREM NeverWithoutToken == Spec => []InjectNeverFails
<1>1. IInv => InjectNeverFails
  BY DEF IInv, LoadedFirst, InjectNeverFails
<1>2. QED
  BY <1>1, InvariantHolds, PTL

-----------------------------------------------------------------------------
(* What fairness adds to the following is TokenConverges                   *)

\* Loops that are about to store what is not in the file any more.
Behind == {l \in Loops : lpc[l] = "store" /\ data[l] # file}

\* While the file holds still no loop falls behind, a store makes the token the
\* one in the file unless its loop was behind, and that loop is so no more.
Approaches ==
  file' = file =>
    /\ Behind' \subseteq Behind
    /\ token' \in {token, file} \/ \E l \in Behind : Behind' = Behind \ {l}

(* Each step of the injector approaches the token in the file, or leaves   *)
(* it as near as it was.                                                   *)
LEMMA StepApproaches == IInv /\ [Next]_vars => Approaches
<1> SUFFICES ASSUME IInv, [Next]_vars, file' = file
             PROVE  /\ Behind' \subseteq Behind
                    /\ token' \in {token, file} \/ \E l \in Behind : Behind' = Behind \ {l}
  BY DEF Approaches
<1>1. CASE UNCHANGED <<lpc, data, token>>
  BY <1>1 DEF Behind
<1>2. CASE LoadInitial \/ AddWatch
  <2>1. /\ token' \in {token, file}
        /\ \A l \in Loops : lpc'[l] = "store" => lpc'[l] = lpc[l] /\ data'[l] = data[l]
    BY <1>2 DEF LoadInitial, AddWatch
  <2>2. QED
    BY <2>1 DEF Behind
<1>3. ASSUME NEW l \in Loops, ReadFile(l) \/ StopLoop(l)
      PROVE  Behind' \subseteq Behind /\ token' = token
  <2>1. /\ token' = token
        /\ \A k \in Loops : lpc'[k] = "store" => \/ lpc[k] = "store" /\ data'[k] = data[k]
                                                \/ data'[k] = file
    BY <1>3 DEF ReadFile, StopLoop, IInv, TypeOK
  <2>2. QED
    BY <2>1 DEF Behind
<1>4. CASE HandleEvent \/ HandleTick
  <2>1. /\ token' = token
        /\ \A k \in Loops : lpc'[k] = "store" => lpc[k] = "store" /\ data'[k] = data[k]
    BY <1>4 DEF HandleEvent, HandleTick, IInv, TypeOK, Loops
  <2>2. QED
    BY <2>1 DEF Behind
<1>5. ASSUME NEW l \in Loops, StoreToken(l)
      PROVE  Behind' = Behind \ {l} /\ (l \in Behind \/ token' = file)
  <2>1. lpc[l] = "store" /\ lpc'[l] = "select" /\ token' = data[l]
    BY <1>5 DEF StoreToken, IInv, TypeOK
  <2>2. \A k \in Loops \ {l} : lpc'[k] = lpc[k] /\ data'[k] = data[k]
    BY <1>5 DEF StoreToken, IInv, TypeOK
  <2>3. QED
    BY <2>1, <2>2 DEF Behind
<1>6. CASE Close \/ Provision
  BY <1>1, <1>6 DEF Close, Provision, Truncate, Fill, Replace, Remove
<1>7. QED
  BY <1>1, <1>2, <1>3, <1>4, <1>5, <1>6 DEF Next, Construct, Load, vars

(* When the file stops changing, at most one stale store of each loop is   *)
(* still to come: every other store brings the token of the file, and that *)
(* one is never lost again, in whatever order the loops read and store     *)
(* (file_injector.go:66-138).                                              *)
THEOREM ConvergenceIsKept == Spec => [][Approaches]_vars
<1>1. IInv /\ [Next]_vars => [Approaches]_vars
  BY StepApproaches
<1>2. QED
  BY <1>1, InvariantHolds, PTL DEF Spec
=============================================================================
