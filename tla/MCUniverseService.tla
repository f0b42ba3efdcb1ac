-------------------------- MODULE MCUniverseService --------------------------
(***************************************************************************)
(* Small instances of UniverseService.                                     *)
(***************************************************************************)
EXTENDS UniverseService, TLC

\* Requests and addresses differ in nothing but their names.
Names == Permutations(Handlers) \cup Permutations(Emails)

Size(systems, positions) == [systems |-> systems, positions |-> positions]
OneOrTwoSystems == {Size(1, 1), Size(2, 1)}
TwoRates == 1 :> 1 @@ 2 :> 3
=============================================================================
