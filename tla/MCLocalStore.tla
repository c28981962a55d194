---------------------------- MODULE MCLocalStore ----------------------------
(* Instances of LocalStore with two providers, each with a node of its own *)
(* and interchangeable with the other.                                     *)
EXTENDS LocalStore, TLC

CONSTANTS p1, p2, n1, n2

MCProviderOf == n1 :> p1 @@ n2 :> p2

Swap == p1 :> p2 @@ p2 :> p1 @@ n1 :> n2 @@ n2 :> n1

Symmetry == {Swap} \cup Permutations(Refs) \cup Permutations(Runtimes) \cup Permutations(Ids)

=============================================================================
