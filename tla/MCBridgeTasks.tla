---------------------------- MODULE MCBridgeTasks ----------------------------
(* Small instances of BridgeTasks.                                          *)
EXTENDS BridgeTasks, TLC

Symmetry == Permutations(Starts) \cup Permutations(Keys) \cup Permutations(Ids)

=============================================================================
