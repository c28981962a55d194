--------------------------- MODULE MCPairingService ---------------------------
(* The runtimes are interchangeable. *)
EXTENDS PairingService, TLC

RuntimeSymmetry == Permutations(Runtimes)

=============================================================================
