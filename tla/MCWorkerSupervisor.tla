-------------------------- MODULE MCWorkerSupervisor --------------------------
(* WorkerSupervisor on small instances.                                    *)
EXTENDS WorkerSupervisor, TLC

Symmetry == Permutations(Calls) \cup Permutations(Tokens)

=============================================================================
