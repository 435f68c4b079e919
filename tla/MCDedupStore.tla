---------------------------- MODULE MCDedupStore ----------------------------
(* DedupStoreSpec for TLC: clients are interchangeable. *)
EXTENDS DedupStoreSpec, TLC

Symmetry == Permutations(ClientIds)

=============================================================================
