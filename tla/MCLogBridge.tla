---------------------------- MODULE MCLogBridge ----------------------------
(* LogBridge for TLC: the client identities are interchangeable. *)
EXTENDS LogBridgeInv, TLC

Symmetry == Permutations(ClientIds)

=============================================================================
