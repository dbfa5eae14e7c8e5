------------------------ MODULE MCWalletOrchestrator ------------------------
(* Instances of WalletOrchestrator for TLC.                                *)
EXTENDS WalletOrchestrator, TLC

Symmetry == Permutations(WalletIds) \cup Permutations(Owners) \cup Permutations(Creations)
              \cup Permutations(RequestKeys)
=============================================================================
