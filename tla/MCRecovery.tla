----------------------------- MODULE MCRecovery -----------------------------
(* Instances of Recovery for TLC.                                          *)
EXTENDS Recovery, TLC

Symmetry == Permutations(WalletIds) \cup Permutations(Procs) \cup Permutations(Requests)
=============================================================================
