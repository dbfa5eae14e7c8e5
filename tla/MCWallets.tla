----------------------------- MODULE MCWallets ------------------------------
(* Instances of Wallets for TLC.                                           *)
EXTENDS Wallets, TLC

Symmetry == Permutations(WalletIds) \cup Permutations(Owners) \cup Permutations(Procs)
              \cup Permutations(Txs)
=============================================================================
