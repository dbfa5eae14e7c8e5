----------------------------- MODULE MCPayments -----------------------------
(* Instances of Payments for TLC.                                          *)
EXTENDS Payments, TLC

Symmetry == Permutations(Pay) \cup Permutations(Calls)
=============================================================================
