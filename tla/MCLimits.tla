------------------------------ MODULE MCLimits ------------------------------
(* Instances of Limits alone for TLC.                                      *)
EXTENDS Limits, TLC

LimitsSpec == LimitsInit /\ [][LimitsNext]_limitVars

AdminSymmetry == Permutations(Admins)
=============================================================================
