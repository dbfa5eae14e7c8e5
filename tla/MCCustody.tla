----------------------------- MODULE MCCustody ------------------------------
(***************************************************************************)
(* Instances of Recovery, and of the Wallets below it, for TLC.  In a      *)
(* behaviour with focus "wallets" no recovery is requested; with focus     *)
(* "recovery" there are at most two wallets and their status changes only  *)
(* by rotation.                                                            *)
(***************************************************************************)
EXTENDS Recovery, TLC

VARIABLE focus

mcVars == <<vars, focus>>

MCInit == Init /\ focus \in {"wallets", "recovery"}

Recoveries ==
  /\ Next
  /\ \A p \in Procs : job'[p].pc # "status"
  /\ Cardinality({w \in WalletIds : wal'[w].status # "NONE"}) <= 2

MCNext ==
  \/ focus = "wallets" /\ WalletsNext /\ UNCHANGED <<recVars, focus>>
  \/ focus = "recovery" /\ Recoveries /\ UNCHANGED focus

MCSpec == MCInit /\ [][MCNext]_mcVars

Symmetry == UNION {Permutations(S) : S \in {WalletIds, Owners, Procs, Txs, Requests}}
=============================================================================
