--------------------------- MODULE MCIdempotency ----------------------------
(***************************************************************************)
(* Instances for TLC of the components that take idempotency keys,         *)
(* Payments (with Limits) and WalletOrchestrator.  A behaviour is one of   *)
(*   replay    creates with a key and status updates, no limits            *)
(*   caps      creates without a key while limits change                   *)
(*   limits    limit changes alone, with every fault                       *)
(*   creation  wallet creations                                            *)
(* and focus says which: the four share no state that both sides write.    *)
(***************************************************************************)
EXTENDS Payments, WalletOrchestrator, TLC

VARIABLE focus

mcVars == <<vars, orchestratorVars, focus>>

MCInit ==
  /\ Init /\ OrchestratorInit
  /\ focus \in {"replay", "caps", "limits", "creation"}

(* In replay every create pays the least amount and no limit is set; in    *)
(* caps no key is used, no payment is patched and limits are set, without  *)
(* faults.                                                                 *)
Replay ==
  /\ Next
  /\ UNCHANGED limitVars
  /\ \A c \in Calls : call'[c].amount <= 1

CapsChange ==
  /\ Next
  /\ \A c \in Calls : call'[c].key = NoKey /\ call'[c].pc # "write"
  /\ \A p \in Admins : /\ admin'[p].op \in {"none", "set"} /\ admin'[p].try = 1
                       /\ admin'[p].new.daily # 0

MCNext ==
  /\ \/ focus = "replay" /\ Replay /\ UNCHANGED orchestratorVars
     \/ focus = "caps" /\ CapsChange /\ UNCHANGED orchestratorVars
     \/ focus = "limits" /\ LimitsNext /\ UNCHANGED <<payVars, orchestratorVars>>
     \/ focus = "creation" /\ OrchestratorNext /\ UNCHANGED vars
  /\ UNCHANGED focus

MCSpec == MCInit /\ [][MCNext]_mcVars

Symmetry ==
  UNION {Permutations(S) : S \in {Pay, Calls, Creations}}
=============================================================================
