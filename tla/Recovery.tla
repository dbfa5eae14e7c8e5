------------------------------ MODULE Recovery ------------------------------
(***************************************************************************)
(* Recovery requests (RecoveryService, AdminRecoveryService) over the      *)
(* wallets they recover: approval runs a key rotation of module Wallets    *)
(* between reading the request and writing it.                             *)
(***************************************************************************)
EXTENDS Wallets

CONSTANTS
  Requests,    \* ids of recovery requests (bound)
  RecoveryOps, \* operations requested
  RecTargets   \* statuses requested through PATCH

RecoveryStatus == {"PENDING", "IN_REVIEW", "APPROVED", "REJECTED", "COMPLETED", "CANCELLED"}

ASSUME RecoveryAssumption ==
  /\ RecoveryOps \subseteq {"create", "update", "initiate", "cancel", "remove", "approve", "reject"}
  /\ RecTargets \subseteq RecoveryStatus

VARIABLES
  req,     \* recovery_requests
  adm,     \* what each request handler is doing in the recovery services
  rotated  \* history: requests whose approval rotated the wallet's key

recVars == <<req, adm, rotated>>
vars    == <<walletVars, recVars>>

NoRequest == [status |-> "NONE", w |-> Nobody]

Off == [pc |-> "idle", r |-> Nobody, w |-> Nobody, to |-> "PENDING"]

AdmPC == {"idle", "wallet", "insert", "write", "rotate", "await"}

Recorded(r) == req[r].status # "NONE"
Settled     == {"REJECTED", "COMPLETED", "CANCELLED"}
Free(p)     == adm[p].pc = "idle" /\ job[p].pc = "idle"
Active(w)   == {r \in Requests : Recorded(r) /\ req[r].w = w /\ req[r].status \notin Settled}

Init ==
  /\ WalletsInit
  /\ req = [r \in Requests |-> NoRequest]
  /\ adm = [p \in Procs |-> Off]
  /\ rotated = {}

-----------------------------------------------------------------------------
(* create: no other active request, then the wallet, then the insert.      *)

(* Mutation: only requests already under review block another.             *)
RecoveryCreateAnytime(p, w) ==
  /\ "create" \in RecoveryOps /\ Free(p)
  /\ \A r \in Active(w) : req[r].status = "PENDING"
  /\ adm' = [adm EXCEPT ![p] = [Off EXCEPT !.pc = "wallet", !.w = w]]
  /\ UNCHANGED <<walletRows, req, rotated>>

RecoveryCreate(p, w) ==
  /\ "create" \in RecoveryOps /\ Free(p)
  /\ Active(w) = {}
  /\ adm' = [adm EXCEPT ![p] = [Off EXCEPT !.pc = "wallet", !.w = w]]
  /\ UNCHANGED <<walletRows, req, rotated>>

RecoveryWallet(p) ==
  /\ adm[p].pc = "wallet"
  /\ adm' = [adm EXCEPT ![p] = IF Exists(@.w) THEN [@ EXCEPT !.pc = "insert"] ELSE Off]
  /\ UNCHANGED <<walletRows, req, rotated>>

(* Mutation: the request does not refer to its wallet by a foreign key.    *)
RecoveryInsertUnreferenced(p) ==
  /\ adm[p].pc = "insert"
  /\ \E r \in Requests : /\ req[r] = NoRequest
                         /\ req' = [req EXCEPT ![r] = [status |-> "PENDING", w |-> adm[p].w]]
                         /\ rotated' = rotated \ {r}
  /\ adm' = [adm EXCEPT ![p] = Off]
  /\ UNCHANGED walletRows

(* The foreign key refuses a request for a wallet removed meanwhile.       *)
RecoveryInsert(p) ==
  /\ adm[p].pc = "insert"
  /\ IF Exists(adm[p].w)
     THEN \E r \in Requests : /\ req[r] = NoRequest
                              /\ req' = [req EXCEPT ![r] = [status |-> "PENDING", w |-> adm[p].w]]
                              /\ rotated' = rotated \ {r}
     ELSE UNCHANGED <<req, rotated>>
  /\ adm' = [adm EXCEPT ![p] = Off]
  /\ UNCHANGED walletRows

-----------------------------------------------------------------------------
(* update, initiate, cancel and reject read, check and write by id.        *)

RECOVERY_TRANSITIONS ==
  [s \in RecoveryStatus |->
     CASE s = "PENDING"   -> {"IN_REVIEW", "CANCELLED"}
       [] s = "IN_REVIEW" -> {"APPROVED", "REJECTED", "CANCELLED"}
       [] s = "APPROVED"  -> {"COMPLETED", "CANCELLED"}
       [] OTHER           -> {}]

canTransitionRecoveryStatus(from, to) == to \in RECOVERY_TRANSITIONS[from]

(* What each operation accepts: the status it writes and the guard on the  *)
(* status it read.                                                         *)
Accepts(op, from, to) ==
  CASE op = "update"   -> to \in RecTargets /\ (from = to \/ canTransitionRecoveryStatus(from, to))
    [] op = "initiate" -> to = "IN_REVIEW" /\ from = "PENDING"
    [] op = "cancel"   -> to = "CANCELLED" /\ canTransitionRecoveryStatus(from, to)
    [] op = "reject"   -> to = "REJECTED" /\ from = "IN_REVIEW"
    [] OTHER           -> FALSE

RecoveryRead(p, r, to) ==
  /\ Free(p) /\ Recorded(r)
  /\ \E op \in RecoveryOps : Accepts(op, req[r].status, to)
  /\ adm' = [adm EXCEPT ![p] = [Off EXCEPT !.pc = "write", !.r = r, !.to = to]]
  /\ UNCHANGED <<walletRows, req, rotated>>

RecoveryWrite(p) ==
  /\ adm[p].pc = "write"
  /\ req' = [r \in Requests |-> IF r = adm[p].r /\ Recorded(r)
                                THEN [req[r] EXCEPT !.status = adm[p].to] ELSE req[r]]
  /\ adm' = [adm EXCEPT ![p] = Off]
  /\ UNCHANGED <<walletRows, rotated>>

RecoveryRemove(p, r) ==
  /\ "remove" \in RecoveryOps /\ Free(p) /\ Recorded(r)
  /\ req' = [req EXCEPT ![r] = NoRequest]
  /\ UNCHANGED <<walletRows, adm, rotated>>

-----------------------------------------------------------------------------
(* approveRecovery                                                         *)

ApproveRead(p, r) ==
  /\ "approve" \in RecoveryOps /\ Free(p) /\ Recorded(r)
  /\ req[r].status = "IN_REVIEW"
  /\ adm' = [adm EXCEPT ![p] = [Off EXCEPT !.pc = "rotate", !.r = r, !.w = req[r].w]]
  /\ UNCHANGED <<walletRows, req, rotated>>

(* Mutation: the approval does not wait for the rotation.                  *)
ApproveRotateUnawaited(p) ==
  /\ adm[p].pc = "rotate"
  /\ Rotate(p, adm[p].w)
  /\ UNCHANGED <<adm, req, rotated>>

ApproveRotate(p) ==
  /\ adm[p].pc = "rotate"
  /\ Rotate(p, adm[p].w)
  /\ adm' = [adm EXCEPT ![p].pc = "await"]
  /\ UNCHANGED <<req, rotated>>

(* A failed rotation throws.  So does a successful one: rotateWalletKey    *)
(* answers a predecessor and a successor, and the update is built from     *)
(* rotation.wallet.publicKey, of which there is none.                      *)
ApproveEnds(p) ==
  /\ adm[p].pc = "await" /\ job[p].pc = "idle"
  /\ rotated' = IF job[p].res = "ok" THEN rotated \cup {adm[p].r} ELSE rotated
  /\ adm' = [adm EXCEPT ![p] = Off]
  /\ UNCHANGED <<walletRows, req>>

(* A query of the recovery services rejects, or the process stops.         *)
RecoveryFail(p) ==
  /\ adm[p].pc \in {"wallet", "insert", "write", "rotate"}
  /\ adm' = [adm EXCEPT ![p] = Off]
  /\ UNCHANGED <<walletRows, req, rotated>>

(* Requests are deleted with their wallet.                                 *)
Cascade ==
  req' = [r \in Requests |-> IF Recorded(r) /\ wal'[req[r].w].status = "DELETED"
                             THEN NoRequest ELSE req[r]]

WalletActs(p) ==
  /\ WalletStep(p) \/ (adm[p].pc = "idle" /\ WalletStart(p))
  /\ Cascade
  /\ UNCHANGED <<adm, rotated>>

RecoveryNext(p) ==
  \/ \E w \in WalletIds : Exists(w) /\ RecoveryCreate(p, w)
  \/ RecoveryWallet(p)
  \/ RecoveryInsert(p)
  \/ \E r \in Requests, to \in RecoveryStatus : RecoveryRead(p, r, to)
  \/ RecoveryWrite(p)
  \/ \E r \in Requests : RecoveryRemove(p, r) \/ ApproveRead(p, r)
  \/ ApproveRotate(p)
  \/ ApproveEnds(p)
  \/ RecoveryFail(p)

Next ==
  /\ \E p \in Procs : WalletActs(p) \/ RecoveryNext(p)
  /\ solo' = (solo /\ \A p, q \in Procs : p = q \/ Free(p)' \/ Free(q)')

Spec == Init /\ [][Next]_vars

-----------------------------------------------------------------------------
(* Properties                                                              *)

(* Requests and handlers have values of their types, and a handler never   *)
(* runs two operations at once.                                            *)
RecoveryTypeOK ==
  /\ req \in [Requests -> [status : RecoveryStatus \cup {"NONE"}, w : WalletIds \cup {Nobody}]]
  /\ adm \in [Procs -> [pc : AdmPC, r : Requests \cup {Nobody}, w : WalletIds \cup {Nobody},
                        to : RecoveryStatus]]
  /\ rotated \subseteq Requests
  /\ \A p \in Procs : job[p].pc # "idle" => adm[p].pc \in {"idle", "await"}

(* While handlers do not overlap, a wallet has at most one request that is *)
(* not settled, also across removals of the wallet and of requests.        *)
OneActiveRequest == solo => \A w \in WalletIds : Cardinality(Active(w)) <= 1

(* A request always has its wallet: however creates, approvals and wallet  *)
(* removals interleave, the foreign key stops the insert that comes late   *)
(* and the cascade takes the requests that came before.                    *)
RequestsHaveWallets == \A r \in Requests : Recorded(r) => Exists(req[r].w)

(* A request whose approval did not complete can be approved again: its    *)
(* wallet has not been rotated by that approval.                           *)
ApprovalCanBeRetried ==
  \A r \in rotated : req[r].status # "IN_REVIEW"
=============================================================================
