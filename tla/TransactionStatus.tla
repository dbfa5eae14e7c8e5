-------------------------- MODULE TransactionStatus --------------------------
(***************************************************************************)
(* The pure part of the transactions module: the status graph of           *)
(* transactions/domain/transaction.model.ts and the translation of a       *)
(* Horizon answer into a status of transactions/horizon-result.mapper.ts.  *)
(***************************************************************************)

Status == {"PENDING", "SUBMITTED", "CONFIRMED", "FAILED"}

ALLOWED_TRANSITIONS ==
  [s \in Status |->
     CASE s = "PENDING"   -> {"SUBMITTED", "FAILED"}
       [] s = "SUBMITTED" -> {"CONFIRMED", "FAILED"}
       [] OTHER           -> {}]

(* Mutation: PENDING may go straight to CONFIRMED.                         *)
canTransitionLoose(from, to) == from \in {"PENDING", "SUBMITTED"} /\ to # "PENDING"

canTransitionTransactionStatus(from, to) == to \in ALLOWED_TRANSITIONS[from]

Terminal == {s \in Status : ALLOWED_TRANSITIONS[s] = {}}

(***************************************************************************)
(* The fields of a Horizon body that decide the status.  The sixteen       *)
(* definitive failure codes map alike; "tx_failed" stands for them.  The   *)
(* code "tx_submitted" is the one TransactionPollingService makes up for a *)
(* 404, and "" a body that carries no code.  http_status 0 is a body       *)
(* without that field: no caller of the mapper copies the HTTP status into *)
(* the body, so 202 is the mapper's own case only.                         *)
(***************************************************************************)
ResultCodes == {"tx_success", "tx_fee_bump_inner_success", "tx_queued",
                "tx_failed", "tx_submitted", ""}

HorizonTransactionResult ==
  [http_status : {0, 202}, successful : BOOLEAN, code : ResultCodes]

(* Mutation: a queued but unconfirmed envelope counts as confirmed.        *)
mapHorizonResultLoose(result) ==
  IF result.successful \/ result.code = "tx_queued" THEN "CONFIRMED" ELSE "FAILED"

mapHorizonResultToStatus(result) ==
  CASE result.http_status = 202 -> "SUBMITTED"
    [] result.http_status # 202 /\ result.successful -> "CONFIRMED"
    [] OTHER ->
         CASE result.code \in {"tx_success", "tx_fee_bump_inner_success"} -> "CONFIRMED"
           [] result.code = "tx_queued" -> "SUBMITTED"
           [] OTHER -> "FAILED"

(* The bodies Horizon answers with, and the one the poller makes up.       *)
AppliedBody  == [http_status |-> 0, successful |-> TRUE,  code |-> ""]
QueuedBody   == [http_status |-> 0, successful |-> FALSE, code |-> "tx_queued"]
FailedBody   == [http_status |-> 0, successful |-> FALSE, code |-> "tx_failed"]
UnknownBody  == [http_status |-> 0, successful |-> FALSE, code |-> ""]
NotFoundBody == [http_status |-> 0, successful |-> FALSE, code |-> "tx_submitted"]
=============================================================================
