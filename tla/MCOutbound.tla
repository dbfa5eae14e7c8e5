----------------------------- MODULE MCOutbound -----------------------------
(***************************************************************************)
(* Instances of Transactions and of Webhooks for TLC, the two components   *)
(* that talk to servers outside: Horizon and the webhook endpoints.  They  *)
(* share no state, so a behaviour is one of either; focus says of which.   *)
(***************************************************************************)
EXTENDS Transactions, Webhooks, TLC

CONSTANTS
  Clerks   \* handlers that take every operation

VARIABLE focus

mcVars == <<vars, webhookVars, focus>>

MCInit == Init /\ WebhooksInit /\ focus \in {"transactions", "webhooks"}

OnTx(A) == focus = "transactions" /\ A
OnWh(A) == focus = "webhooks" /\ A

(* Handlers are interchangeable: an instance may divide the work.  Two     *)
(* submits overlap where every handler is a clerk, or without a fault.     *)
Roles ==
  \A p \in Handlers \ Clerks : /\ h[p].op \notin {"create", "pollTick"}
                               /\ h[p].op = "submit" => faults = 0

(* Once a delivery was replayed, either there is one event only or no two  *)
(* handlers overlap.                                                       *)
Replays == replays = 0 \/ solo \/ Cardinality({e \in Events : emitted[e].done}) <= 1

MCNext ==
  \/ OnTx(Next) /\ Roles' /\ UNCHANGED <<webhookVars, focus>>
  \/ OnWh(WebhooksNext) /\ Replays' /\ UNCHANGED <<vars, focus>>

MCSpec == MCInit /\ [][MCNext]_mcVars

(* Fairness and WebhooksFairness, each of the component that runs.         *)
MCFairness ==
  /\ \A p \in Handlers : WF_vars(OnTx(Continue(p)))
  /\ SF_vars(OnTx(\E p \in Clerks : PollStart(p, "pollTick")))
  /\ \A t \in Tx :
       /\ WF_vars(OnTx(LedgerClose(t)))
       /\ WF_vars(OnTx(CacheExpire(t)))
       /\ SF_vars(OnTx(\E p \in Handlers : PollQuery(p, t)))
  /\ \A k \in Workers : WF_webhookVars(OnWh(PassStep(k)))
  /\ WF_webhookVars(OnWh(StartPass(Tick)))
  /\ \A d \in Delivery : WF_webhookVars(OnWh(RetryDue(d)))

MCFairSpec == MCSpec /\ MCFairness

Symmetry == UNION {Permutations(S) : S \in {Tx, Handlers, Events, Endpoints}}
=============================================================================
