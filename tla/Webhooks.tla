------------------------------ MODULE Webhooks ------------------------------
(***************************************************************************)
(* Webhook delivery: dispatchEvent writes one delivery row per endpoint,   *)
(* and every handler that can find work (the dispatcher itself, the queue  *)
(* worker's tick, POST process-deliveries, POST deliveries/:id/replay)     *)
(* ends in a pass of processDeliveries over the queued rows.  Passes take  *)
(* no lock: each works on the rows and endpoints as its scan saw them.     *)
(***************************************************************************)
EXTENDS Naturals, FiniteSets, FiniteSetsExt

CONSTANTS
  Events,         \* events the application emits, each once
  Endpoints,      \* endpoint ids
  Workers,       \* requests and timers that may be under way at once
  Tick,           \* the queue worker, if it is one of them
  HandlerOps,     \* what the other handlers do
  Statuses,       \* statuses an operator writes through PUT endpoints/:id
  EndpointOps,    \* the other operator requests on endpoints
  Outcomes,       \* how a POST to an endpoint may end
  MaxRetries,     \* WEBHOOK_MAX_RETRIES
  MaxConsecutive, \* WEBHOOK_MAX_CONSECUTIVE_FAILURES
  BatchSize,      \* rows one scan takes
  MaxReplays,     \* bound: replays in one behaviour
  MaxHookFaults       \* bound: database errors and restarts in one behaviour

ASSUME WebhooksAssumption ==
  /\ HandlerOps \subseteq {"dispatch", "process", "replay"}
  /\ Statuses \subseteq {"ACTIVE", "DISABLED", "FAILED"}
  /\ EndpointOps \subseteq {"subscribe", "delete"}
  /\ Outcomes \subseteq {"ok", "refused", "error"}
  /\ {MaxRetries, MaxConsecutive, BatchSize} \subseteq Nat \ {0}
  /\ {MaxReplays, MaxHookFaults} \subseteq Nat

VARIABLES
  ep,      \* endpoint rows
  del,     \* delivery rows, at most one per event and endpoint
  emitted, \* events handed to dispatchEvent, with the endpoints it found
  hd,      \* local state of each handler
  sent,    \* history: POSTs made for a delivery, counted up to PostCap
  acked,   \* history: deliveries an endpoint answered with 2xx
  streak,  \* history: exhausted deliveries of an endpoint since its last success
  solo,    \* history: no two handlers have been under way at once
  replays, hookFaults

webhookVars == <<ep, del, emitted, hd, sent, acked, streak, solo, replays, hookFaults>>

Delivery == Events \X Endpoints

EndpointRow == [status : {"NONE", "ACTIVE", "DISABLED", "FAILED", "DELETED"},
                subscribed : BOOLEAN, failures : 0 .. MaxConsecutive]

(* due: nextRetryAt has passed; response: the stored responseStatus.       *)
DeliveryRow == [status : {"NONE", "PENDING", "RETRYING", "DELIVERED", "FAILED"},
                attempts : 0 .. MaxRetries, due : BOOLEAN,
                response : {"none", "ok", "refused", "error"}]

NoDelivery == [status |-> "NONE", attempts |-> 0, due |-> TRUE, response |-> "none"]

NoEndpoint == [status |-> "NONE", subscribed |-> TRUE, failures |-> 0]

(* A row as the scan returned it, with its endpoint's status.              *)
Job == [d : Delivery, attempts : 0 .. MaxRetries, active : BOOLEAN]

HandlerPC == {"idle", "create", "replay", "scan", "pass", "write", "success", "read", "count"}

(* todo: endpoints still to get a row; batch: rows still to attempt; job   *)
(* and out: the attempt under way; seen: the endpoint as read to count.    *)
Resting == [pc |-> "idle", e |-> "none", todo |-> {}, batch |-> {}, job |-> {},
         out |-> "none", seen |-> NoEndpoint]

HandlerState == [pc : HandlerPC, e : Events \cup {"none"}, todo : SUBSET Endpoints,
                 batch : SUBSET Job, job : SUBSET Job,
                 out : Outcomes \cup {"none"}, seen : EndpointRow]

(* The pass turns to its next row.                                         *)
Onward(s) == [s EXCEPT !.pc = "pass", !.job = {}, !.out = "none", !.seen = NoEndpoint]

PostCap == MaxRetries * (1 + MaxReplays) + MaxHookFaults + 1

Upto(cap, n) == IF n < cap THEN n ELSE cap

WebhooksInit ==
  /\ ep = [x \in Endpoints |-> NoEndpoint]
  /\ del = [d \in Delivery |-> NoDelivery]
  /\ emitted = [e \in Events |-> [done |-> FALSE, found |-> {}]]
  /\ hd = [h \in Workers |-> Resting]
  /\ sent = [d \in Delivery |-> 0]
  /\ acked = {}
  /\ streak = [x \in Endpoints |-> 0]
  /\ solo = TRUE
  /\ replays = 0
  /\ hookFaults = 0

history == <<sent, acked, streak, solo>>
bounds  == <<replays, hookFaults>>

Stored(d) == del[d].status # "NONE"
Registered(x) == ep[x].status \notin {"NONE", "DELETED"}

(* A handler starts, perhaps while another is under way.                   *)
Begins(h) == /\ solo' = (solo /\ \A g \in Workers \ {h} : hd[g].pc = "idle")
             /\ UNCHANGED <<sent, acked, streak>>

-----------------------------------------------------------------------------
(* dispatchEvent                                                           *)

findSubscribedEndpoints == {x \in Endpoints : ep[x].status = "ACTIVE" /\ ep[x].subscribed}

Dispatch(h, e) ==
  /\ h # Tick /\ "dispatch" \in HandlerOps
  /\ hd[h].pc = "idle" /\ ~emitted[e].done
  /\ emitted' = [emitted EXCEPT ![e] = [done |-> TRUE, found |-> findSubscribedEndpoints]]
  /\ hd' = [hd EXCEPT ![h] = IF findSubscribedEndpoints = {} THEN Resting
                             ELSE [Resting EXCEPT !.pc = "create", !.e = e,
                                               !.todo = findSubscribedEndpoints]]
  /\ Begins(h)
  /\ UNCHANGED <<ep, del, bounds>>

(* The row is refused when the endpoint is gone (foreign key) or when a    *)
(* row of the same event exists (eventId is unique); either ends dispatch. *)
createDelivery(h) ==
  /\ hd[h].pc = "create"
  /\ \E x \in hd[h].todo :
       IF ~Registered(x) \/ \E y \in Endpoints : Stored(<<hd[h].e, y>>)
       THEN /\ hd' = [hd EXCEPT ![h] = Resting]
            /\ UNCHANGED del
       ELSE /\ del' = [del EXCEPT ![<<hd[h].e, x>>] = [NoDelivery EXCEPT !.status = "PENDING"]]
            /\ hd' = [hd EXCEPT ![h].todo = @ \ {x},
                                ![h].pc = IF hd[h].todo = {x} THEN "scan" ELSE "create"]
  /\ UNCHANGED <<ep, emitted, history, bounds>>

(* The worker's tick (skipped while it runs) and POST process-deliveries.  *)
StartPass(h) ==
  /\ hd[h].pc = "idle"
  /\ h = Tick \/ "process" \in HandlerOps
  /\ hd' = [hd EXCEPT ![h].pc = "scan"]
  /\ Begins(h)
  /\ UNCHANGED <<ep, del, emitted, bounds>>

(* Mutation: any delivery can be replayed.                                 *)
ReplayReadAny(h, d) ==
  /\ h # Tick /\ "replay" \in HandlerOps /\ replays < MaxReplays
  /\ hd[h].pc = "idle" /\ Stored(d)
  /\ hd' = [hd EXCEPT ![h].pc = "replay",
                      ![h].job = {[d |-> d, attempts |-> del[d].attempts, active |-> TRUE]}]
  /\ replays' = replays + 1
  /\ Begins(h)
  /\ UNCHANGED <<ep, del, emitted, hookFaults>>

(* replayDeadLetter reads the row, then resets it, then starts a pass.     *)
ReplayRead(h, d) ==
  /\ h # Tick /\ "replay" \in HandlerOps /\ replays < MaxReplays
  /\ hd[h].pc = "idle" /\ del[d].status = "FAILED"
  /\ hd' = [hd EXCEPT ![h].pc = "replay",
                      ![h].job = {[d |-> d, attempts |-> del[d].attempts, active |-> TRUE]}]
  /\ replays' = replays + 1
  /\ Begins(h)
  /\ UNCHANGED <<ep, del, emitted, hookFaults>>

ReplayWrite(h) ==
  /\ hd[h].pc = "replay"
  /\ \E j \in hd[h].job :
       IF Stored(j.d)
       THEN /\ del' = [del EXCEPT ![j.d].status = "PENDING", ![j.d].attempts = 0,
                                  ![j.d].due = TRUE]
            /\ hd' = [hd EXCEPT ![h] = [Resting EXCEPT !.pc = "scan"]]
       ELSE /\ hd' = [hd EXCEPT ![h] = Resting]
            /\ UNCHANGED del
  /\ UNCHANGED <<ep, emitted, history, bounds>>

-----------------------------------------------------------------------------
(* processDeliveries                                                       *)

Eligible(d) ==
  /\ \/ del[d].status = "PENDING"
     \/ del[d].status = "RETRYING" /\ del[d].due
  /\ del[d].attempts < MaxRetries

(* findMany takes BatchSize rows in no stated order.                       *)
Scan(h) ==
  /\ hd[h].pc = "scan"
  /\ LET rows == {d \in Delivery : Eligible(d)} IN
       \E S \in SUBSET rows :
         /\ Cardinality(S) = Upto(BatchSize, Cardinality(rows))
         /\ hd' = [hd EXCEPT ![h] = [Resting EXCEPT !.pc = "pass",
                     !.batch = {[d |-> d, attempts |-> del[d].attempts,
                                 active |-> ep[d[2]].status = "ACTIVE"] : d \in S}]]
  /\ UNCHANGED <<ep, del, emitted, history, bounds>>

EndPass(h) ==
  /\ hd[h].pc = "pass" /\ hd[h].batch = {}
  /\ hd' = [hd EXCEPT ![h] = Resting]
  /\ UNCHANGED <<ep, del, emitted, history, bounds>>

(* A row of an endpoint that was not ACTIVE counts as failed, unwritten.   *)
Skip(h, j) ==
  /\ hd[h].pc = "pass" /\ j \in hd[h].batch
  /\ ~j.active
  /\ hd' = [hd EXCEPT ![h].batch = @ \ {j}]
  /\ UNCHANGED <<ep, del, emitted, history, bounds>>

(* Mutation: an endpoint without an answer counts as served.               *)
deliverWebhookOptimistic(h, j, out) ==
  /\ hd[h].pc = "pass" /\ j \in hd[h].batch
  /\ j.active
  /\ hd' = [hd EXCEPT ![h].pc = "write", ![h].batch = @ \ {j}, ![h].job = {j},
                      ![h].out = IF out = "refused" THEN "refused" ELSE "ok"]
  /\ sent' = [sent EXCEPT ![j.d] = Upto(PostCap, @ + 1)]
  /\ acked' = IF out = "ok" THEN acked \cup {j.d} ELSE acked
  /\ UNCHANGED <<ep, del, emitted, streak, solo, bounds>>

(* deliverWebhook: 2xx, another status below 500, or anything else (5xx,   *)
(* no answer in time, whether or not the endpoint got the request).        *)
deliverWebhook(h, j, out) ==
  /\ hd[h].pc = "pass" /\ j \in hd[h].batch
  /\ j.active
  /\ hd' = [hd EXCEPT ![h].pc = "write", ![h].batch = @ \ {j}, ![h].job = {j},
                      ![h].out = out]
  /\ sent' = [sent EXCEPT ![j.d] = Upto(PostCap, @ + 1)]
  /\ acked' = IF out = "ok" THEN acked \cup {j.d} ELSE acked
  /\ UNCHANGED <<ep, del, emitted, streak, solo, bounds>>

isRetryableError(out) == out = "error"

(* Mutation: the last attempt is retried too.                              *)
shouldRetryAlways(j, out) == isRetryableError(out)

(* Mutation: one retry fewer than configured.                              *)
shouldRetryEarly(j, out) == j.attempts + 2 < MaxRetries /\ isRetryableError(out)

shouldRetry(j, out) == j.attempts + 1 < MaxRetries /\ isRetryableError(out)

(* Mutation: a retry does not store the attempt it follows.                *)
AttemptedUncounted(row, j, out) ==
  CASE out = "ok" -> [row EXCEPT !.status = "DELIVERED", !.response = out]
    [] out # "ok" /\ shouldRetry(j, out) ->
         [row EXCEPT !.status = "RETRYING", !.due = FALSE, !.response = out]
    [] out # "ok" /\ ~shouldRetry(j, out) ->
         [row EXCEPT !.status = "FAILED", !.attempts = j.attempts + 1, !.response = out]

(* Mutation: the attempt is added to what the row says by then.            *)
AttemptedIncrementing(row, j, out) ==
  CASE out = "ok" -> [row EXCEPT !.status = "DELIVERED", !.response = out]
    [] out # "ok" /\ shouldRetry(j, out) ->
         [row EXCEPT !.status = "RETRYING", !.attempts = @ + 1,
                     !.due = FALSE, !.response = out]
    [] out # "ok" /\ ~shouldRetry(j, out) ->
         [row EXCEPT !.status = "FAILED", !.attempts = @ + 1, !.response = out]

(* markDelivered, markRetrying and the first write of                      *)
(* handleDeliveryFailure, all by id.                                       *)
Attempted(row, j, out) ==
  CASE out = "ok" -> [row EXCEPT !.status = "DELIVERED", !.response = out]
    [] out # "ok" /\ shouldRetry(j, out) ->
         [row EXCEPT !.status = "RETRYING", !.attempts = j.attempts + 1,
                     !.due = FALSE, !.response = out]
    [] out # "ok" /\ ~shouldRetry(j, out) ->
         [row EXCEPT !.status = "FAILED", !.attempts = j.attempts + 1, !.response = out]

(* An update of a row deleted with its endpoint throws; the pass goes on.  *)
Record(h) ==
  /\ hd[h].pc = "write"
  /\ \E j \in hd[h].job :
       LET out == hd[h].out
           x   == j.d[2]
       IN IF ~Stored(j.d)
          THEN /\ hd' = [hd EXCEPT ![h] = Onward(@)]
               /\ UNCHANGED <<del, streak>>
          ELSE /\ del' = [del EXCEPT ![j.d] = Attempted(@, j, out)]
               /\ hd' = [hd EXCEPT ![h] = IF shouldRetry(j, out) THEN Onward(@)
                                          ELSE [@ EXCEPT !.pc = IF out = "ok" THEN "success"
                                                                ELSE "read"]]
               /\ streak' = [streak EXCEPT ![x] = IF out = "ok" THEN 0
                                                  ELSE IF shouldRetry(j, out) THEN @
                                                  ELSE Upto(MaxConsecutive, @ + 1)]
  /\ UNCHANGED <<ep, emitted, sent, acked, solo, bounds>>

-----------------------------------------------------------------------------
(* The endpoint's failure count, stored up to the threshold: from there on *)
(* every value acts alike.                                                 *)

Target(h) == {j.d[2] : j \in hd[h].job}

(* Mutation: a success leaves the failure count.                           *)
ServedUncounted(row) == row

Served(row) == [row EXCEPT !.failures = 0]

markEndpointSuccess(h) ==
  /\ hd[h].pc = "success"
  /\ ep' = [x \in Endpoints |-> IF x \in Target(h) /\ Registered(x) THEN Served(ep[x]) ELSE ep[x]]
  /\ hd' = [hd EXCEPT ![h] = Onward(@)]
  /\ UNCHANGED <<del, emitted, history, bounds>>

markEndpointFailureRead(h) ==
  /\ hd[h].pc = "read"
  /\ \E x \in Target(h) :
       hd' = [hd EXCEPT ![h] = IF Registered(x) THEN [@ EXCEPT !.pc = "count", !.seen = ep[x]]
                               ELSE Onward(@)]
  /\ UNCHANGED <<ep, del, emitted, history, bounds>>

Counted(row) ==
  [row EXCEPT !.failures = Upto(MaxConsecutive, @ + 1),
              !.status = IF row.failures + 1 >= MaxConsecutive THEN "FAILED" ELSE @]

(* Both columns are written from the row as it was read.                   *)
markEndpointFailure(h) ==
  /\ hd[h].pc = "count"
  /\ LET new == Counted(hd[h].seen) IN
       ep' = [x \in Endpoints |->
                IF x \in Target(h) /\ Registered(x)
                THEN [ep[x] EXCEPT !.failures = new.failures, !.status = new.status]
                ELSE ep[x]]
  /\ hd' = [hd EXCEPT ![h] = Onward(@)]
  /\ UNCHANGED <<del, emitted, history, bounds>>

-----------------------------------------------------------------------------
(* Operators, time and hookFaults                                              *)

CreateEndpoint(x) ==
  /\ ep[x].status = "NONE"
  /\ ep' = [ep EXCEPT ![x].status = "ACTIVE"]
  /\ UNCHANGED <<del, emitted, hd, history, bounds>>

UpdateEndpoint(x, s) ==
  /\ Registered(x)
  /\ ep' = [ep EXCEPT ![x].status = s]
  /\ UNCHANGED <<del, emitted, hd, history, bounds>>

UpdateSubscribedEvents(x) ==
  /\ "subscribe" \in EndpointOps /\ Registered(x)
  /\ ep' = [ep EXCEPT ![x].subscribed = ~@]
  /\ UNCHANGED <<del, emitted, hd, history, bounds>>

(* Deliveries are deleted with their endpoint (onDelete: Cascade).         *)
DeleteEndpoint(x) ==
  /\ "delete" \in EndpointOps /\ Registered(x)
  /\ ep' = [ep EXCEPT ![x] = [NoEndpoint EXCEPT !.status = "DELETED"]]
  /\ del' = [d \in Delivery |-> IF d[2] = x THEN NoDelivery ELSE del[d]]
  /\ UNCHANGED <<emitted, hd, history, bounds>>

(* nextRetryAt passes.                                                     *)
RetryDue(d) ==
  /\ del[d].status = "RETRYING" /\ ~del[d].due
  /\ del' = [del EXCEPT ![d].due = TRUE]
  /\ UNCHANGED <<ep, emitted, hd, history, bounds>>

(* A query rejects: during a pass the row is given up and the pass goes    *)
(* on; before the pass the handler ends.                                   *)
QueryFails(h) ==
  /\ hookFaults < MaxHookFaults
  /\ hd[h].pc \notin {"idle", "pass"}
  /\ hd' = [hd EXCEPT ![h] = IF @.pc \in {"write", "success", "read", "count"}
                             THEN Onward(@) ELSE Resting]
  /\ hookFaults' = hookFaults + 1
  /\ UNCHANGED <<ep, del, emitted, history, replays>>

WebhooksRestart ==
  /\ hookFaults < MaxHookFaults
  /\ \E h \in Workers : hd[h].pc # "idle"
  /\ hd' = [h \in Workers |-> Resting]
  /\ hookFaults' = hookFaults + 1
  /\ UNCHANGED <<ep, del, emitted, history, replays>>

PassStep(h) ==
  \/ createDelivery(h)
  \/ ReplayWrite(h)
  \/ Scan(h)
  \/ EndPass(h)
  \/ \E j \in hd[h].batch : Skip(h, j)
  \/ \E j \in hd[h].batch, out \in Outcomes : deliverWebhook(h, j, out)
  \/ Record(h)
  \/ markEndpointSuccess(h)
  \/ markEndpointFailureRead(h)
  \/ markEndpointFailure(h)

WebhooksNext ==
  \/ \E h \in Workers :
       \/ PassStep(h)
       \/ StartPass(h)
       \/ \E e \in Events : Dispatch(h, e)
       \/ \E d \in Delivery : ReplayRead(h, d)
       \/ QueryFails(h)
  \/ \E x \in Endpoints :
       \/ CreateEndpoint(x)
       \/ \E s \in Statuses : UpdateEndpoint(x, s)
       \/ UpdateSubscribedEvents(x)
       \/ DeleteEndpoint(x)
  \/ \E d \in Delivery : RetryDue(d)
  \/ WebhooksRestart

WebhooksSpec == WebhooksInit /\ [][WebhooksNext]_webhookVars

(* A handler that has begun goes on, the interval timer keeps ticking and  *)
(* retry times pass.                                                       *)
WebhooksFairness ==
  /\ \A h \in Workers : WF_webhookVars(PassStep(h))
  /\ WF_webhookVars(StartPass(Tick))
  /\ \A d \in Delivery : WF_webhookVars(RetryDue(d))

WebhooksFairSpec == WebhooksSpec /\ WebhooksFairness

-----------------------------------------------------------------------------
(* Properties                                                              *)

(* Every row, counter and handler has a value of its type; in particular   *)
(* no row counts more attempts than WEBHOOK_MAX_RETRIES.                   *)
WebhooksTypeOK ==
  /\ ep \in [Endpoints -> EndpointRow]
  /\ del \in [Delivery -> DeliveryRow]
  /\ \A e \in Events : emitted[e] \in [done : BOOLEAN, found : SUBSET Endpoints]
  /\ \A h \in Workers :
       /\ DOMAIN hd[h] = DOMAIN Resting
       /\ hd[h].pc \in HandlerPC /\ hd[h].e \in Events \cup {"none"}
       /\ hd[h].todo \subseteq Endpoints
       /\ \A j \in hd[h].batch \cup hd[h].job : j \in Job
       /\ hd[h].out \in Outcomes \cup {"none"}
       /\ hd[h].seen \in EndpointRow
  /\ sent \in [Delivery -> 0 .. PostCap]
  /\ acked \subseteq Delivery
  /\ streak \in [Endpoints -> 0 .. MaxConsecutive]
  /\ solo \in BOOLEAN
  /\ replays \in 0 .. MaxReplays
  /\ hookFaults \in 0 .. MaxHookFaults

(* However passes interleave, a delivery says DELIVERED only if its        *)
(* endpoint answered a POST of that very event with 2xx.                   *)
DeliveredWasAccepted ==
  \A d \in Delivery : del[d].status = "DELIVERED" => d \in acked

(* A delivery is given up only after its last permitted attempt or when    *)
(* the endpoint itself refused the request (a status below 500).           *)
GivenUpForCause ==
  \A d \in Delivery : del[d].status = "FAILED" =>
    del[d].attempts = MaxRetries \/ del[d].response = "refused"

(* While handlers do not overlap, the endpoint sees at most                *)
(* WEBHOOK_MAX_RETRIES POSTs of an event, once more per replay, and one    *)
(* more for each attempt whose result could not be stored.                 *)
PostsWithinBudget ==
  solo => \A d \in Delivery : sent[d] <= MaxRetries * (1 + replays) + hookFaults

(* While handlers do not overlap, a delivered event is never queued or     *)
(* given up again: DELIVERED rows only disappear, with their endpoint.     *)
DeliveredIsFinal ==
  [][\A d \in Delivery : solo' /\ del[d].status = "DELIVERED" =>
       del'[d].status \in {"DELIVERED", "NONE"}]_webhookVars

(* While handlers do not overlap, markEndpointFailure takes an endpoint    *)
(* out of service only when WEBHOOK_MAX_CONSECUTIVE_FAILURES deliveries in *)
(* a row were given up (unless a result could not be stored).              *)
DisabledAfterStreak ==
  [][\A h \in Workers : solo /\ markEndpointFailure(h) =>
       \A x \in Endpoints : (ep[x].status = "ACTIVE" /\ ep'[x].status = "FAILED") =>
         streak[x] = MaxConsecutive \/ hookFaults > 0]_webhookVars

(* An event reaches the queue for every endpoint that was registered for   *)
(* it when it was dispatched and still exists, once dispatchEvent is over. *)
EveryEndpointGetsARow ==
  \A e \in Events, x \in Endpoints :
    (/\ x \in emitted[e].found /\ Registered(x)
     /\ \A h \in Workers : ~(hd[h].pc = "create" /\ hd[h].e = e)) => Stored(<<e, x>>)

Queued(d) == del[d].status \in {"PENDING", "RETRYING"}

(* The worker drains the queue: a queued delivery is settled, unless its   *)
(* endpoint is taken out of service meanwhile.                             *)
QueueDrains ==
  \A d \in Delivery : Queued(d) ~> (~Queued(d) \/ ep[d[2]].status # "ACTIVE")
=============================================================================
