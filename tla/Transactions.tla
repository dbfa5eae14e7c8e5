---------------------------- MODULE Transactions ----------------------------
(***************************************************************************)
(* The transaction rows and everything that moves their status:            *)
(* TransactionsService (create, updateStatus), TransactionQueryService,    *)
(* HorizonSubmissionService, FeeBumpService and TransactionPollingService. *)
(*                                                                         *)
(* A handler is one in-flight call of the Node process.  It runs on its    *)
(* own between two awaits, so each action below is the code from one await *)
(* to the next, and the actions of different handlers interleave.          *)
(***************************************************************************)
EXTENDS TransactionStatus, Naturals, FiniteSets

CONSTANTS
  Tx,            \* ids the database hands out
  Handlers,      \* calls that may be in flight at the same time
  Keys,          \* idempotency keys clients use
  NoKey,         \* a create without a key
  Ops,           \* the entry points clients and timers use in this instance
  ManualTargets, \* statuses written through PATCH /transactions/:id/status
  MaxAttempts,   \* POST attempts: 1 without a TransactionRetryService
  PollLimit,     \* "limit" of pollPendingTransactions
  MaxFaults      \* bound: restarts and database errors in one behaviour

AllOps == {"create", "patch", "submit", "feeBump", "poll", "pollTick", "find"}

ASSUME TransactionsAssumption ==
  /\ Ops \subseteq AllOps
  /\ ManualTargets \subseteq Status
  /\ MaxAttempts \in Nat \ {0}
  /\ PollLimit \in Nat
  /\ MaxFaults \in Nat

VARIABLES
  rows,     \* the transaction table; status "NONE": no such row
  ledger,   \* what the Stellar network has done with each envelope
  h,        \* local state of each handler
  running,  \* TransactionPollingService.running
  cache,    \* CacheService entry transaction:<id>; "NONE": no live entry
  events,   \* domain events emitted: <<id, status>>
  faults,   \* restarts and database errors so far
  unsent    \* history: terminal events that were due when a restart struck

vars == <<rows, ledger, h, running, cache, events, faults, unsent>>

NoHash    == "null"
EmptyHash == "empty"
Hashes    == Tx \cup {NoHash, EmptyHash}  \* the envelope of t hashes to t

Row == [status : Status \cup {"NONE"}, key : Keys \cup {NoKey}, hash : Hashes,
        submittedAt : BOOLEAN, confirmedAt : BOOLEAN, failedAt : BOOLEAN]

NoRow(k) == [status |-> "NONE", key |-> k, hash |-> NoHash,
             submittedAt |-> FALSE, confirmedAt |-> FALSE, failedAt |-> FALSE]

LedgerState == {"absent", "inflight", "applied", "failed"}

(***************************************************************************)
(* A handler: its entry point, where it is, the row it works on, and       *)
(*   target, hash  the updateStatus call it is about to make               *)
(*   milestone     SUBMITTED is still to be persisted before target        *)
(*   attempt       POSTs made                                              *)
(*   queue         rows of a poll's snapshot not yet processed             *)
(*   seen          the status findOne read                                 *)
(***************************************************************************)
PC == {"idle", "insert", "post", "read", "write", "publish", "next", "fill"}

Handler == [op : AllOps \cup {"none"}, pc : PC, tx : Tx \cup {"none"},
            key : Keys \cup {NoKey}, target : Status, hash : Hashes,
            milestone : BOOLEAN, attempt : 1..MaxAttempts,
            queue : SUBSET Tx, seen : Status]

Idle == [op |-> "none", pc |-> "idle", tx |-> "none", key |-> NoKey,
         target |-> "PENDING", hash |-> NoHash, milestone |-> FALSE,
         attempt |-> 1, queue |-> {}, seen |-> "PENDING"]

PollOps == {"poll", "pollTick"}

Init ==
  /\ rows = [t \in Tx |-> NoRow(NoKey)]
  /\ ledger = [t \in Tx |-> "absent"]
  /\ h = [p \in Handlers |-> Idle]
  /\ running = FALSE
  /\ cache = [t \in Tx |-> "NONE"]
  /\ events = {}
  /\ faults = 0
  /\ unsent = {}

Exists(t) == rows[t].status # "NONE"
Fresh     == {t \in Tx : ~Exists(t)}

(* An exception ends a call; a poll catches it and goes on with the next row. *)
Thrown(r) == IF r.op \in PollOps THEN [r EXCEPT !.pc = "next"] ELSE Idle

-----------------------------------------------------------------------------
(* TransactionsService.create: look the key up, validate, insert.          *)

KeyTaken(k) == k # NoKey /\ \E t \in Tx : Exists(t) /\ rows[t].key = k

(* A key that is taken answers the row it has, and nothing changes.  The   *)
(* bound: creates in flight never outnumber the ids left.                  *)
CreateCheck(p, k) ==
  /\ "create" \in Ops /\ h[p] = Idle
  /\ ~KeyTaken(k)
  /\ Cardinality(Fresh) > Cardinality({q \in Handlers : h[q].pc = "insert"})
  /\ h' = [h EXCEPT ![p] = [Idle EXCEPT !.op = "create", !.pc = "insert", !.key = k]]
  /\ UNCHANGED <<rows, ledger, running, cache, events, faults, unsent>>

(* The unique index on idempotencyKey makes the loser of a race throw.     *)
CreateInsert(p) ==
  /\ h[p].pc = "insert"
  /\ LET k == h[p].key IN
       IF KeyTaken(k)
       THEN UNCHANGED <<rows, events>>
       ELSE \E t \in Fresh :
              /\ rows' = [rows EXCEPT ![t] = [NoRow(k) EXCEPT !.status = "PENDING"]]
              /\ events' = events \cup {<<t, "PENDING">>}
  /\ h' = [h EXCEPT ![p] = Idle]
  /\ UNCHANGED <<ledger, running, cache, faults, unsent>>

-----------------------------------------------------------------------------
(* TransactionsService.updateStatus, the three stretches between awaits.   *)

(* The status and hash of the updateStatus call in progress.               *)
CallStatus(r) == IF r.milestone THEN "SUBMITTED" ELSE r.target
CallHash(r)   == IF r.milestone THEN NoHash ELSE r.hash

UpdateRead(p) ==
  /\ h[p].pc = "read"
  /\ LET t == h[p].tx IN
       h' = [h EXCEPT ![p] =
               IF Exists(t) /\ canTransitionTransactionStatus(rows[t].status, CallStatus(@))
               THEN [@ EXCEPT !.pc = "write"]
               ELSE Thrown(@)]
  /\ UNCHANGED <<rows, ledger, running, cache, events, faults, unsent>>

(* Mutation: failedAt is not stamped.                                      *)
UpdatedNoFailedAt(row, s, hash) ==
  [row EXCEPT !.status = s,
              !.submittedAt = @ \/ s = "SUBMITTED",
              !.confirmedAt = @ \/ s = "CONFIRMED",
              !.hash = IF hash = NoHash THEN @ ELSE hash]

(* The row update is unconditional, but stellarHash is unique.             *)
Updated(row, s, hash) ==
  [row EXCEPT !.status = s,
              !.submittedAt = @ \/ s = "SUBMITTED",
              !.confirmedAt = @ \/ s = "CONFIRMED",
              !.failedAt = @ \/ s = "FAILED",
              !.hash = IF hash = NoHash THEN @ ELSE hash]

HashTaken(t, hash) == hash # NoHash /\ \E u \in Tx \ {t} : rows[u].hash = hash

UpdateWrite(p) ==
  /\ h[p].pc = "write"
  /\ LET t == h[p].tx IN
       IF HashTaken(t, CallHash(h[p]))
       THEN /\ h' = [h EXCEPT ![p] = Thrown(@)]
            /\ UNCHANGED rows
       ELSE /\ rows' = [rows EXCEPT ![t] = Updated(@, CallStatus(h[p]), CallHash(h[p]))]
            /\ h' = [h EXCEPT ![p].pc = "publish"]
  /\ UNCHANGED <<ledger, running, cache, events, faults, unsent>>

(* Mutation: emitStatusDomainEvent has no branch for FAILED.               *)
PublishNoFailed(p) ==
  /\ h[p].pc = "publish"
  /\ LET r == h[p] IN
       /\ cache' = [cache EXCEPT ![r.tx] = "NONE"]
       /\ events' = events \cup {<<r.tx, s>> : s \in {CallStatus(r)} \ {"FAILED"}}
       /\ h' = [h EXCEPT ![p] =
                  IF r.milestone
                  THEN [r EXCEPT !.pc = "read", !.milestone = FALSE]
                  ELSE IF r.op \in PollOps THEN [r EXCEPT !.pc = "next"] ELSE Idle]
  /\ UNCHANGED <<rows, ledger, running, faults, unsent>>

(* cache.delete and the domain event; then the caller goes on.             *)
Publish(p) ==
  /\ h[p].pc = "publish"
  /\ LET r == h[p] IN
       /\ cache' = [cache EXCEPT ![r.tx] = "NONE"]
       /\ events' = events \cup {<<r.tx, CallStatus(r)>>}
       /\ h' = [h EXCEPT ![p] =
                  IF r.milestone
                  THEN [r EXCEPT !.pc = "read", !.milestone = FALSE]
                  ELSE IF r.op \in PollOps THEN [r EXCEPT !.pc = "next"] ELSE Idle]
  /\ UNCHANGED <<rows, ledger, running, faults, unsent>>

(* PATCH /transactions/:id/status, with or without a stellarHash           *)
PatchStatus(p, t, s, hash) ==
  /\ "patch" \in Ops /\ h[p] = Idle /\ Exists(t)
  /\ h' = [h EXCEPT ![p] = [Idle EXCEPT !.op = "patch", !.pc = "read", !.tx = t,
                                        !.target = s, !.hash = hash]]
  /\ UNCHANGED <<rows, ledger, running, cache, events, faults, unsent>>

-----------------------------------------------------------------------------
(* Horizon and the Stellar network (external).  A POST carries the signed  *)
(* envelope of the row; an answer can be lost, late or refused.            *)

Replies == {"none", "5xx", "throttled", "rejected", "applied", "queued",
            "accepted", "unknown"}

Consistent(op, before, after, reply) ==
  CASE reply \in {"none", "5xx", "unknown"} ->
         after = before \/ (before = "absent" /\ after = "inflight")
    [] reply = "throttled" -> after = before
    [] reply = "rejected" ->
         \/ before = "absent" /\ after \in {"absent", "failed"}
         \/ before \in {"inflight", "failed"} /\ after = "failed"
         \/ op = "feeBump" /\ before \in {"inflight", "applied"} /\ after = before
    [] reply \in {"queued", "accepted"} -> before \in {"absent", "inflight"} /\ after = "inflight"
    [] reply = "applied" ->
         /\ before \in {"absent", "inflight", "applied"} /\ after = "applied"
         /\ op = "feeBump" => before # "applied"

LedgerClose(t) ==
  /\ ledger[t] = "inflight"
  /\ \E l \in {"applied", "failed", "absent"} : ledger' = [ledger EXCEPT ![t] = l]
  /\ UNCHANGED <<rows, h, running, cache, events, faults, unsent>>

(* A 202 "accepted" carries a hash but neither a code nor http_status.     *)
ReplyBody(reply) == CASE reply = "applied" -> AppliedBody
                      [] reply = "queued"  -> QueuedBody
                      [] OTHER             -> UnknownBody

-----------------------------------------------------------------------------
(* HorizonSubmissionService.submitTransaction and                          *)
(* FeeBumpService.submitFeeBump up to the POST.                            *)

StartSubmit(p, t, op) ==
  /\ op \in Ops /\ h[p] = Idle /\ Exists(t)
  /\ h' = [h EXCEPT ![p] = [Idle EXCEPT !.op = op, !.pc = "post", !.tx = t]]
  /\ UNCHANGED <<rows, ledger, running, cache, events, faults, unsent>>

(* Mutation: the attempt counter is not compared with the maximum.         *)
RetriedForever(r, reply) == r.op = "submit" /\ reply \in {"none", "5xx", "throttled"}

(* TransactionRetryService.isTransient; a fee bump is not retried.         *)
Retried(r, reply) ==
  r.op = "submit" /\ r.attempt < MaxAttempts /\ reply \in {"none", "5xx", "throttled"}

(* The body of submitTransaction / submitFeeBump after the POST: no answer *)
(* and 5xx throw and persist nothing, a 4xx persists FAILED, an answer     *)
(* persists its status and hash, a missing hash becoming ''.               *)
AfterPost(r, reply) ==
  IF Retried(r, reply) THEN [r EXCEPT !.attempt = @ + 1]
  ELSE IF reply \in {"none", "5xx"} THEN Idle
  ELSE IF reply \in {"throttled", "rejected"}
       THEN [r EXCEPT !.pc = "read", !.target = "FAILED"]
       ELSE LET s == mapHorizonResultToStatus(ReplyBody(reply)) IN
              [r EXCEPT !.pc = "read", !.target = s,
                        !.hash = IF reply = "unknown" THEN EmptyHash ELSE r.tx,
                        !.milestone = (r.op = "submit" /\ s = "CONFIRMED")]

PostToHorizon(p) ==
  /\ h[p].pc = "post"
  /\ \E after \in LedgerState, reply \in Replies :
       /\ Consistent(h[p].op, ledger[h[p].tx], after, reply)
       /\ ledger' = [ledger EXCEPT ![h[p].tx] = after]
       /\ h' = [h EXCEPT ![p] = AfterPost(@, reply)]
  /\ UNCHANGED <<rows, running, cache, events, faults, unsent>>

-----------------------------------------------------------------------------
(* TransactionPollingService: the timer's tick (guarded by running) and    *)
(* the internal endpoint (not guarded) run the same poll.                  *)

Pollable == {t \in Tx : rows[t].status = "SUBMITTED" /\ rows[t].hash # NoHash}

(* take: limit.  Which rows come first is left open.  A row whose stored   *)
(* hash is '' is only counted as an error, so no query is made for it.     *)
Batches == {S \in SUBSET Pollable :
              \/ S = Pollable /\ Cardinality(S) <= PollLimit
              \/ Cardinality(S) = PollLimit}

Queried(S) == {t \in S : rows[t].hash # EmptyHash}

(* Mutation: the tick does not look at running.                            *)
PollStartUnguarded(p, op) ==
  /\ op \in Ops \cap PollOps /\ h[p] = Idle
  /\ \E S \in Batches :
       h' = [h EXCEPT ![p] = [Idle EXCEPT !.op = op, !.pc = "next", !.queue = Queried(S)]]
  /\ running' = (running \/ op = "pollTick")
  /\ UNCHANGED <<rows, ledger, cache, events, faults, unsent>>

PollStart(p, op) ==
  /\ op \in Ops \cap PollOps /\ h[p] = Idle
  /\ op = "pollTick" => ~running
  /\ \E S \in Batches :
       h' = [h EXCEPT ![p] = [Idle EXCEPT !.op = op, !.pc = "next", !.queue = Queried(S)]]
  /\ running' = (running \/ op = "pollTick")
  /\ UNCHANGED <<rows, ledger, cache, events, faults, unsent>>

(* queryHorizonTransaction by the stored hash, which is that of the row's  *)
(* own envelope; a 404 becomes the body tx_submitted.                      *)
QueryBody(t) == CASE ledger[t] = "applied" -> AppliedBody
                  [] ledger[t] = "failed"  -> FailedBody
                  [] OTHER                 -> NotFoundBody

AfterQuery(r, t) ==
  LET s == mapHorizonResultToStatus(QueryBody(t)) IN
    IF s = "SUBMITTED"
    THEN [r EXCEPT !.queue = @ \ {t}]
    ELSE [r EXCEPT !.queue = @ \ {t}, !.pc = "read", !.tx = t, !.target = s]

PollQuery(p, t) ==
  /\ h[p].pc = "next" /\ t \in h[p].queue
  /\ h' = [h EXCEPT ![p] = AfterQuery(@, t)]
  /\ UNCHANGED <<rows, ledger, running, cache, events, faults, unsent>>

(* A query without an answer or with an error: the row is passed over.     *)
PollSkip(p, t) ==
  /\ h[p].pc = "next" /\ t \in h[p].queue
  /\ h' = [h EXCEPT ![p].queue = @ \ {t}]
  /\ UNCHANGED <<rows, ledger, running, cache, events, faults, unsent>>

(* Mutation: running is not reset when the poll ends.                      *)
PollEndStillRunning(p) ==
  /\ h[p].pc = "next" /\ h[p].queue = {}
  /\ h' = [h EXCEPT ![p] = Idle]
  /\ UNCHANGED <<rows, ledger, running, cache, events, faults, unsent>>

PollEnd(p) ==
  /\ h[p].pc = "next" /\ h[p].queue = {}
  /\ h' = [h EXCEPT ![p] = Idle]
  /\ running' = (running /\ h[p].op # "pollTick")
  /\ UNCHANGED <<rows, ledger, cache, events, faults, unsent>>

-----------------------------------------------------------------------------
(* TransactionQueryService.findOne, behind GET /transactions/:id: a miss   *)
(* reads the row and fills the cache.                                      *)

FindRead(p, t) ==
  /\ "find" \in Ops /\ h[p] = Idle /\ cache[t] = "NONE" /\ Exists(t)
  /\ h' = [h EXCEPT ![p] = [Idle EXCEPT !.op = "find", !.pc = "fill", !.tx = t,
                                        !.seen = rows[t].status]]
  /\ UNCHANGED <<rows, ledger, running, cache, events, faults, unsent>>

FindFill(p) ==
  /\ h[p].pc = "fill"
  /\ cache' = [cache EXCEPT ![h[p].tx] = h[p].seen]
  /\ h' = [h EXCEPT ![p] = Idle]
  /\ UNCHANGED <<rows, ledger, running, events, faults, unsent>>

(* Mutation: entries are stored without a TTL.                             *)
CacheExpireNever(t) == cache[t] = "EXPIRED" /\ UNCHANGED vars

(* CacheService.get drops an entry older than its TTL.                     *)
CacheExpire(t) ==
  /\ cache[t] # "NONE"
  /\ cache' = [cache EXCEPT ![t] = "NONE"]
  /\ UNCHANGED <<rows, ledger, h, running, events, faults, unsent>>

-----------------------------------------------------------------------------
(* Faults: the process dies (memory is lost, with the events not yet       *)
(* emitted; rows and ledger are not), or a database call of one handler    *)
(* throws.                                                                 *)

Due(r) == r.pc = "publish" /\ CallStatus(r) \in Terminal

Restart ==
  /\ faults < MaxFaults
  /\ h' = [p \in Handlers |-> Idle]
  /\ running' = FALSE
  /\ cache' = [t \in Tx |-> "NONE"]
  /\ faults' = faults + 1
  /\ unsent' = unsent \cup {<<h[p].tx, CallStatus(h[p])>> : p \in {q \in Handlers : Due(h[q])}}
  /\ UNCHANGED <<rows, ledger, events>>

DatabaseError(p) ==
  /\ faults < MaxFaults
  /\ h[p].pc \in {"insert", "read", "write"}
  /\ h' = [h EXCEPT ![p] = Thrown(@)]
  /\ faults' = faults + 1
  /\ UNCHANGED <<rows, ledger, running, cache, events, unsent>>

-----------------------------------------------------------------------------
Update(p) == UpdateRead(p) \/ UpdateWrite(p) \/ Publish(p)

Poll(p) == \/ \E t \in Tx : PollQuery(p, t) \/ PollSkip(p, t)
           \/ PollEnd(p)

(* The next step of a call that has started.                               *)
Continue(p) == CreateInsert(p) \/ Update(p) \/ PostToHorizon(p) \/ Poll(p) \/ FindFill(p)

Next ==
  \/ \E p \in Handlers :
       \/ \E k \in Keys \cup {NoKey} : CreateCheck(p, k)
       \/ CreateInsert(p)
       \/ Update(p)
       \/ \E t \in Tx : \/ \E s \in ManualTargets, hash \in {NoHash, t} : PatchStatus(p, t, s, hash)
                        \/ \E op \in {"submit", "feeBump"} : StartSubmit(p, t, op)
                        \/ FindRead(p, t)
       \/ PostToHorizon(p)
       \/ \E op \in PollOps : PollStart(p, op)
       \/ Poll(p)
       \/ FindFill(p)
       \/ DatabaseError(p)
  \/ \E t \in Tx : LedgerClose(t) \/ CacheExpire(t)
  \/ Restart

Spec == Init /\ [][Next]_vars

(***************************************************************************)
(* Fairness.  The event loop resumes every pending await; the interval     *)
(* timer keeps firing, and a tick needs no free slot of Handlers, which is *)
(* why it is strongly fair; a ledger closes; a cache entry reaches its     *)
(* TTL; and Horizon answers a query that is made again and again.  That    *)
(* every HTTP request to Horizon ends is assumed of the network: the       *)
(* client is created without a timeout.                                    *)
(***************************************************************************)
Fairness ==
  /\ \A p \in Handlers : WF_vars(Continue(p))
  /\ SF_vars(\E p \in Handlers : PollStart(p, "pollTick"))
  /\ \A t \in Tx :
       /\ WF_vars(LedgerClose(t))
       /\ WF_vars(CacheExpire(t))
       /\ SF_vars(\E p \in Handlers : PollQuery(p, t))

FairSpec == Spec /\ Fairness

-----------------------------------------------------------------------------
(* Properties.                                                             *)

(* Every variable stays in its type: in particular no handler ever makes   *)
(* more than MaxAttempts POSTs (TransactionRetryService.execute).          *)
TypeOK ==
  /\ rows \in [Tx -> Row]
  /\ ledger \in [Tx -> LedgerState]
  /\ h \in [Handlers -> Handler]
  /\ running \in BOOLEAN
  /\ cache \in [Tx -> Status \cup {"NONE"}]
  /\ events \subseteq Tx \X Status
  /\ faults \in 0..MaxFaults
  /\ unsent \subseteq Tx \X Status

(* However updateStatus calls interleave, a transaction that was ever      *)
(* marked CONFIRMED has passed through SUBMITTED: submittedAt is set.      *)
ConfirmedWasSubmitted ==
  \A t \in Tx : rows[t].confirmedAt => rows[t].submittedAt

(* Unless an operator writes CONFIRMED by hand, a row that says CONFIRMED, *)
(* and a transaction.confirmed event, mean the ledger applied the          *)
(* envelope: no mix of retries, fee bumps, polls, lost answers and         *)
(* restarts confirms a payment that did not happen.                        *)
ConfirmedIsApplied ==
  "CONFIRMED" \notin ManualTargets =>
    \A t \in Tx : rows[t].confirmedAt \/ <<t, "CONFIRMED">> \in events
                    => ledger[t] = "applied"

(* runScheduledPoll "guards against overlapping ticks": two scheduled      *)
(* polls are never in flight together, across errors and restarts.         *)
PollTickExclusive ==
  \A p, q \in Handlers : h[p].op = "pollTick" /\ h[q].op = "pollTick" => p = q

(* The statuses a row has had, by its timestamps.                          *)
Past(row) == IF row.status = "NONE" THEN {}
             ELSE {"PENDING"} \cup (IF row.submittedAt THEN {"SUBMITTED"} ELSE {})
                              \cup (IF row.confirmedAt THEN {"CONFIRMED"} ELSE {})
                              \cup (IF row.failedAt THEN {"FAILED"} ELSE {})

(* However calls overlap, status and timestamps implement the abstract     *)
(* lifecycle: every status a row gets is one that ALLOWED_TRANSITIONS      *)
(* allows from a status the row has had.                                   *)
Lifecycle == INSTANCE TransactionLifecycle WITH status <- [t \in Tx |-> rows[t].status],
                                                past <- [t \in Tx |-> Past(rows[t])]
RefinesLifecycle == Lifecycle!Spec

(* "Terminal state" of ALLOWED_TRANSITIONS: once CONFIRMED or FAILED, a    *)
(* transaction keeps that status.                                          *)
TerminalIsFinal ==
  [][\A t \in Tx : rows[t].status \in Terminal => rows'[t].status = rows[t].status]_vars

(* queryHorizonTransaction on a 404: "Return a result that indicates       *)
(* SUBMITTED status".  So a poll marks a transaction FAILED only when the  *)
(* ledger has failed its envelope, not while it may still be applied.      *)
PollFailsOnlyTheFailed ==
  \A p \in Handlers :
    h[p].op \in PollOps /\ h[p].pc = "publish" /\ h[p].target = "FAILED"
      => ledger[h[p].tx] = "failed"

(* The timer resolves every SUBMITTED transaction whose envelope a ledger  *)
(* has decided, through failed queries, database errors and restarts; the  *)
(* answer to a poll that comes before the ledger's decision is not needed. *)
PollResolves ==
  \A t \in Tx : (/\ rows[t].status = "SUBMITTED" /\ rows[t].hash = t
                 /\ ledger[t] \in {"applied", "failed"})
                   ~> rows[t].status \in Terminal

(* A terminal status is announced by its domain event, whatever faults and *)
(* calls come before and after; only a restart between the write of that   *)
(* very status and its event keeps it from being emitted.                  *)
TerminalIsAnnounced ==
  \A t \in Tx, s \in Terminal :
    rows[t].status = s ~> <<t, s>> \in events \cup unsent

(* findOne may cache a status that is already old, but not for ever: from  *)
(* some time on, readers of a finished transaction see its final status.   *)
TerminalBecomesVisible ==
  \A t \in Tx, s \in Terminal :
    [](rows[t].status = s) ~> [](cache[t] \in {"NONE", s})
=============================================================================
