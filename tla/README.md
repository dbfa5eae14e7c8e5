# mux-backend: TLA+ models, model checks and proofs

mux-backend is a NestJS service that holds custodial Stellar wallets for its
users: it creates wallets and rotates their keys, builds, submits and follows
transactions, takes payments under spending limits, and tells its clients what
happened through webhooks. Its state is in PostgreSQL (through Prisma), in an
in-memory cache, and on the Stellar network. Several requests and several timers
run at once; every `await` is a point where another one may run, and few of the
read-then-write sequences are protected by more than a unique index. That is
what these modules model.

All source paths below are relative to the repository; the application is under
`src/src/`, the database schema is `src/prisma/schema.prisma`.

## Contents

1. The parts of the system
2. Modules, and how they correspond to the code
3. Runs: what is checked, on which instance
4. Properties that hold only while calls do not overlap
5. Fairness
6. Proofs
7. Where code and documentation disagree
8. What the models assume and leave out
9. Plan

## 1. The parts of the system

| Part | State | Operations | What makes it hard | Module |
|---|---|---|---|---|
| Transaction lifecycle | `Transaction` rows, cache entries | create, updateStatus, findOne | read, check and unconditional write are three steps; cache filled after an await | `Transactions` |
| Horizon submission, fee bump | none of its own | submitTransaction, submitFeeBump | answers are lost, POSTs are retried, one envelope can arrive twice | `Transactions` |
| Transaction polling | `running` | timer tick, internal endpoint | ticks overlap with slow polls; one failing row must not stop the others | `Transactions` |
| Payments | `Payment` rows | create, createBatch, update | insert, submit and link are separate; retry with the same key | `Payments` |
| Wallet limits | `WalletLimit` rows | set, update, remove, check | usage is read before the payment is inserted | `Limits`, `Payments` |
| Webhook delivery | `WebhookDelivery`, failure counts | dispatchEvent, processDeliveries | passes do not claim rows; an accepted POST may not be recorded | `Webhooks` |
| Webhook endpoints, dead letters | `WebhookEndpoint` rows | create, update, delete, replay | an operator changes what a pass has already read | `Webhooks` |
| Wallet records, key rotation | `Wallet` rows | create, status, rotate, remove | chains of successors; deletion against open transactions | `Wallets` |
| Wallet recovery | `RecoveryRequest` rows | create, update, approve, reject | an approval contains a rotation, without a common transaction | `Recovery` |
| Wallet creation orchestrator | `Wallet`, `IdempotencyRecord`, cache | createWallet, getWalletByUser | one long database transaction; expiring keys; a swallowed failure in it | `WalletOrchestrator` |

Not modelled yet, and planned (section 9): the balance indexer, the Horizon
client with its circuit breaker, HTTP idempotency, refresh tokens, the
authentication flow, the login and API rate limits, users, API keys, history
import, transaction export, relayer funding and Soroban, key material and its
validation cache, the wallet cache and cleanup timer, maintenance mode and
feature flags.

Not modelled, for good: transaction building and signing (pure construction
through the Stellar SDK), API changelog, projects and developers (single
statements on one table), backup (child processes on files), observability
(nothing reads it), request plumbing and configuration (no state that outlives a
request).

How the parts interact: a payment is checked against `Limits`, creates a
transaction and submits it; a submission and the poller both end in
`TransactionsService.updateStatus`; an approved recovery runs the rotation of
`Wallets`; a wallet cannot be deleted while the schema's relations from
transactions forbid it. `Payments` extends `Limits`, and `Recovery` extends
`Wallets`, so these compositions are checked with their components' own actions.

## 2. Modules, and how they correspond to the code

A handler, call, request or pass is a record with a program counter. One action
is what the code does between two awaits, so every interleaving the event loop
and READ COMMITTED allow is a behaviour. `PROJECT.json` ("map") gives the lines
behind every definition. Definitions commented "Mutation" are deliberately wrong
variants; nothing uses them except the comparison described in section 3.

**`TransactionStatus`** holds `ALLOWED_TRANSITIONS` and the mapping of Horizon's
results to statuses (`transactions/domain/transaction.model.ts`,
`horizon-result.mapper.ts`). The many failure codes are one class.

**`TransactionLifecycle`** is the abstract specification: a transaction is
created PENDING, and every later status is one the graph allows from a status it
has had. (The stronger "from its current status" is not true; see section 7.)

**`Transactions`** models `TransactionsService` (create, updateStatus),
`TransactionQueryService.findOne` with its cache, `HorizonSubmissionService`,
`FeeBumpService`, `TransactionPollingService` and the status endpoint. `rows` is
the table, `ledger` what the network did with each envelope (external), `h` the
handlers, `running` the poller's flag, `cache` the live entries, `events` what was
emitted, `unsent` the terminal events that were due when a restart struck (a
history variable). A poll selects SUBMITTED rows whose hash is not null, and skips
the ones whose hash is empty. A POST and the network's reaction are one step whose
answer may be lost (`PostToHorizon`); a fault is a restart or a failed query.
`INSTANCE TransactionLifecycle` with status and timestamps as refinement mapping
gives `RefinesLifecycle`.

**`Limits`** models `LimitsService`: rows with caps, `checkLimits`, and
set/update/remove at each await: the read, the write, and the events that follow
the answer of the write. A write runs inside `retryWithBackoff` (`LimitTries`): an
attempt may fail, or commit and lose its answer, and the next attempt of
`setLimits` reads the row again while those of `updateLimits` and `removeLimits`
repeat the statement only. A crash may end a call at any await. `heard` is what
a listener of `limit.updated` knows; `unheard` (history) is the set of wallets
with a committed change that no event can follow any more, or with overlapping changes.

**`Payments`** extends it with `PaymentsService`: `create` from the key lookup over
limit check, insert, transaction, submission to the final update; `createBatch` as
concurrent creates; `update`; and the passing of days. `Abort` ends a create at any await: it
stands for every refusal, thrown error and crash there.

**`Webhooks`** models `WebhookDispatcherService`, `WebhookRetryService`,
`WebhookDispatchService`, the queue worker, and of `WebhookService` the endpoint
operations and replay. A pass (`hd`, one per member of `Workers`) is started by the
timer, a dispatch, a replay or the process endpoint; it scans a batch, then for
each row posts, writes the result, and updates the endpoint's failure count in a
read and a write.

**`Wallets`** models `WalletsService.createWallet`, `updateWalletStatus`/`archive`,
`rotateWalletKey` with `KeyManagementService.rotateKey`, and `remove` with the
schema's referential actions (`Restrict` for a sender, `SetNull` for a receiver,
for `rotatedFrom` and for a successor). `tx` is what others do to transactions.

**`Recovery`** extends it with `RecoveryService` and `AdminRecoveryService`.

**`WalletOrchestrator`** models `WalletCreationOrchestrator.createWallet` as one
interactive database transaction: its inserts are seen by others at `Commit`
only, an insert of a key waits for another open transaction that inserted it, and
a statement that fails aborts the transaction even if the code catches the error.
`storeIdempotencyRecord` swallows every error of its insert, the unique violation
and any other; what is then committed is nothing.

**`MC*`** instantiate them for TLC. `MCOutbound`, `MCIdempotency` and `MCCustody`
hold the passing runs. Each of them puts components with no common state, or two
instances of one component, beside each other under a variable `focus` that the
initial state chooses: every behaviour is one of the chosen component, and one
run checks them all. `MCOutbound` also states the fairness of its two components for the
one that runs. **`TransactionsProofs`** and **`WalletsProofs`** hold the theorems.

## 3. Runs: what is checked, on which instance

Four runs pass, eight show a disagreement (section 7). For every property of a
passing run `PROJECT.json` ("mutants") names a wrong variant of a modelled
definition (a dropped guard, an early give-up, a counter that is not
incremented, ...) under which TLC does find the property violated.

| Run | Instance | Checks |
|---|---|---|
| `outbound_concurrent` | 1 transaction, 2 handlers, all writing operations, 2 POST attempts, 1 fault; or 2 events, 1 endpoint, timer and 1 handler, 2 attempts, 1 replay, re-enabling; 600 000 states | `TypeOK` (with the bound on retries), `ConfirmedWasSubmitted`, `ConfirmedIsApplied`, `PollTickExclusive`, `RefinesLifecycle`; `WebhooksTypeOK`, `DeliveredWasAccepted`, `GivenUpForCause`, `PostsWithinBudget`, `DeliveredIsFinal`, `DisabledAfterStreak` |
| `outbound_live` | 1 transaction, 2 handlers, create, submit, timer, find, 1 fault; or 1 event, 1 endpoint that can be deleted, timer and 1 handler, 1 fault; 67 000 states | `PollResolves`, `TerminalIsAnnounced`, `TerminalBecomesVisible`; `PostsWithinBudget` (with the fault), `QueueDrains` |
| `idempotency` | 2 payments, 2 calls, 1 key, manual updates; or 2 payments under changing caps, amounts 1 and 2; or 1 operator, caps 0 and 2, 2 tries, all faults; or 2 wallets, 2 owners, 1 key, 2 calls, expiry, removal, restart; 625 000 states | `PaymentsTypeOK`, `ReplayReturnsOriginal`, `PostedOncePerKey`, `LinkedWasAnswered`, `CapsHold`; `ListenersKnowTheLimits`; `OrchestratorTypeOK`, `RecordedKeyReplays`, `OneWalletPerOwner`, `RecordsNameCommittedWallets` |
| `custody` | 3 wallets, 1 owner, 1 transaction, 2 handlers; or 2 wallets, 2 recovery requests, 2 handlers; 720 000 states | `WalletsTypeOK`, `SuccessorsPointBack`, `RotationsAreFresh`, `SendersExist`, `EverySuccessorIsLinked`, `OneCurrentWallet`; `RecoveryTypeOK`, `OneActiveRequest`, `RequestsHaveWallets` |
| `tx_terminal_race` | 1 transaction, 2 handlers | `TerminalIsFinal` is violated |
| `tx_poll_404` | 1 transaction, 2 handlers, no fault | `PollFailsOnlyTheFailed` is violated |
| `wh_fanout` | 1 event, 2 endpoints | `EveryEndpointGetsARow` is violated |
| `pay_terminal_race` | a create and an update of one payment | `PaymentTerminalIsFinal` is violated |
| `limits_race` | 2 `setLimits` of one wallet, no fault | `SetReplacesWhatItRead` is violated |
| `wal_reactivation` | 2 status changes of one wallet | `NoReactivation` is violated |
| `rec_retry` | 2 wallets, 1 request, 1 handler | `ApprovalCanBeRetried` is violated |
| `orch_announced` | wallet creations with a key | `AnnouncedWasCommitted` is violated |

State counts are distinct states (after symmetry).

**Why these bounds.** A race in this code is between two calls on one row, so two
handlers and one row (two where a unique index or a sum over rows matters) are
the smallest instance in which every read can be stale. Two attempts are one
retry; a failure threshold of 2 has a streak that is interrupted and one that is
not; caps 0 and 2 with amounts 1 and 2 contain the per-transaction cap 0, the exact cap
and the excess. Three wallets are a chain of two rotations. One fault is enough
to strike between any two steps.

What these instances do not contain: two transactions at once (so neither the
hash index nor a race for a transaction's key is exercised in
`outbound_concurrent`; the same key protocol is checked for payments, and the
theorems hold for any number of transactions); an operator writing CONFIRMED by
hand in `outbound_concurrent`, which `ConfirmedIsApplied` exempts anyway; two
operators setting limits in a passing run (`limits_race` has them); payments
while a failed limit change is retried or while the daily cap is 0; status
changes of wallets by hand together with recoveries, and requests set REJECTED or
COMPLETED by a plain update (they are settled otherwise); replays of webhooks together with
faults, or with a second event and overlapping handlers; in `outbound_live`, two submits that overlap after a
fault, and creates and timer polls by more than one handler (`Clerks`).

**Deadlock** is checked in the `outbound` runs. It is switched off in
the others because identifiers there are used up: after the last payment,
wallet, request or reply of the instance nothing need be enabled.

## 4. Properties that hold only while calls do not overlap

`Payments`, `Webhooks`, `Wallets` (and with it `Recovery`) carry a history variable
`solo`, `WalletOrchestrator` one called `serial`: no two calls have been in
flight together so far. Nothing in the modelled code depends on it. The properties
below have it as a premise. They are checked in the same runs as the
unconditional ones, over long sequences of calls that fail, expire and are
retried one after the other.

The premise is needed for each of them: without it two overlapping calls violate
the property. So each of them is a promise the code keeps for calls made one
after the other and does not keep for concurrent ones.

| Property | What two overlapping calls do |
|---|---|
| `CapsHold` (daily part) | two creates read the same usage and both insert (`payments.service.ts:268`) |
| `PostsWithinBudget` | two passes post the same attempt |
| `DeliveredIsFinal` | a pass with an older scan posts the delivered event again and records its failure |
| `DisabledAfterStreak` | an event is delivered between the read of the failure count and its write |
| `EverySuccessorIsLinked`, `OneCurrentWallet` | two rotations, or two creations, of one wallet or owner pass the check |
| `OneActiveRequest` | two creates pass the check for an open request |
| `OneWalletPerOwner` | two calls of one user both find no wallet in their own transactions |

Everything else in the passing runs of section 3 holds under every interleaving,
with the exceptions two properties state themselves: `TerminalIsAnnounced` leaves
out the events that were due when the process restarted, and
`ListenersKnowTheLimits` the wallets in `unheard` (changes that overlapped, a committed
change whose call ended before its events, and a committed `setLimits` that was
retried and so compares with its own write).

## 5. Fairness

`Transactions!Fairness`: a handler that has started continues (weak fairness of
`Continue`, its next step: the event loop resumes a settled promise); the network eventually closes a ledger on an envelope it holds; a cache
entry reaches its TTL; the interval timer's tick is started infinitely often if it is
possible infinitely often (strong fairness, because the finite set of handlers can be
briefly occupied, which the code's handlers cannot be); and the query of a row that
is due in infinitely many polls is eventually answered (strong fairness of
`PollQuery`: Horizon is not down for ever). Creating, submitting and reading are
not fair: users may stop.

One part of this is an assumption about the network and not justified by the
code: that every HTTP request to Horizon ends, with an answer or an error. The
client is created without a timeout (`createRequestIdAwareAxios()` in
`transaction-polling.service.ts:36` and `horizon-submission.service.ts:31`). A
request that never ended would leave `running` set, and all later ticks would be
skipped; `PollResolves` says nothing about that case. Webhook POSTs do have a
timeout (`webhook-dispatch.service.ts:108`).

`Webhooks!WebhooksFairness`: a started pass continues, the worker's timer keeps ticking,
and `nextRetryAt` passes. What endpoints answer is not constrained, and operators are not fair.

`MCOutbound!MCFairness` is the two together, each conjunct for the component that
`focus` chose. Symmetry is not used in the liveness run.

## 6. Proofs

All theorems are for every value of the constants that satisfies the named
assumption of the component's module (`TransactionsAssumption`: the operations are known
ones, at least one attempt, natural bounds; `WalletsAssumption` likewise).

`TransactionsProofs`, about `Transactions!Spec`:

* `TypeCorrect`: `Spec => []TypeOK`. The invariant is `Typed`: types, and that a handler
  in the middle of work names a row (without which an update of `rows[h[p].tx]`
  would not be typed).
* `ConfirmedAfterSubmitted`: `Spec => []ConfirmedWasSubmitted`. `updateStatus`
  checks one row and may write another version of it, so the property is not
  inductive. `SubmittedFirst` adds that a SUBMITTED row has its timestamp, and
  that a call which passed the check for CONFIRMED works on a row whose
  `submittedAt` is set: the timestamp, unlike the status, is never taken back.
* `ConfirmedOnlyIfApplied`: `Spec => []ConfirmedIsApplied`. `AppliedFirst` follows the
  answer through the code: a pending `updateStatus(CONFIRMED)` comes from a reply that Horizon
  gives only for an applied envelope, and applied is for ever.

`WalletsProofs`, about `Wallets!WalletsSpec`:

* `WalletsTypeCorrect`, `SuccessorsConsistent` (`SuccessorsPointBack`) and
  `RotationsHoldTheRow` (`RotationsAreFresh`), from the one inductive invariant
  `IInv`, which is their conjunction. Neither of the last two is inductive alone: a
  rotation links a successor with the owner and version it read before generating
  the key, so the link is right only because these cannot have changed since.

Only model-checked: the liveness properties (outside the proof system's
reach), `RefinesLifecycle`, and everything about `Payments`, `Limits`, `Webhooks`,
`Recovery` and `WalletOrchestrator`.

## 7. Where code and documentation disagree

Eight of the disagreements met while modelling have a run:

* `tx_terminal_race`: `updateStatus` checks the status it read and then writes by
  id (`transactions.service.ts:276`), so a FAILED transaction can become
  SUBMITTED, while the status graph calls FAILED terminal.
* `tx_poll_404`: the answer 404 becomes `tx_submitted`, which the mapper does not
  know and maps to FAILED (`transaction-polling.service.ts:212`; the comment above
  it: "Return a result that indicates SUBMITTED status"). A poll that comes before
  the ledger closes fails a transaction that may yet be applied. For the same reason
  `PollResolves` asks for a status only, not for the right one, and is stated from
  the moment the ledger has decided.
* `wh_fanout`: `dispatchEvent` creates one row per endpoint with the same
  `eventId`, which is unique (`schema.prisma:586`); the second insert throws.
* `pay_terminal_race`: an operator's update that read PENDING overwrites the outcome
  create has stored meanwhile, and in the opposite order create overwrites the
  operator's status (`payments.service.ts:338`, `:187`; `:39`: "terminal states are
  immutable").
* `limits_race`: `setLimits` runs its read and its upsert in a transaction at READ
  COMMITTED, which does not keep another one out (`limits.service.ts:94`; `:87`
  says it does).
* `wal_reactivation`: a status change checked before another is written after it
  (`wallets.service.ts:416`; `wallet.model.ts:71`: "Keep this strict to avoid
  accidental reactivation after compromise/disable").
* `rec_retry`: `approveRecovery` reads a field `rotateWalletKey` does not return,
  after a rotation that succeeded; the approval fails, and the retry its comment promises
  (of a failed rotation) is refused because the wallet has a successor by then.
* `orch_announced`: the failed insert of the idempotency record is swallowed, but
  PostgreSQL has aborted the transaction; the commit rolls the wallet back and
  `wallet.created` is emitted (`wallet-creation-orchestrator.service.ts:717`; `:685`:
  "a failed idempotency write must not roll back a successful wallet creation").

The overlaps of section 4 contradict these statements of the source:

* `limits.service.ts:248`: "Enforce daily cap only when a positive daily limit is
  configured" (a batch as a whole can pass the cap, `payments.service.ts:233`);
* `key-management.service.ts:401`: "All DB writes are wrapped in a transaction to
  prevent partial state" (two rotations leave one ACTIVE successor unlinked);
* `wallet-creation-orchestrator.service.ts:272`: "Enforce one wallet per user per
  network".

The following were met while reading and modelling. No run in this project
checks them; they are recorded so that nobody relies on the opposite.

* Fee bump: CONFIRMED on a PENDING row is refused and the error swallowed
  (`fee-bump.service.ts:268`; `:44`: "Persist the result").
* Submission: an answer without a hash stores `''` in a unique column, so the
  second one throws (`horizon-submission.service.ts:114`); the mapper's HTTP 202
  branch is never reached because the HTTP status is not passed on (`:59`).
* Limits: removed limits are still enforced (`limits.service.ts:163`); the day's usage adds the payments of all wallets (`:71`; `schema.prisma:70`:
  "scoped to a Wallet").
* Webhooks: rows of inactive endpoints stay in the queue and can fill every batch
  (`webhook-dispatcher.service.ts:120`); the dead-letter list contains deliveries
  refused at the first attempt (`webhook.service.ts:310`; `:301`: "exhausted all
  retries"); a failure writes back the status it read and can undo an operator's
  DISABLED (`webhook-retry.service.ts:156`).
* Wallets: a receiver can be set to null by a removal racing a new transaction
  (`wallets.service.ts:700`; `:663`); a wallet that ever sent a transaction is never
  removable, because the sender relation restricts (`:667` says it is).
* Recovery: a request can be set APPROVED and COMPLETED by plain updates, with no
  rotation (`recovery.service.ts:139`).
* Orchestrator: when the wallet already exists no record is stored under the
  key (`wallet-creation-orchestrator.service.ts:284`; `:112`: "must map to exactly
  one operation"); a cached wallet is returned after its deletion (`:507`), since
  `invalidateWalletCache` has no caller.

## 8. What the models assume and leave out

* PostgreSQL at READ COMMITTED; each statement is atomic; COMMIT of an aborted
  transaction rolls back without an error.
* `TransactionRetryService` is not among the module's providers, so as wired there
  is one POST attempt (`MaxAttempts = 1`, `outbound_live`); `outbound_concurrent` checks the
  retry loop as written. A missing answer is treated as transient.
* An envelope (with its fee bump) has one hash, and a hash one transaction row; the
  status endpoint is given the hash of the row's own envelope or none. The order of
  rows in a poll is open. A row SUBMITTED without a hash is never polled, in the
  code and in the model.
* Validation that can only refuse (formats, balances, key lookup) is left out: a
  refused call changes nothing. In `Payments` it is part of `Abort`.
* `retryWithBackoff` around the checks of a payment repeats reads only; a repeated
  check is a call that is refused and made again.
* The payment status history writes to a model the schema lacks and stores nothing.
* The failure count of an endpoint is kept up to its threshold; the scan's 100 rows
  are `BatchSize`; a rotated secret is visible only as a refusing endpoint.
* `activateWallet` and `cleanupStaleProvisioningWallets` never meet a committed
  PROVISIONING row, because the insert and the activation commit together.
* Removing the middle of a rotation chain leaves two wallets without a successor;
  `OneCurrentWallet` therefore assumes no removal. An operator may set a ROTATING
  wallet back to ACTIVE: the graph allows it.
* Some files use collaborators they do not declare and would not type-check; the
  collaborators are taken to be present and do what their callers expect.
* A limit change that reaches a wallet without limits in update or remove is
  refused; warning events near a cap are left out.
* `MaxFaults`, `MaxHookFaults`, `MaxReplays`, `MaxReplies` and the sizes of the identifier sets are
  bounds of the model, not of the code.

## 9. Plan

In this order, as components first and then their compositions:

1. Users, refresh tokens, login rate limit, and the authentication flow over them
   and `WalletOrchestrator`: find-or-create under the unique `authId`, token
   families at each await, lock-out windows.
2. The request gateway: API keys, API rate limit, HTTP idempotency, maintenance
   mode and feature flags as the guards and interceptors a request passes.
3. Horizon: circuit breaker and retries, balance indexer (events, syncs and
   reconciliation over one row), history import with its cursor.
4. Key material and its validation cache, transaction export, the wallet cache and
   the cleanup timer, dead-letter alerts.
5. Proofs: `RefinesLifecycle` as a refinement theorem, `SendersExist`,
   `PollTickExclusive`, `PostedOncePerKey` and `ReplayReturnsOriginal`,
   `DeliveredWasAccepted`, and an abstract specification of idempotent creation
   that `Payments` and `WalletOrchestrator` implement.

To run: `tlc -config <run>.cfg <module>` with the module `PROJECT.json` names for the run, and
`tlapm TransactionsProofs.tla`, `tlapm WalletsProofs.tla`.
