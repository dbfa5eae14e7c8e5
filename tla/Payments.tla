------------------------------ MODULE Payments ------------------------------
(***************************************************************************)
(* PaymentsService with the limits it checks: create (idempotency lookup,  *)
(* validation, insert, transaction row, submission, final update), the     *)
(* batch (several creates in flight at once) and update, between awaits.   *)
(* What TransactionsService and Horizon do is seen through the outcomes    *)
(* of create and submitTransaction (modules Transactions).                 *)
(***************************************************************************)
EXTENDS Limits, FiniteSetsExt

CONSTANTS
  Pay,        \* payment ids
  Calls,      \* create and update calls that may be in flight at once
  Keys,       \* idempotency keys
  NoKey,      \* a create without a key
  Amounts,
  PayTargets  \* statuses written through PATCH /payments/:id

ASSUME PaymentsAssumption ==
  /\ Amounts \subseteq Nat \ {0}
  /\ PayTargets \subseteq {"PENDING", "CONFIRMED", "FAILED"}

VARIABLES
  pay,      \* the payment table
  txs,      \* the transaction row a payment's create made
  posts,    \* how often an envelope of the payment was sent to Horizon
  call,     \* local state of each call
  replies,  \* what create() returned under a key: <<key, id>>
  solo      \* history: no two calls have been under way at once

payVars == <<pay, txs, posts, call, replies, solo>>
vars    == <<payVars, limitVars>>

PaymentStatus == {"PENDING", "CONFIRMED", "FAILED"}
TxStatus      == {"NONE", "PENDING", "SUBMITTED", "CONFIRMED", "FAILED"}

PayRow == [status : PaymentStatus \cup {"NONE"}, key : Keys \cup {NoKey},
           w : Wallets \cup {"none"}, amount : Amounts \cup {0},
           today : BOOLEAN, linked : BOOLEAN]

NoPay == [status |-> "NONE", key |-> NoKey, w |-> "none", amount |-> 0,
          today |-> TRUE, linked |-> FALSE]

PayPC == {"idle", "limits", "usage", "decide", "insert", "tx", "submit", "finish", "write"}

(* The arguments of a call; lim and used, what checkLimits has read; id,   *)
(* the payment; to, the status it is about to write.                       *)
Call == [pc : PayPC, key : Keys \cup {NoKey}, w : Wallets \cup {"none"},
         amount : Amounts \cup {0}, lim : LimitRow, used : Nat,
         id : Pay \cup {"none"}, to : PaymentStatus]

CallIdle == [pc |-> "idle", key |-> NoKey, w |-> "none", amount |-> 0,
             lim |-> NoLimit, used |-> 0, id |-> "none", to |-> "PENDING"]

Init ==
  /\ LimitsInit
  /\ pay = [y \in Pay |-> NoPay]
  /\ txs = [y \in Pay |-> "NONE"]
  /\ posts = [y \in Pay |-> 0]
  /\ call = [c \in Calls |-> CallIdle]
  /\ replies = {}
  /\ solo = TRUE

Known(y) == pay[y].status # "NONE"

Total(S) == MapThenSumSet(LAMBDA y : pay[y].amount, S)

-----------------------------------------------------------------------------
(* create: the key is looked up before anything else.                      *)

PayKeyTaken(k) == k # NoKey /\ \E y \in Pay : Known(y) /\ pay[y].key = k

(* A create starts while there are ids left for it (bound: Pay).           *)
Room == Cardinality({y \in Pay : ~Known(y)}) >
        Cardinality({c \in Calls : call[c].pc \in {"limits", "usage", "decide", "insert"}})

Alone(c) == \A d \in Calls \ {c} : call[d].pc = "idle"

Lookup(c, k, w, amount) ==
  /\ call[c].pc = "idle"
  /\ IF PayKeyTaken(k)
     THEN /\ \E y \in Pay : Known(y) /\ pay[y].key = k /\ replies' = replies \cup {<<k, y>>}
          /\ UNCHANGED <<call, solo>>
     ELSE /\ Room
          /\ call' = [call EXCEPT ![c] = [CallIdle EXCEPT !.pc = "limits", !.key = k,
                                                         !.w = w, !.amount = amount]]
          /\ solo' = (solo /\ Alone(c))
          /\ UNCHANGED replies
  /\ UNCHANGED <<pay, txs, posts, limitVars>>

(* validateForCreation: the wallets are looked at, then checkLimits reads  *)
(* the row.                                                                *)
ReadLimits(c) ==
  /\ call[c].pc = "limits"
  /\ call' = [call EXCEPT ![c].pc = "usage", ![c].lim = limit[call[c].w]]
  /\ UNCHANGED <<pay, txs, posts, replies, solo, limitVars>>

(* getDailyUsageTotal reads the sender's transaction rows of the day, then *)
(* all payment rows of the day.                                            *)
ReadTransactions(c) ==
  /\ call[c].pc = "usage"
  /\ call' = [call EXCEPT ![c].pc = "decide",
                          ![c].used = Total({y \in Pay : txs[y] # "NONE" /\ pay[y].today
                                                           /\ pay[y].w = call[c].w})]
  /\ UNCHANGED <<pay, txs, posts, replies, solo, limitVars>>

PaidToday == Total({y \in Pay : Known(y) /\ pay[y].today})

Decide(c) ==
  /\ call[c].pc = "decide"
  /\ LET verdict == checkLimits(call[c].lim, call[c].used + PaidToday, call[c].amount) IN
       call' = [call EXCEPT ![c] = IF verdict = "allowed"
                                   THEN [@ EXCEPT !.pc = "insert"] ELSE CallIdle]
  /\ UNCHANGED <<pay, txs, posts, replies, solo, limitVars>>

(* Mutation: the row is inserted with a transaction status.                *)
InsertedSubmitted(c, y) ==
  pay' = [pay EXCEPT ![y] = [NoPay EXCEPT !.status = "SUBMITTED", !.key = call[c].key,
                                          !.w = call[c].w, !.amount = call[c].amount]]

Inserted(c, y) ==
  pay' = [pay EXCEPT ![y] = [NoPay EXCEPT !.status = "PENDING", !.key = call[c].key,
                                          !.w = call[c].w, !.amount = call[c].amount]]

Admitted(k, y) == [CallIdle EXCEPT !.pc = "tx", !.key = k.key, !.id = y]

(* Mutation: idempotencyKey is not unique.                                 *)
InsertUnchecked(c) ==
  /\ call[c].pc = "insert"
  /\ \E y \in Pay : /\ ~Known(y)
                    /\ Inserted(c, y)
                    /\ call' = [call EXCEPT ![c] = Admitted(@, y)]
  /\ UNCHANGED <<txs, posts, replies, solo, limitVars>>

(* The unique index on idempotencyKey makes the loser of a race throw.     *)
Insert(c) ==
  /\ call[c].pc = "insert"
  /\ IF PayKeyTaken(call[c].key)
     THEN /\ call' = [call EXCEPT ![c] = CallIdle]
          /\ UNCHANGED pay
     ELSE \E y \in Pay : /\ ~Known(y)
                         /\ Inserted(c, y)
                         /\ call' = [call EXCEPT ![c] = Admitted(@, y)]
  /\ UNCHANGED <<txs, posts, replies, solo, limitVars>>

(* Mutation: the payment is linked as soon as the transaction row exists.  *)
CreateTransactionLinking(c) ==
  /\ call[c].pc = "tx"
  /\ txs' = [txs EXCEPT ![call[c].id] = "PENDING"]
  /\ pay' = [pay EXCEPT ![call[c].id].linked = TRUE]
  /\ call' = [call EXCEPT ![c].pc = "submit"]
  /\ UNCHANGED <<posts, replies, solo, limitVars>>

(* TransactionsService.create, then the two wallets, the build and the     *)
(* signature.                                                              *)
CreateTransaction(c) ==
  /\ call[c].pc = "tx"
  /\ txs' = [txs EXCEPT ![call[c].id] = "PENDING"]
  /\ call' = [call EXCEPT ![c].pc = "submit"]
  /\ UNCHANGED <<pay, posts, replies, solo, limitVars>>

(* Mutation: a submission that threw is tried once more.                   *)
SubmitTwice(c) ==
  /\ call[c].pc = "submit"
  /\ \E s \in {"SUBMITTED", "CONFIRMED", "FAILED"}, n \in {1, 2} :
       /\ posts' = [posts EXCEPT ![call[c].id] = @ + n]
       /\ txs' = [txs EXCEPT ![call[c].id] = s]
       /\ call' = [call EXCEPT ![c].pc = "finish",
                               ![c].to = IF s = "FAILED" THEN "FAILED" ELSE "CONFIRMED"]
  /\ UNCHANGED <<pay, replies, solo, limitVars>>

(* submitTransaction sends the envelope; it throws without an answer, or   *)
(* records and returns a status, of which SUBMITTED counts as CONFIRMED.   *)
Submit(c) ==
  /\ call[c].pc = "submit"
  /\ posts' = [posts EXCEPT ![call[c].id] = @ + 1]
  /\ \/ call' = [call EXCEPT ![c] = CallIdle] /\ UNCHANGED txs
     \/ \E s \in {"SUBMITTED", "CONFIRMED", "FAILED"} :
          /\ txs' = [txs EXCEPT ![call[c].id] = s]
          /\ call' = [call EXCEPT ![c].pc = "finish",
                                  ![c].to = IF s = "FAILED" THEN "FAILED" ELSE "CONFIRMED"]
  /\ UNCHANGED <<pay, replies, solo, limitVars>>

(* A call ends where it stands: a check refuses it (inactive sender,       *)
(* unknown receiver, self payment), a statement or Horizon fails, or the   *)
(* process dies.  Nothing it has written is taken back.                    *)
Abort(c) ==
  /\ call[c].pc # "idle"
  /\ call' = [call EXCEPT ![c] = CallIdle]
  /\ UNCHANGED <<pay, txs, posts, replies, solo, limitVars>>

(* The payment row is updated whatever its status has become; then         *)
(* payment.created is emitted and the call returns.                        *)
Finish(c) ==
  /\ call[c].pc = "finish"
  /\ pay' = [pay EXCEPT ![call[c].id].linked = TRUE, ![call[c].id].status = call[c].to]
  /\ replies' = replies \cup {<<k, call[c].id>> : k \in {call[c].key} \ {NoKey}}
  /\ call' = [call EXCEPT ![c] = CallIdle]
  /\ UNCHANGED <<txs, posts, solo, limitVars>>

-----------------------------------------------------------------------------
(* update: read and validate, then write by id.                            *)

PAYMENT_TRANSITIONS ==
  [s \in PaymentStatus |-> IF s = "PENDING" THEN {"CONFIRMED", "FAILED"} ELSE {}]

UpdateRead(c, y, s) ==
  /\ call[c].pc = "idle" /\ Known(y)
  /\ s \in PAYMENT_TRANSITIONS[pay[y].status]
  /\ call' = [call EXCEPT ![c] = [CallIdle EXCEPT !.pc = "write", !.id = y, !.to = s]]
  /\ solo' = (solo /\ Alone(c))
  /\ UNCHANGED <<pay, txs, posts, replies, limitVars>>

UpdateWrite(c) ==
  /\ call[c].pc = "write"
  /\ pay' = [pay EXCEPT ![call[c].id].status = call[c].to]
  /\ call' = [call EXCEPT ![c] = CallIdle]
  /\ UNCHANGED <<txs, posts, replies, solo, limitVars>>

-----------------------------------------------------------------------------
(* The poller resolves a submitted transaction; it does not know payments. *)
Resolve(y) ==
  /\ txs[y] = "SUBMITTED"
  /\ \E s \in {"CONFIRMED", "FAILED"} : txs' = [txs EXCEPT ![y] = s]
  /\ UNCHANGED <<pay, posts, call, replies, solo, limitVars>>

(* startOfDay moves on: what was paid until now is no longer counted.      *)
Midnight ==
  /\ \E y \in Pay : Known(y) /\ pay[y].today
  /\ pay' = [y \in Pay |-> [pay[y] EXCEPT !.today = @ /\ ~Known(y)]]
  /\ UNCHANGED <<txs, posts, call, replies, solo, limitVars>>

Next ==
  \/ \E c \in Calls :
       \/ \E k \in Keys \cup {NoKey}, w \in Wallets, amount \in Amounts : Lookup(c, k, w, amount)
       \/ ReadLimits(c)
       \/ ReadTransactions(c)
       \/ Decide(c)
       \/ Insert(c)
       \/ CreateTransaction(c)
       \/ Submit(c)
       \/ Finish(c)
       \/ Abort(c)
       \/ \E y \in Pay, s \in PayTargets : UpdateRead(c, y, s)
       \/ UpdateWrite(c)
  \/ \E y \in Pay : Resolve(y)
  \/ Midnight
  \/ LimitsNext /\ UNCHANGED payVars

Spec == Init /\ [][Next]_vars

-----------------------------------------------------------------------------
(* Every variable stays in its type; in particular a payment row only ever *)
(* holds a PaymentStatus, never a status of its transaction.               *)
PaymentsTypeOK ==
  /\ LimitsTypeOK
  /\ pay \in [Pay -> PayRow]
  /\ txs \in [Pay -> TxStatus]
  /\ posts \in [Pay -> Nat]
  /\ call \in [Calls -> Call]
  /\ replies \subseteq Keys \X Pay
  /\ solo \in BOOLEAN

(* "Replaying the same key returns the original payment": however creates  *)
(* race, fail and are repeated, a key is answered with one payment only.   *)
ReplayReturnsOriginal ==
  \A k \in Keys, y, z \in Pay : <<k, y>> \in replies /\ <<k, z>> \in replies => y = z

(* A client that repeats a create with its key, after an error, a crash or *)
(* concurrently, never makes the service send a second envelope.           *)
PostedOncePerKey ==
  \A y, z \in Pay : /\ posts[y] <= 1
                    /\ pay[y].key = pay[z].key /\ pay[y].key # NoKey
                       /\ posts[y] > 0 /\ posts[z] > 0 => y = z

(* A payment is linked to its transaction only after the envelope was      *)
(* sent and an answer recorded on the transaction row.                     *)
LinkedWasAnswered ==
  \A y \in Pay : pay[y].linked => posts[y] = 1 /\ txs[y] \in {"SUBMITTED", "CONFIRMED", "FAILED"}

(* While calls do not overlap, a payment that is inserted keeps the        *)
(* day's payments of its wallet within the daily limit it was checked      *)
(* against, and its amount within the per-transaction limit, whatever      *)
(* happens to the limits, the day and earlier payments meanwhile.          *)
CapsHold ==
  [][\A c \in Calls :
       LET lim == call[c].lim
           own == {y \in Pay : pay'[y].status # "NONE" /\ pay'[y].today /\ pay'[y].w = call[c].w}
       IN  call[c].pc = "insert" /\ call'[c].pc = "tx" /\ lim.daily # Null =>
             /\ call[c].amount <= lim.perTx
             /\ solo /\ lim.daily > 0 =>
                  MapThenSumSet(LAMBDA y : pay'[y].amount, own) <= lim.daily]_vars

(* "Only PENDING payments can be transitioned; terminal states are         *)
(* immutable": a payment that is CONFIRMED or FAILED keeps that status.    *)
PaymentTerminalIsFinal ==
  [][\A y \in Pay : pay[y].status \in {"CONFIRMED", "FAILED"} =>
                      pay'[y].status = pay[y].status]_vars
=============================================================================
