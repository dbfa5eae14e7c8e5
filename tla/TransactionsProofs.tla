------------------------- MODULE TransactionsProofs -------------------------
(* Theorems about Transactions, for every value of its constants.          *)
EXTENDS Transactions, TLAPS

(* A handler that works on a row knows which one.                          *)
HasRow == \A p \in Handlers :
            h[p].pc \in {"post", "read", "write", "publish", "fill"} => h[p].tx \in Tx

Typed == TypeOK /\ HasRow

LEMMA IdleTyped == Idle \in Handler
BY TransactionsAssumption DEF Idle, Handler, AllOps, PC, Status, Hashes, NoHash

LEMMA ThrownTyped ==
  ASSUME NEW r \in Handler
  PROVE  /\ Thrown(r) \in Handler
         /\ Thrown(r).pc \in {"idle", "next"}
BY IdleTyped DEF Thrown, Handler, PC, Idle

LEMMA MapTyped ==
  ASSUME NEW result
  PROVE  mapHorizonResultToStatus(result) \in Status
BY DEF mapHorizonResultToStatus, Status

LEMMA AfterPostTyped ==
  ASSUME NEW r \in Handler, r.pc = "post", r.tx \in Tx, NEW reply
  PROVE  /\ AfterPost(r, reply) \in Handler
         /\ AfterPost(r, reply).pc # "idle" => AfterPost(r, reply).tx = r.tx
         /\ AfterPost(r, reply).pc \in {"idle", "post", "read"}
<1> DEFINE s == mapHorizonResultToStatus(ReplyBody(reply))
<1>1. s \in Status
  BY MapTyped
<1>2. CASE Retried(r, reply)
  <2>1. r.attempt + 1 \in 1..MaxAttempts
    BY <1>2, TransactionsAssumption DEF Retried, Handler
  <2> QED
    BY <1>2, <2>1 DEF AfterPost, Handler
<1>3. CASE ~Retried(r, reply) /\ reply \in {"none", "5xx"}
  BY <1>3, IdleTyped DEF AfterPost, Idle
<1>4. CASE ~Retried(r, reply) /\ reply \in {"throttled", "rejected"}
  BY <1>4 DEF AfterPost, Handler, PC, Status
<1>5. CASE ~Retried(r, reply) /\ reply \notin {"none", "5xx", "throttled", "rejected"}
  <2> DEFINE hash == IF reply = "unknown" THEN EmptyHash ELSE r.tx
             m == (r.op = "submit" /\ s = "CONFIRMED")
  <2>1. hash \in Hashes
    BY DEF Hashes
  <2>2. m \in BOOLEAN
    OBVIOUS
  <2>3. AfterPost(r, reply) = [r EXCEPT !.pc = "read", !.target = s, !.hash = hash, !.milestone = m]
    BY <1>5 DEF AfterPost
  <2> HIDE DEF s, hash, m
  <2> QED
    BY <1>1, <2>1, <2>2, <2>3 DEF Handler, PC
<1> QED
  BY <1>2, <1>3, <1>4, <1>5

LEMMA AfterQueryTyped ==
  ASSUME NEW r \in Handler, r.pc = "next", NEW t \in Tx
  PROVE  /\ AfterQuery(r, t) \in Handler
         /\ AfterQuery(r, t).pc \in {"next", "read"}
         /\ AfterQuery(r, t).pc = "read" =>
              /\ AfterQuery(r, t).tx = t
              /\ AfterQuery(r, t).target = mapHorizonResultToStatus(QueryBody(t))
<1> DEFINE s == mapHorizonResultToStatus(QueryBody(t))
           q == r.queue \ {t}
           new == [r EXCEPT !.queue = q, !.pc = "read", !.tx = t, !.target = s]
<1>1. s \in Status
  BY MapTyped
<1>2. q \in SUBSET Tx
  BY DEF Handler
<1>3. AfterQuery(r, t) = IF s = "SUBMITTED" THEN [r EXCEPT !.queue = q] ELSE new
  BY DEF AfterQuery
<1> HIDE DEF s, q
<1>4. CASE s = "SUBMITTED"
  BY <1>2, <1>3, <1>4 DEF Handler
<1>5. CASE s # "SUBMITTED"
  <2>1. new \in Handler /\ new.tx = t /\ new.pc = "read" /\ new.target = s
    BY <1>1, <1>2 DEF Handler, PC
  <2>2. AfterQuery(r, t) = new
    BY <1>3, <1>5
  <2> HIDE DEF new
  <2> QED BY <2>1, <2>2 DEF s
<1> QED BY <1>4, <1>5

(* One handler takes a step to a well-formed state, the others stay.       *)
LEMMA HandlerStep ==
  ASSUME Typed, NEW p \in Handlers, NEW r \in Handler,
         r.pc \in {"post", "read", "write", "publish", "fill"} => r.tx \in Tx,
         h' = [h EXCEPT ![p] = r]
  PROVE  h' \in [Handlers -> Handler] /\ HasRow'
BY DEF Typed, TypeOK, HasRow

LEMMA UpdatedTyped ==
  ASSUME NEW row \in Row, NEW s \in Status, NEW hash \in Hashes
  PROVE  /\ Updated(row, s, hash) \in Row
         /\ Updated(row, s, hash).status = s
         /\ Updated(row, s, hash).key = row.key
         /\ Updated(row, s, hash).submittedAt <=> (row.submittedAt \/ s = "SUBMITTED")
         /\ Updated(row, s, hash).confirmedAt <=> (row.confirmedAt \/ s = "CONFIRMED")
<1> DEFINE a == row.submittedAt \/ s = "SUBMITTED"
           b == row.confirmedAt \/ s = "CONFIRMED"
           c == row.failedAt \/ s = "FAILED"
           d == IF hash = NoHash THEN row.hash ELSE hash
<1>1. a \in BOOLEAN /\ b \in BOOLEAN /\ c \in BOOLEAN
  OBVIOUS
<1>2. d \in Hashes
  BY DEF Row
<1>3. Updated(row, s, hash) = [row EXCEPT !.status = s, !.submittedAt = a,
                                 !.confirmedAt = b, !.failedAt = c, !.hash = d]
  BY DEF Updated
<1>4. /\ Updated(row, s, hash) \in Row
      /\ Updated(row, s, hash).status = s
      /\ Updated(row, s, hash).key = row.key
      /\ Updated(row, s, hash).submittedAt = a
      /\ Updated(row, s, hash).confirmedAt = b
  <2> HIDE DEF a, b, c, d
  <2> QED BY <1>1, <1>2, <1>3 DEF Row
<1> QED
  BY <1>4

LEMMA CallTyped ==
  ASSUME NEW r \in Handler
  PROVE  CallStatus(r) \in Status /\ CallHash(r) \in Hashes
BY DEF CallStatus, CallHash, Handler, Status, Hashes

(* TypeOK is inductive once handlers are known to hold a row.              *)
LEMMA TypedStep == Typed /\ [Next]_vars => Typed'
<1> SUFFICES ASSUME Typed, [Next]_vars PROVE Typed'
  OBVIOUS
<1> USE DEF Typed
<1>h. ASSUME NEW p \in Handlers
      PROVE  h[p] \in Handler
  BY DEF TypeOK
<1>1. ASSUME NEW p \in Handlers, NEW k \in Keys \cup {NoKey}, CreateCheck(p, k)
      PROVE  Typed'
  <2> DEFINE r == [Idle EXCEPT !.op = "create", !.pc = "insert", !.key = k]
  <2>1. r \in Handler /\ r.pc = "insert"
    BY IdleTyped DEF Handler, AllOps, PC
  <2>2. h' = [h EXCEPT ![p] = r]
    BY <1>1 DEF CreateCheck
  <2> HIDE DEF r
  <2>3. h' \in [Handlers -> Handler] /\ HasRow'
    BY <2>1, <2>2, HandlerStep
  <2> QED
    BY <1>1, <2>3 DEF CreateCheck, TypeOK
<1>2. ASSUME NEW p \in Handlers, CreateInsert(p)
      PROVE  Typed'
  <2>1. h' \in [Handlers -> Handler] /\ HasRow'
    <3>1. h' = [h EXCEPT ![p] = Idle]
      BY <1>2 DEF CreateInsert
    <3> QED BY <3>1, IdleTyped, HandlerStep DEF Idle
  <2>2. h[p].key \in Keys \cup {NoKey}
    BY <1>h DEF Handler
  <2>3. ASSUME NEW t \in Fresh,
               rows' = [rows EXCEPT ![t] = [NoRow(h[p].key) EXCEPT !.status = "PENDING"]],
               events' = events \cup {<<t, "PENDING">>}
        PROVE  rows' \in [Tx -> Row] /\ events' \subseteq Tx \X Status
    <3>1. [NoRow(h[p].key) EXCEPT !.status = "PENDING"] \in Row
      BY <2>2 DEF NoRow, Row, Status, Hashes, NoHash
    <3> QED
      BY <2>2, <2>3, <3>1 DEF Fresh, TypeOK, Status
  <2>4. rows' \in [Tx -> Row] /\ events' \subseteq Tx \X Status
    BY <1>2, <2>3 DEF CreateInsert, TypeOK
  <2> QED
    BY <1>2, <2>1, <2>4 DEF CreateInsert, TypeOK
<1>3. ASSUME NEW p \in Handlers, UpdateRead(p)
      PROVE  Typed'
  <2> DEFINE r == IF Exists(h[p].tx) /\ canTransitionTransactionStatus(rows[h[p].tx].status, CallStatus(h[p]))
                  THEN [h[p] EXCEPT !.pc = "write"] ELSE Thrown(h[p])
  <2>1. h' = [h EXCEPT ![p] = r]
    BY <1>3 DEF UpdateRead
  <2>2. r \in Handler /\ (r.pc \in {"post", "read", "write", "publish", "fill"} => r.tx \in Tx)
    BY <1>3, <1>h, ThrownTyped DEF UpdateRead, HasRow, Handler, PC
  <2> HIDE DEF r
  <2> QED
    BY <1>3, <2>1, <2>2, HandlerStep DEF UpdateRead, TypeOK
<1>4. ASSUME NEW p \in Handlers, UpdateWrite(p)
      PROVE  Typed'
  <2>1. h[p].tx \in Tx /\ h[p] \in Handler /\ h[p].pc = "write"
    BY <1>4, <1>h DEF UpdateWrite, HasRow
  <2>2. CASE HashTaken(h[p].tx, CallHash(h[p]))
    <3>1. h' = [h EXCEPT ![p] = Thrown(h[p])] /\ rows' = rows
      BY <1>4, <2>2 DEF UpdateWrite
    <3> QED
      BY <1>4, <2>1, <3>1, ThrownTyped, HandlerStep DEF UpdateWrite, TypeOK
  <2>3. CASE ~HashTaken(h[p].tx, CallHash(h[p]))
    <3> DEFINE r == [h[p] EXCEPT !.pc = "publish"]
    <3>1. /\ h' = [h EXCEPT ![p] = r]
          /\ rows' = [rows EXCEPT ![h[p].tx] = Updated(rows[h[p].tx], CallStatus(h[p]), CallHash(h[p]))]
      BY <1>4, <2>3 DEF UpdateWrite
    <3>2. r \in Handler /\ r.tx \in Tx
      BY <2>1 DEF Handler, PC
    <3>3. rows' \in [Tx -> Row]
      BY <2>1, <3>1, CallTyped, UpdatedTyped DEF TypeOK
    <3> HIDE DEF r
    <3> QED
      BY <1>4, <3>1, <3>2, <3>3, HandlerStep DEF UpdateWrite, TypeOK
  <2> QED BY <2>2, <2>3
<1>5. ASSUME NEW p \in Handlers, Publish(p)
      PROVE  Typed'
  <2> DEFINE r == IF h[p].milestone THEN [h[p] EXCEPT !.pc = "read", !.milestone = FALSE]
                  ELSE IF h[p].op \in PollOps THEN [h[p] EXCEPT !.pc = "next"] ELSE Idle
  <2>1. h[p].tx \in Tx /\ h[p] \in Handler
    BY <1>5, <1>h DEF Publish, HasRow
  <2>2. h' = [h EXCEPT ![p] = r]
    BY <1>5 DEF Publish
  <2>3. r \in Handler /\ (r.pc \in {"post", "read", "write", "publish", "fill"} => r.tx \in Tx)
    <3>1. CASE h[p].milestone
      BY <2>1, <3>1 DEF Handler, PC
    <3>2. CASE ~h[p].milestone
      BY <2>1, <3>2, IdleTyped DEF Handler, PC, Idle
    <3> QED BY <3>1, <3>2
  <2>4. cache' \in [Tx -> Status \cup {"NONE"}] /\ events' \subseteq Tx \X Status
    BY <1>5, <2>1, CallTyped DEF Publish, TypeOK
  <2> HIDE DEF r
  <2> QED
    BY <1>5, <2>2, <2>3, <2>4, HandlerStep DEF Publish, TypeOK
<1>6. ASSUME NEW p \in Handlers, NEW t \in Tx, NEW s \in ManualTargets,
             NEW hash \in {NoHash, t}, PatchStatus(p, t, s, hash)
      PROVE  Typed'
  <2> DEFINE r == [Idle EXCEPT !.op = "patch", !.pc = "read", !.tx = t, !.target = s, !.hash = hash]
  <2>1. r \in Handler /\ r.tx \in Tx
    BY IdleTyped, TransactionsAssumption DEF Handler, AllOps, PC, Hashes
  <2>2. h' = [h EXCEPT ![p] = r]
    BY <1>6 DEF PatchStatus
  <2> HIDE DEF r
  <2> QED
    BY <1>6, <2>1, <2>2, HandlerStep DEF PatchStatus, TypeOK
<1>7. ASSUME NEW p \in Handlers, NEW t \in Tx, NEW op \in {"submit", "feeBump"}, StartSubmit(p, t, op)
      PROVE  Typed'
  <2> DEFINE r == [Idle EXCEPT !.op = op, !.pc = "post", !.tx = t]
  <2>1. r \in Handler /\ r.tx \in Tx
    BY IdleTyped DEF Handler, AllOps, PC
  <2>2. h' = [h EXCEPT ![p] = r]
    BY <1>7 DEF StartSubmit
  <2> HIDE DEF r
  <2> QED
    BY <1>7, <2>1, <2>2, HandlerStep DEF StartSubmit, TypeOK
<1>8. ASSUME NEW p \in Handlers, PostToHorizon(p)
      PROVE  Typed'
  <2>1. h[p].tx \in Tx /\ h[p] \in Handler /\ h[p].pc = "post"
    BY <1>8, <1>h DEF PostToHorizon, HasRow
  <2>2. PICK after \in LedgerState, reply \in Replies :
          /\ ledger' = [ledger EXCEPT ![h[p].tx] = after]
          /\ h' = [h EXCEPT ![p] = AfterPost(h[p], reply)]
    BY <1>8 DEF PostToHorizon
  <2>3. /\ AfterPost(h[p], reply) \in Handler
        /\ AfterPost(h[p], reply).pc # "idle" => AfterPost(h[p], reply).tx \in Tx
    BY <2>1, AfterPostTyped
  <2>4. h' \in [Handlers -> Handler] /\ HasRow'
    BY <2>2, <2>3, HandlerStep
  <2> QED
    BY <1>8, <2>2, <2>4 DEF PostToHorizon, TypeOK
<1>9. ASSUME NEW p \in Handlers, NEW op \in PollOps, PollStart(p, op)
      PROVE  Typed'
  <2>1. PICK S \in Batches :
          h' = [h EXCEPT ![p] = [Idle EXCEPT !.op = op, !.pc = "next", !.queue = Queried(S)]]
    BY <1>9 DEF PollStart
  <2> DEFINE r == [Idle EXCEPT !.op = op, !.pc = "next", !.queue = Queried(S)]
  <2>2. Queried(S) \subseteq Tx
    BY DEF Batches, Pollable, Queried
  <2>3. r \in Handler /\ r.pc = "next"
    BY <2>2, IdleTyped DEF Handler, AllOps, PC, PollOps
  <2>4. running' \in BOOLEAN
    BY <1>9 DEF PollStart
  <2> HIDE DEF r
  <2>5. h' \in [Handlers -> Handler] /\ HasRow'
    BY <2>1, <2>3, HandlerStep DEF r
  <2> QED
    BY <1>9, <2>4, <2>5 DEF PollStart, TypeOK
<1>10. ASSUME NEW p \in Handlers, NEW t \in Tx, PollQuery(p, t)
       PROVE  Typed'
  <2>1. h' = [h EXCEPT ![p] = AfterQuery(h[p], t)] /\ h[p].pc = "next"
    BY <1>10 DEF PollQuery
  <2>2. /\ AfterQuery(h[p], t) \in Handler
        /\ AfterQuery(h[p], t).pc # "next" => AfterQuery(h[p], t).tx = t
    BY <2>1, <1>h, AfterQueryTyped
  <2>3. h' \in [Handlers -> Handler] /\ HasRow'
    BY <2>1, <2>2, HandlerStep
  <2> QED
    BY <1>10, <2>3 DEF PollQuery, TypeOK
<1>11. ASSUME NEW p \in Handlers, NEW t \in Tx, PollSkip(p, t)
       PROVE  Typed'
  <2> DEFINE r == [h[p] EXCEPT !.queue = @ \ {t}]
  <2>1. h' = [h EXCEPT ![p] = r]
    BY <1>11 DEF PollSkip
  <2>2. r \in Handler /\ r.pc = "next"
    BY <1>11, <1>h DEF PollSkip, Handler
  <2> HIDE DEF r
  <2> QED
    BY <1>11, <2>1, <2>2, HandlerStep DEF PollSkip, TypeOK
<1>12. ASSUME NEW p \in Handlers, PollEnd(p)
       PROVE  Typed'
  <2>1. h' \in [Handlers -> Handler] /\ HasRow'
    BY <1>12, IdleTyped, HandlerStep DEF PollEnd, Idle
  <2>2. running' \in BOOLEAN
    BY <1>12 DEF PollEnd
  <2> QED
    BY <1>12, <2>1, <2>2 DEF PollEnd, TypeOK
<1>13. ASSUME NEW p \in Handlers, NEW t \in Tx, FindRead(p, t)
       PROVE  Typed'
  <2> DEFINE r == [Idle EXCEPT !.op = "find", !.pc = "fill", !.tx = t, !.seen = rows[t].status]
  <2>1. h' = [h EXCEPT ![p] = r]
    BY <1>13 DEF FindRead
  <2>2. rows[t].status \in Status
    BY <1>13 DEF FindRead, Exists, TypeOK, Row
  <2>3. r \in Handler /\ r.tx \in Tx
    BY <2>2, IdleTyped DEF Handler, AllOps, PC
  <2> HIDE DEF r
  <2> QED
    BY <1>13, <2>1, <2>3, HandlerStep DEF FindRead, TypeOK
<1>14. ASSUME NEW p \in Handlers, FindFill(p)
       PROVE  Typed'
  <2>1. h' \in [Handlers -> Handler] /\ HasRow'
    BY <1>14, IdleTyped, HandlerStep DEF FindFill, Idle
  <2>2. cache' \in [Tx -> Status \cup {"NONE"}]
    BY <1>14, <1>h DEF FindFill, TypeOK, Handler
  <2> QED
    BY <1>14, <2>1, <2>2 DEF FindFill, TypeOK
<1>15. ASSUME NEW p \in Handlers, DatabaseError(p)
       PROVE  Typed'
  <2>1. h' \in [Handlers -> Handler] /\ HasRow'
    BY <1>15, <1>h, ThrownTyped, HandlerStep DEF DatabaseError
  <2> QED
    BY <1>15, <2>1, TransactionsAssumption DEF DatabaseError, TypeOK
<1>16. ASSUME NEW t \in Tx, LedgerClose(t)
       PROVE  Typed'
  BY <1>16 DEF LedgerClose, TypeOK, LedgerState, HasRow
<1>17. ASSUME NEW t \in Tx, CacheExpire(t)
       PROVE  Typed'
  BY <1>17 DEF CacheExpire, TypeOK, HasRow
<1>18. ASSUME Restart
       PROVE  Typed'
  <2>1. h' \in [Handlers -> Handler]
    BY <1>18, IdleTyped DEF Restart
  <2>2. HasRow'
    BY <1>18 DEF Restart, HasRow, Idle
  <2>3. faults' \in 0..MaxFaults
    BY <1>18, TransactionsAssumption DEF Restart, TypeOK
  <2>4. cache' \in [Tx -> Status \cup {"NONE"}]
    BY <1>18 DEF Restart
  <2>5. ASSUME NEW p \in {q \in Handlers : Due(h[q])}
        PROVE  <<h[p].tx, CallStatus(h[p])>> \in Tx \X Status
    <3>1. h[p].tx \in Tx
      BY DEF HasRow, Due
    <3>2. CallStatus(h[p]) \in Status
      BY <1>h, CallTyped
    <3> QED BY <3>1, <3>2
  <2>6. unsent' \subseteq Tx \X Status
    <3> DEFINE due == {<<h[p].tx, CallStatus(h[p])>> :
                         p \in {q \in Handlers : Due(h[q])}}
    <3>1. due \subseteq Tx \X Status
      BY <2>5
    <3>2. unsent' = unsent \cup due
      BY <1>18 DEF Restart
    <3>3. unsent \subseteq Tx \X Status
      BY DEF TypeOK
    <3> HIDE DEF due
    <3> QED BY <3>1, <3>2, <3>3
  <2> QED
    BY <1>18, <2>1, <2>2, <2>3, <2>4, <2>6 DEF Restart, TypeOK
<1>19. CASE UNCHANGED vars
  BY <1>19 DEF vars, TypeOK, HasRow
<1> QED
  BY <1>1, <1>2, <1>3, <1>4, <1>5, <1>6, <1>7, <1>8, <1>9, <1>10, <1>11, <1>12,
     <1>13, <1>14, <1>15, <1>16, <1>17, <1>18, <1>19 DEF Next, Update, Poll

LEMMA TypedInit == Init => Typed
<1> SUFFICES ASSUME Init PROVE Typed
  OBVIOUS
<1>1. NoRow(NoKey) \in Row
  BY DEF NoRow, Row, Hashes
<1>2. HasRow
  BY DEF Init, HasRow, Idle
<1>3. faults \in 0..MaxFaults
  BY TransactionsAssumption DEF Init
<1>4. cache \in [Tx -> Status \cup {"NONE"}] /\ ledger \in [Tx -> LedgerState]
  BY DEF Init, LedgerState
<1> QED
  BY <1>1, <1>2, <1>3, <1>4, IdleTyped DEF Init, Typed, TypeOK

(* Every reachable state is well typed; in particular the retry loop of    *)
(* postToHorizon never exceeds MaxAttempts.                                *)
THEOREM TypeCorrect == Spec => []TypeOK
<1>2. Typed => TypeOK
  BY DEF Typed
<1> QED
  BY <1>2, TypedInit, TypedStep, PTL DEF Spec

-----------------------------------------------------------------------------
(* The steps that touch rows, ledger, events or a pending updateStatus     *)
(* call are few; every other step is quiet.                                *)
Calling == {"read", "write", "publish"}

Quiet == /\ UNCHANGED <<rows, ledger, events>>
         /\ \A q \in Handlers :
              h'[q] = h[q] \/ h'[q].pc \notin Calling

LEMMA StepCases ==
  ASSUME Typed, [Next]_vars
  PROVE  \/ Quiet
         \/ \E p \in Handlers :
              \/ CreateInsert(p) \/ UpdateRead(p) \/ UpdateWrite(p) \/ Publish(p)
              \/ PostToHorizon(p)
              \/ \E t \in Tx : PollQuery(p, t) \/ \E s \in ManualTargets, hash \in {NoHash, t} : PatchStatus(p, t, s, hash)
         \/ \E t \in Tx : LedgerClose(t)
<1> USE DEF Calling
<1>h. h \in [Handlers -> Handler]
  BY DEF Typed, TypeOK
<1>1. ASSUME NEW p \in Handlers, NEW r, UNCHANGED <<rows, ledger, events>>,
             h' = [h EXCEPT ![p] = r], r.pc \notin Calling
      PROVE  Quiet
  BY <1>1, <1>h DEF Quiet
<1>2. ASSUME UNCHANGED <<rows, ledger, events, h>>
      PROVE  Quiet
  BY <1>2 DEF Quiet
<1>3. Idle.pc \notin Calling
  BY DEF Idle
<1>4. ASSUME NEW p \in Handlers, NEW k \in Keys \cup {NoKey}, CreateCheck(p, k)
      PROVE  Quiet
  <2> DEFINE r == [Idle EXCEPT !.op = "create", !.pc = "insert", !.key = k]
  <2>1. r.pc = "insert"
    BY DEF Idle
  <2>2. UNCHANGED <<rows, ledger, events>> /\ (h' = h \/ h' = [h EXCEPT ![p] = r])
    BY <1>4 DEF CreateCheck
  <2> HIDE DEF r
  <2> QED BY <1>1, <1>2, <2>1, <2>2
<1>5. ASSUME NEW p \in Handlers, NEW t \in Tx, NEW op \in {"submit", "feeBump"}, StartSubmit(p, t, op)
      PROVE  Quiet
  <2> DEFINE r == [Idle EXCEPT !.op = op, !.pc = "post", !.tx = t]
  <2>1. r.pc = "post"
    BY DEF Idle
  <2>2. UNCHANGED <<rows, ledger, events>> /\ h' = [h EXCEPT ![p] = r]
    BY <1>5 DEF StartSubmit
  <2> HIDE DEF r
  <2> QED BY <1>1, <2>1, <2>2
<1>6. ASSUME NEW p \in Handlers, NEW t \in Tx, FindRead(p, t)
      PROVE  Quiet
  <2> DEFINE r == [Idle EXCEPT !.op = "find", !.pc = "fill", !.tx = t, !.seen = rows[t].status]
  <2>1. r.pc = "fill"
    BY DEF Idle
  <2>2. UNCHANGED <<rows, ledger, events>> /\ h' = [h EXCEPT ![p] = r]
    BY <1>6 DEF FindRead
  <2> HIDE DEF r
  <2> QED BY <1>1, <2>1, <2>2
<1>7. ASSUME NEW p \in Handlers, NEW op \in PollOps, PollStart(p, op)
      PROVE  Quiet
  <2>1. PICK S \in Batches :
          h' = [h EXCEPT ![p] = [Idle EXCEPT !.op = op, !.pc = "next", !.queue = Queried(S)]]
    BY <1>7 DEF PollStart
  <2> DEFINE r == [Idle EXCEPT !.op = op, !.pc = "next", !.queue = Queried(S)]
  <2>2. r.pc = "next"
    BY DEF Idle
  <2>3. UNCHANGED <<rows, ledger, events>> /\ h' = [h EXCEPT ![p] = r]
    BY <1>7, <2>1 DEF PollStart
  <2> HIDE DEF r
  <2> QED BY <1>1, <2>2, <2>3
<1>8. ASSUME NEW p \in Handlers, NEW t \in Tx, PollSkip(p, t)
      PROVE  Quiet
  <2> DEFINE r == [h[p] EXCEPT !.queue = @ \ {t}]
  <2>1. r.pc = h[p].pc
    BY <1>h DEF Handler
  <2>2. UNCHANGED <<rows, ledger, events>> /\ h' = [h EXCEPT ![p] = r] /\ h[p].pc = "next"
    BY <1>8 DEF PollSkip
  <2> HIDE DEF r
  <2> QED BY <1>1, <2>1, <2>2
<1>9. ASSUME NEW p \in Handlers, PollEnd(p) \/ FindFill(p)
      PROVE  Quiet
  <2>1. UNCHANGED <<rows, ledger, events>> /\ h' = [h EXCEPT ![p] = Idle]
    BY <1>9 DEF PollEnd, FindFill
  <2> QED BY <1>1, <1>3, <2>1
<1>10. ASSUME NEW p \in Handlers, DatabaseError(p)
       PROVE  Quiet
  <2>1. UNCHANGED <<rows, ledger, events>> /\ h' = [h EXCEPT ![p] = Thrown(h[p])]
    BY <1>10 DEF DatabaseError
  <2>2. Thrown(h[p]).pc \notin Calling
    BY <1>h, ThrownTyped
  <2> QED BY <1>1, <2>1, <2>2
<1>11. ASSUME NEW t \in Tx, CacheExpire(t)
       PROVE  Quiet
  BY <1>2, <1>11 DEF CacheExpire
<1>12. ASSUME Restart
       PROVE  Quiet
  BY <1>3, <1>12 DEF Restart, Quiet
<1>13. ASSUME UNCHANGED vars
       PROVE  Quiet
  BY <1>2, <1>13 DEF vars
<1> QED
  BY <1>4, <1>5, <1>6, <1>7, <1>8, <1>9, <1>10, <1>11, <1>12, <1>13 DEF Next, Update, Poll

-----------------------------------------------------------------------------
(* The strengthening of ConfirmedWasSubmitted: a SUBMITTED row carries its *)
(* timestamp, and an updateStatus call that passed the check for CONFIRMED *)
(* read such a row, whatever the other calls have done to it since.        *)
SubmittedFirst ==
  /\ \A t \in Tx : rows[t].status = "NONE" => ~rows[t].submittedAt
  /\ \A t \in Tx : rows[t].status = "SUBMITTED" => rows[t].submittedAt
  /\ \A p \in Handlers : h[p].pc = "write" /\ CallStatus(h[p]) = "CONFIRMED"
                            => rows[h[p].tx].submittedAt
  /\ ConfirmedWasSubmitted

LEMMA SubmittedFirstStep == Typed /\ SubmittedFirst /\ [Next]_vars => SubmittedFirst'
<1> SUFFICES ASSUME Typed, SubmittedFirst, [Next]_vars PROVE SubmittedFirst'
  OBVIOUS
<1> USE DEF Calling
<1>t. h \in [Handlers -> Handler] /\ rows \in [Tx -> Row] /\ HasRow
  BY DEF Typed, TypeOK
<1>r. ASSUME UNCHANGED rows, NEW p \in Handlers, NEW r \in Handler, h' = [h EXCEPT ![p] = r],
             r.pc = "write" /\ CallStatus(r) = "CONFIRMED" => rows[r.tx].submittedAt
      PROVE  SubmittedFirst'
  BY <1>r, <1>t DEF SubmittedFirst, ConfirmedWasSubmitted
<1>1. CASE Quiet
  BY <1>1 DEF Quiet, SubmittedFirst, ConfirmedWasSubmitted
<1>2. ASSUME NEW p \in Handlers, CreateInsert(p)
      PROVE  SubmittedFirst'
  <2>1. h' = [h EXCEPT ![p] = Idle] /\ Idle.pc = "idle"
    BY <1>2 DEF CreateInsert, Idle
  <2>2. CASE rows' = rows
    BY <2>1, <2>2, <1>t, <1>r, IdleTyped
  <2>3. CASE rows' # rows
    <3>1. PICK t \in Fresh : rows' = [rows EXCEPT ![t] = [NoRow(h[p].key) EXCEPT !.status = "PENDING"]]
      BY <1>2, <2>3 DEF CreateInsert
    <3>2. t \in Tx /\ ~rows[t].submittedAt
      BY DEF Fresh, Exists, SubmittedFirst
    <3>3. /\ rows'[t].status = "PENDING" /\ rows'[t].confirmedAt = FALSE
          /\ \A u \in Tx \ {t} : rows'[u] = rows[u]
      BY <3>1, <3>2, <1>t DEF NoRow
    <3>4. \A q \in Handlers : h'[q].pc = "write" => h'[q] = h[q] /\ h[q].tx \in Tx
      BY <2>1, <1>t DEF HasRow
    <3> QED
      BY <3>2, <3>3, <3>4 DEF SubmittedFirst, ConfirmedWasSubmitted
  <2> QED BY <2>2, <2>3
<1>3. ASSUME NEW p \in Handlers, UpdateRead(p)
      PROVE  SubmittedFirst'
  <2> DEFINE ok == Exists(h[p].tx) /\ canTransitionTransactionStatus(rows[h[p].tx].status, CallStatus(h[p]))
             w == [h[p] EXCEPT !.pc = "write"]
  <2>1. h[p].tx \in Tx /\ h[p] \in Handler
    BY <1>3, <1>t DEF UpdateRead, HasRow
  <2>2. CASE ok
    <3>1. w \in Handler /\ w.tx = h[p].tx /\ CallStatus(w) = CallStatus(h[p])
      BY <2>1 DEF Handler, PC, CallStatus
    <3>2. CallStatus(h[p]) = "CONFIRMED" => rows[h[p].tx].status = "SUBMITTED"
      BY <2>1, <2>2, <1>t DEF canTransitionTransactionStatus, ALLOWED_TRANSITIONS, Status, Exists, Row
    <3>3. h' = [h EXCEPT ![p] = w] /\ rows' = rows
      BY <1>3, <2>2 DEF UpdateRead
    <3> HIDE DEF w
    <3> QED
      BY <2>1, <3>1, <3>2, <3>3, <1>r DEF SubmittedFirst
  <2>3. CASE ~ok
    <3>1. h' = [h EXCEPT ![p] = Thrown(h[p])] /\ rows' = rows
      BY <1>3, <2>3 DEF UpdateRead
    <3> QED
      BY <2>1, <3>1, <1>r, ThrownTyped
  <2> QED BY <2>2, <2>3
<1>4. ASSUME NEW p \in Handlers, UpdateWrite(p)
      PROVE  SubmittedFirst'
  <2>1. h[p].tx \in Tx /\ h[p] \in Handler /\ h[p].pc = "write"
    BY <1>4, <1>t DEF UpdateWrite, HasRow
  <2>2. CASE HashTaken(h[p].tx, CallHash(h[p]))
    <3>1. h' = [h EXCEPT ![p] = Thrown(h[p])] /\ rows' = rows
      BY <1>4, <2>2 DEF UpdateWrite
    <3> QED
      BY <2>1, <3>1, <1>r, ThrownTyped
  <2>3. CASE ~HashTaken(h[p].tx, CallHash(h[p]))
    <3> DEFINE u == h[p].tx
               s == CallStatus(h[p])
               new == Updated(rows[u], s, CallHash(h[p]))
    <3>1. rows' = [rows EXCEPT ![u] = new] /\ h' = [h EXCEPT ![p].pc = "publish"]
      BY <1>4, <2>3 DEF UpdateWrite
    <3>2. /\ new.status = s /\ s \in Status
          /\ new.submittedAt <=> (rows[u].submittedAt \/ s = "SUBMITTED")
          /\ new.confirmedAt <=> (rows[u].confirmedAt \/ s = "CONFIRMED")
      BY <2>1, <1>t, CallTyped, UpdatedTyped
    <3>3. s = "CONFIRMED" => rows[u].submittedAt
      BY <2>1 DEF SubmittedFirst
    <3>4. \A q \in Handlers : h'[q].pc = "write" => h'[q] = h[q] /\ h[q].tx \in Tx
      <4>1. [h[p] EXCEPT !.pc = "publish"].pc = "publish"
        BY <2>1 DEF Handler
      <4> QED BY <3>1, <4>1, <1>t DEF HasRow
    <3>5. \A t \in Tx : rows'[t] = IF t = u THEN new ELSE rows[t]
      BY <3>1, <2>1, <1>t
    <3> HIDE DEF new, s, u
    <3>6. u \in Tx
      BY <2>1 DEF u
    <3> QED
      BY <3>2, <3>3, <3>4, <3>5, <3>6 DEF SubmittedFirst, ConfirmedWasSubmitted, Status
  <2> QED BY <2>2, <2>3
<1>5. ASSUME NEW p \in Handlers, Publish(p) \/ PostToHorizon(p)
                \/ \E t \in Tx : PollQuery(p, t) \/ \E s \in ManualTargets, hash \in {NoHash, t} : PatchStatus(p, t, s, hash)
      PROVE  SubmittedFirst'
  <2>1. UNCHANGED rows
    BY <1>5 DEF Publish, PostToHorizon, PollQuery, PatchStatus
  <2>2. \A q \in Handlers : h'[q] = h[q] \/ h'[q].pc # "write"
    <3>1. CASE Publish(p)
      <4> DEFINE r == IF h[p].milestone THEN [h[p] EXCEPT !.pc = "read", !.milestone = FALSE]
                      ELSE IF h[p].op \in PollOps THEN [h[p] EXCEPT !.pc = "next"] ELSE Idle
      <4>1. h' = [h EXCEPT ![p] = r]
        BY <3>1 DEF Publish
      <4>2. r.pc # "write"
        BY <1>t DEF Idle, Handler
      <4> HIDE DEF r
      <4> QED BY <4>1, <4>2, <1>t
    <3>2. CASE PostToHorizon(p)
      <4>1. PICK reply \in Replies : h' = [h EXCEPT ![p] = AfterPost(h[p], reply)]
        BY <3>2 DEF PostToHorizon
      <4>2. AfterPost(h[p], reply).pc # "write"
        BY <3>2, <1>t, AfterPostTyped DEF PostToHorizon, HasRow
      <4> QED BY <4>1, <4>2, <1>t
    <3>3. ASSUME NEW t \in Tx, PollQuery(p, t)
          PROVE  \A q \in Handlers : h'[q] = h[q] \/ h'[q].pc # "write"
      <4>1. h' = [h EXCEPT ![p] = AfterQuery(h[p], t)] /\ h[p].pc = "next"
        BY <3>3 DEF PollQuery
      <4>2. AfterQuery(h[p], t).pc # "write"
        BY <4>1, <1>t DEF AfterQuery, Handler
      <4> QED BY <4>1, <4>2, <1>t
    <3>4. ASSUME NEW t \in Tx, NEW s \in ManualTargets,
             NEW hash \in {NoHash, t}, PatchStatus(p, t, s, hash)
          PROVE  \A q \in Handlers : h'[q] = h[q] \/ h'[q].pc # "write"
      <4> DEFINE r == [Idle EXCEPT !.op = "patch", !.pc = "read", !.tx = t, !.target = s, !.hash = hash]
      <4>1. r.pc = "read"
        BY DEF Idle
      <4>2. h' = [h EXCEPT ![p] = r]
        BY <3>4 DEF PatchStatus
      <4> HIDE DEF r
      <4> QED BY <4>1, <4>2, <1>t
    <3> QED BY <1>5, <3>1, <3>2, <3>3, <3>4
  <2> QED
    BY <2>1, <2>2 DEF SubmittedFirst, ConfirmedWasSubmitted
<1>6. ASSUME NEW t \in Tx, LedgerClose(t)
      PROVE  SubmittedFirst'
  BY <1>6 DEF LedgerClose, SubmittedFirst, ConfirmedWasSubmitted
<1> QED
  BY StepCases, <1>1, <1>2, <1>3, <1>4, <1>5, <1>6

(* A transaction ever marked CONFIRMED was SUBMITTED before, for any       *)
(* number of handlers, transactions, retries and faults.                   *)
THEOREM ConfirmedAfterSubmitted == Spec => []ConfirmedWasSubmitted
<1>1. Init => Typed /\ SubmittedFirst
  <2> SUFFICES ASSUME Init PROVE SubmittedFirst
    BY TypedInit
  <2> QED
    BY DEF Init, SubmittedFirst, ConfirmedWasSubmitted, NoRow, Idle
<1>2. SubmittedFirst => ConfirmedWasSubmitted
  BY DEF SubmittedFirst
<1> QED
  BY <1>1, <1>2, TypedStep, SubmittedFirstStep, PTL DEF Spec

-----------------------------------------------------------------------------
(* The strengthening of ConfirmedIsApplied: an updateStatus call that will *)
(* write CONFIRMED and was not asked for by an operator follows an answer  *)
(* Horizon gives only for an applied envelope, and applied is for ever.    *)
AppliedFirst ==
  /\ \A p \in Handlers : h[p].pc \in Calling /\ h[p].target = "CONFIRMED"
                            => ledger[h[p].tx] = "applied"
  /\ \A t \in Tx : rows[t].confirmedAt => ledger[t] = "applied"
  /\ \A t \in Tx : <<t, "CONFIRMED">> \in events => ledger[t] = "applied"

LEMMA ConsistentApplied ==
  ASSUME NEW op, NEW before, NEW after, NEW reply \in Replies,
         Consistent(op, before, after, reply)
  PROVE  /\ reply = "applied" => after = "applied"
         /\ before = "applied" => after = "applied"
BY DEF Consistent, Replies

LEMMA ConfirmedReply ==
  ASSUME NEW r \in Handler, r.pc = "post", NEW reply \in Replies,
         AfterPost(r, reply).pc \in Calling, AfterPost(r, reply).target = "CONFIRMED"
  PROVE  reply = "applied"
<1> SUFFICES ASSUME reply # "applied" PROVE FALSE
  OBVIOUS
<1>1. mapHorizonResultToStatus(ReplyBody(reply)) # "CONFIRMED"
  BY DEF mapHorizonResultToStatus, ReplyBody, QueuedBody, UnknownBody
<1>2. AfterPost(r, reply).pc # "post" /\ AfterPost(r, reply).pc # "idle"
  BY DEF Calling
<1>3. ~Retried(r, reply) /\ reply \notin {"none", "5xx"}
  BY <1>2 DEF AfterPost, Handler, Idle
<1>4. CASE reply \in {"throttled", "rejected"}
  BY <1>3, <1>4 DEF AfterPost, Handler
<1>5. CASE reply \notin {"throttled", "rejected"}
  <2> DEFINE s == mapHorizonResultToStatus(ReplyBody(reply))
             hash == IF reply = "unknown" THEN EmptyHash ELSE r.tx
             m == (r.op = "submit" /\ s = "CONFIRMED")
  <2>1. AfterPost(r, reply) = [r EXCEPT !.pc = "read", !.target = s, !.hash = hash, !.milestone = m]
    BY <1>3, <1>5 DEF AfterPost
  <2> HIDE DEF s, hash, m
  <2>2. AfterPost(r, reply).target = s
    BY <2>1 DEF Handler
  <2> QED BY <1>1, <2>2 DEF s
<1> QED BY <1>4, <1>5

LEMMA AppliedFirstStep ==
  ASSUME "CONFIRMED" \notin ManualTargets
  PROVE  Typed /\ AppliedFirst /\ [Next]_vars => AppliedFirst'
<1> SUFFICES ASSUME Typed, AppliedFirst, [Next]_vars PROVE AppliedFirst'
  OBVIOUS
<1>t. /\ h \in [Handlers -> Handler] /\ rows \in [Tx -> Row] /\ HasRow
      /\ ledger \in [Tx -> LedgerState]
  BY DEF Typed, TypeOK
<1>r. ASSUME UNCHANGED <<rows, ledger, events>>, NEW p \in Handlers, NEW r \in Handler,
             h' = [h EXCEPT ![p] = r],
             r.pc \in Calling /\ r.target = "CONFIRMED" => ledger[r.tx] = "applied"
      PROVE  AppliedFirst'
  BY <1>r, <1>t DEF AppliedFirst
<1>1. CASE Quiet
  BY <1>1 DEF Quiet, AppliedFirst
<1>2. ASSUME NEW p \in Handlers, CreateInsert(p)
      PROVE  AppliedFirst'
  <2>1. h' = [h EXCEPT ![p] = Idle] /\ Idle.pc = "idle" /\ ledger' = ledger
    BY <1>2 DEF CreateInsert, Idle
  <2>2. \A q \in Handlers : h'[q].pc \in Calling => h'[q] = h[q]
    BY <2>1, <1>t DEF Calling
  <2>3. \A t \in Tx : rows'[t].confirmedAt => rows[t].confirmedAt
    BY <1>2, <1>t DEF CreateInsert, Fresh, NoRow
  <2>4. \A t \in Tx : <<t, "CONFIRMED">> \in events' => <<t, "CONFIRMED">> \in events
    BY <1>2 DEF CreateInsert
  <2> QED BY <2>1, <2>2, <2>3, <2>4 DEF AppliedFirst
<1>3. ASSUME NEW p \in Handlers, UpdateRead(p)
      PROVE  AppliedFirst'
  <2> DEFINE w == [h[p] EXCEPT !.pc = "write"]
  <2>1. h[p] \in Handler /\ h[p].pc = "read" /\ UNCHANGED <<rows, ledger, events>>
    BY <1>3, <1>t DEF UpdateRead
  <2>2. h' = [h EXCEPT ![p] = w] \/ h' = [h EXCEPT ![p] = Thrown(h[p])]
    BY <1>3 DEF UpdateRead
  <2>3. w \in Handler /\ w.tx = h[p].tx /\ w.target = h[p].target
    BY <2>1 DEF Handler, PC
  <2>4. CASE h' = [h EXCEPT ![p] = w]
    <3> HIDE DEF w
    <3> QED BY <2>1, <2>3, <2>4, <1>r DEF AppliedFirst, Calling
  <2>5. CASE h' = [h EXCEPT ![p] = Thrown(h[p])]
    BY <2>1, <2>5, <1>r, ThrownTyped DEF Calling
  <2> QED BY <2>2, <2>4, <2>5
<1>4. ASSUME NEW p \in Handlers, UpdateWrite(p)
      PROVE  AppliedFirst'
  <2>1. /\ h[p].tx \in Tx /\ h[p] \in Handler /\ h[p].pc = "write"
        /\ UNCHANGED <<ledger, events>>
    BY <1>4, <1>t DEF UpdateWrite, HasRow
  <2>2. CASE HashTaken(h[p].tx, CallHash(h[p]))
    <3>1. h' = [h EXCEPT ![p] = Thrown(h[p])] /\ rows' = rows
      BY <1>4, <2>2 DEF UpdateWrite
    <3> QED
      BY <2>1, <3>1, <1>r, ThrownTyped DEF Calling
  <2>3. CASE ~HashTaken(h[p].tx, CallHash(h[p]))
    <3> DEFINE w == [h[p] EXCEPT !.pc = "publish"]
               u == h[p].tx
               new == Updated(rows[u], CallStatus(h[p]), CallHash(h[p]))
    <3>1. rows' = [rows EXCEPT ![u] = new] /\ h' = [h EXCEPT ![p] = w]
      BY <1>4, <2>3 DEF UpdateWrite
    <3>2. new.confirmedAt <=> (rows[u].confirmedAt \/ CallStatus(h[p]) = "CONFIRMED")
      BY <2>1, <1>t, CallTyped, UpdatedTyped
    <3>3. CallStatus(h[p]) = "CONFIRMED" => ledger[u] = "applied"
      BY <2>1 DEF CallStatus, AppliedFirst, Calling
    <3>4. w.tx = u /\ w.target = h[p].target
      BY <2>1 DEF Handler
    <3>5. \A t \in Tx : rows'[t] = IF t = u THEN new ELSE rows[t]
      BY <3>1, <2>1, <1>t
    <3>6. \A q \in Handlers : h'[q] = IF q = p THEN w ELSE h[q]
      BY <3>1, <1>t
    <3>7. u = h[p].tx
      OBVIOUS
    <3> HIDE DEF w, new, u
    <3> QED
      BY <2>1, <3>2, <3>3, <3>4, <3>5, <3>6, <3>7 DEF AppliedFirst, Calling
  <2> QED BY <2>2, <2>3
<1>5. ASSUME NEW p \in Handlers, Publish(p)
      PROVE  AppliedFirst'
  <2> DEFINE r == IF h[p].milestone THEN [h[p] EXCEPT !.pc = "read", !.milestone = FALSE]
                  ELSE IF h[p].op \in PollOps THEN [h[p] EXCEPT !.pc = "next"] ELSE Idle
  <2>1. /\ h[p] \in Handler /\ h[p].pc = "publish" /\ UNCHANGED <<rows, ledger>>
        /\ h' = [h EXCEPT ![p] = r] /\ events' = events \cup {<<h[p].tx, CallStatus(h[p])>>}
    BY <1>5, <1>t DEF Publish
  <2>2. r.pc \in Calling => r.tx = h[p].tx /\ r.target = h[p].target
    BY <2>1 DEF Handler, Idle, Calling
  <2>3. CallStatus(h[p]) = "CONFIRMED" => ledger[h[p].tx] = "applied"
    BY <2>1 DEF CallStatus, AppliedFirst, Calling
  <2>4. \A q \in Handlers : h'[q] = IF q = p THEN r ELSE h[q]
    BY <2>1, <1>t
  <2> HIDE DEF r
  <2> QED
    BY <2>1, <2>2, <2>3, <2>4 DEF AppliedFirst, Calling
<1>6. ASSUME NEW p \in Handlers, PostToHorizon(p)
      PROVE  AppliedFirst'
  <2>1. h[p].tx \in Tx /\ h[p] \in Handler /\ h[p].pc = "post" /\ UNCHANGED <<rows, events>>
    BY <1>6, <1>t DEF PostToHorizon, HasRow
  <2>2. PICK after \in LedgerState, reply \in Replies :
          /\ Consistent(h[p].op, ledger[h[p].tx], after, reply)
          /\ ledger' = [ledger EXCEPT ![h[p].tx] = after]
          /\ h' = [h EXCEPT ![p] = AfterPost(h[p], reply)]
    BY <1>6 DEF PostToHorizon
  <2>3. \A t \in Tx : ledger[t] = "applied" => ledger'[t] = "applied"
    BY <2>1, <2>2, <1>t, ConsistentApplied
  <2>4. AfterPost(h[p], reply).pc \in Calling => AfterPost(h[p], reply).tx = h[p].tx
    BY <2>1, AfterPostTyped DEF Calling
  <2>5. AfterPost(h[p], reply).pc \in Calling /\ AfterPost(h[p], reply).target = "CONFIRMED"
          => ledger'[h[p].tx] = "applied"
    BY <2>1, <2>2, <1>t, ConfirmedReply, ConsistentApplied
  <2>6. \A q \in Handlers : h'[q] = IF q = p THEN AfterPost(h[p], reply) ELSE h[q]
    BY <2>2, <1>t
  <2>7. \A q \in Handlers : h[q].pc \in Calling => h[q].tx \in Tx
    BY <1>t DEF HasRow, Calling
  <2> QED
    BY <2>1, <2>3, <2>4, <2>5, <2>6, <2>7 DEF AppliedFirst
<1>7. ASSUME NEW p \in Handlers, NEW t \in Tx, PollQuery(p, t)
      PROVE  AppliedFirst'
  <2> DEFINE r == AfterQuery(h[p], t)
  <2>1. /\ h[p] \in Handler /\ h[p].pc = "next" /\ UNCHANGED <<rows, ledger, events>>
        /\ h' = [h EXCEPT ![p] = r]
    BY <1>7, <1>t DEF PollQuery
  <2>2. r \in Handler
    BY <2>1, AfterQueryTyped
  <2>3. r.pc \in Calling => r.tx = t /\ r.target = mapHorizonResultToStatus(QueryBody(t))
    BY <2>1, AfterQueryTyped DEF Calling
  <2>4. mapHorizonResultToStatus(QueryBody(t)) = "CONFIRMED" => ledger[t] = "applied"
    BY DEF mapHorizonResultToStatus, QueryBody, FailedBody, NotFoundBody
  <2> HIDE DEF r
  <2> QED
    BY <2>1, <2>2, <2>3, <2>4, <1>r
<1>8. ASSUME NEW p \in Handlers, NEW t \in Tx, NEW s \in ManualTargets,
             NEW hash \in {NoHash, t}, PatchStatus(p, t, s, hash)
      PROVE  AppliedFirst'
  <2> DEFINE r == [Idle EXCEPT !.op = "patch", !.pc = "read", !.tx = t, !.target = s, !.hash = hash]
  <2>1. r \in Handler /\ r.target = s
    BY IdleTyped, TransactionsAssumption DEF Handler, AllOps, PC, Hashes
  <2>2. h' = [h EXCEPT ![p] = r] /\ UNCHANGED <<rows, ledger, events>>
    BY <1>8 DEF PatchStatus
  <2> HIDE DEF r
  <2> QED
    BY <2>1, <2>2, <1>r
<1>9. ASSUME NEW t \in Tx, LedgerClose(t)
      PROVE  AppliedFirst'
  <2>1. UNCHANGED <<rows, events, h>> /\ \A u \in Tx : ledger[u] = "applied" => ledger'[u] = "applied"
    BY <1>9, <1>t DEF LedgerClose
  <2>2. \A q \in Handlers : h[q].pc \in Calling => h[q].tx \in Tx
    BY <1>t DEF HasRow, Calling
  <2> QED BY <2>1, <2>2 DEF AppliedFirst
<1> QED
  BY StepCases, <1>1, <1>2, <1>3, <1>4, <1>5, <1>6, <1>7, <1>8, <1>9

(* No interleaving of submissions, fee bumps, polls, lost answers and      *)
(* restarts confirms a payment the ledger did not apply.                   *)
THEOREM ConfirmedOnlyIfApplied == Spec => []ConfirmedIsApplied
<1>1. CASE "CONFIRMED" \in ManualTargets
  <2>1. ConfirmedIsApplied
    BY <1>1 DEF ConfirmedIsApplied
  <2> QED BY <2>1, PTL
<1>2. CASE "CONFIRMED" \notin ManualTargets
  <2>1. Init => AppliedFirst
    BY DEF Init, AppliedFirst, NoRow, Idle, Calling
  <2>2. AppliedFirst => ConfirmedIsApplied
    BY DEF AppliedFirst, ConfirmedIsApplied
  <2>3. Typed /\ AppliedFirst /\ [Next]_vars => AppliedFirst'
    BY <1>2, AppliedFirstStep
  <2> QED
    BY <2>1, <2>2, <2>3, TypedInit, TypedStep, PTL DEF Spec
<1> QED BY <1>1, <1>2

=============================================================================
