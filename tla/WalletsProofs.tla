---------------------------- MODULE WalletsProofs ----------------------------
(***************************************************************************)
(* SuccessorsPointBack for any number of wallets, owners and requests.     *)
(* It is not inductive alone: the successor's row is built from the row    *)
(* read before the transaction, so RotationsAreFresh is carried along.     *)
(***************************************************************************)
EXTENDS Wallets, TLAPS

IInv == RowsTypeOK /\ SuccessorsPointBack /\ RotationsAreFresh

(* A row built for an idle request has the type of a request.              *)
LEMMA NoJobType == \A res \in {"none", "ok", "refused", "error"} : NoJob(res) \in Job
<1>1. NoWallet \in WalletRow
  BY DEF NoWallet, WalletRow
<1> QED
  BY <1>1 DEF NoJob, Job, JobPC, WalletStatus

(* Replacing one request by a value of the type keeps the type.            *)
LEMMA JobUpdate ==
  ASSUME job \in [Procs -> Job], NEW p \in Procs, NEW j \in Job,
         job' = [job EXCEPT ![p] = j]
  PROVE  job' \in [Procs -> Job]
OBVIOUS

(* The end of a request keeps the type, and rotations in flight remain     *)
(* only those that were there.                                             *)
LEMMA EndsKeeps ==
  ASSUME job \in [Procs -> Job], NEW p \in Procs,
         NEW res \in {"none", "ok", "refused", "error"}, Ends(p, res)
  PROVE  /\ job' \in [Procs -> Job]
         /\ \A q \in Procs : job'[q].pc = "rotate" => job[q].pc = "rotate" /\ job'[q] = job[q]
<1>1. job' = [job EXCEPT ![p] = NoJob(res)]
  BY DEF Ends
<1>2. NoJob(res) \in Job /\ NoJob(res).pc # "rotate"
  BY NoJobType DEF NoJob
<1> HIDE DEF NoJob, Job
<1> QED
  BY <1>1, <1>2

(* Where no wallet changes its owner, version or links, and only existing  *)
(* rows change their status, to one under which they exist, and no         *)
(* rotation begins, the two invariants carry over.                         *)
LEMMA RowsKept ==
  ASSUME RowsTypeOK, SuccessorsPointBack, RotationsAreFresh,
         \A w \in WalletIds : /\ wal'[w].owner = wal[w].owner
                              /\ wal'[w].version = wal[w].version
                              /\ wal'[w].successor = wal[w].successor
                              /\ wal'[w].rotatedFrom = wal[w].rotatedFrom
                              /\ \/ wal'[w].status = wal[w].status
                                 \/ Exists(w) /\ wal'[w].status \in WalletStatus,
         \A q \in Procs : job'[q].pc = "rotate" => job[q].pc = "rotate" /\ job'[q] = job[q]
  PROVE  SuccessorsPointBack' /\ RotationsAreFresh'
<1>1. \A w \in WalletIds : Exists(w) <=> Exists(w)'
  BY DEF Exists, WalletStatus
<1>2. SuccessorsPointBack'
  <2> SUFFICES ASSUME NEW w \in WalletIds, wal'[w].successor # Nobody
               PROVE  /\ Exists(wal[w].successor)'
                      /\ wal'[wal[w].successor].rotatedFrom = w
                      /\ wal'[wal[w].successor].owner = wal'[w].owner
                      /\ wal'[wal[w].successor].version = wal'[w].version + 1
    BY DEF SuccessorsPointBack, Exists
  <2>1. Exists(wal[w].successor) /\ wal[w].successor \in WalletIds
    BY DEF SuccessorsPointBack, Exists
  <2> QED
    BY <1>1, <2>1 DEF SuccessorsPointBack
<1>3. RotationsAreFresh'
  <2> SUFFICES ASSUME NEW p \in Procs, job'[p].pc = "rotate"
               PROVE  /\ job[p].w \in WalletIds
                      /\ wal'[job[p].w].status # "NONE"
                      /\ Exists(job[p].w)' => /\ job[p].row.owner = wal'[job[p].w].owner
                                              /\ job[p].row.version = wal'[job[p].w].version
    BY DEF RotationsAreFresh, Exists
  <2> QED
    BY <1>1 DEF RotationsAreFresh, WalletStatus
<1> QED
  BY <1>2, <1>3

(* Initially there are no rows and no requests.                            *)
LEMMA InitIInv == WalletsInit => IInv
<1> SUFFICES ASSUME WalletsInit PROVE IInv
  OBVIOUS
<1>1. RowsTypeOK
  <2>1. NoJob("none") \in Job
    BY NoJobType
  <2>2. job \in [Procs -> Job]
    BY <2>1 DEF WalletsInit
  <2>3. wal \in [WalletIds -> WalletRow]
    BY DEF WalletsInit, NoWallet, WalletRow
  <2>4. tx \in [Txs -> [open : BOOLEAN, sender : WalletIds \cup {Nobody},
                        receiver : WalletIds \cup {Nobody}]]
    BY DEF WalletsInit, NoTx
  <2> QED
    BY <2>2, <2>3, <2>4 DEF RowsTypeOK
<1>2. SuccessorsPointBack
  BY DEF WalletsInit, SuccessorsPointBack, NoWallet
<1>3. RotationsAreFresh
  BY DEF WalletsInit, RotationsAreFresh, NoJob
<1> QED
  BY <1>1, <1>2, <1>3 DEF IInv

(* A request that only reads leaves rows and transactions alone; if it     *)
(* goes on to rotate, it holds the row it read.                            *)
LEMMA ReadKeeps ==
  ASSUME IInv, NEW p \in Procs, NEW j \in Job, job' = [job EXCEPT ![p] = j],
         UNCHANGED <<wal, tx>>,
         j.pc = "rotate" => Exists(j.w) /\ j.row = wal[j.w]
  PROVE  IInv'
<1> USE DEF IInv
<1>1. RowsTypeOK'
  BY JobUpdate DEF RowsTypeOK
<1>2. SuccessorsPointBack'
  BY DEF SuccessorsPointBack, Exists
<1>3. RotationsAreFresh'
  <2> SUFFICES ASSUME NEW q \in Procs, job'[q].pc = "rotate"
               PROVE  /\ job'[q].w \in WalletIds
                      /\ wal[job'[q].w].status # "NONE"
                      /\ Exists(job'[q].w) => /\ job'[q].row.owner = wal[job'[q].w].owner
                                              /\ job'[q].row.version = wal[job'[q].w].version
    BY DEF RotationsAreFresh, Exists
  <2> HIDE DEF Job
  <2>1. CASE q = p
    <3>1. job'[q] = j
      BY <2>1 DEF RowsTypeOK
    <3> QED
      BY <3>1 DEF Exists
  <2>2. CASE q # p
    <3>1. job'[q] = job[q]
      BY <2>2 DEF RowsTypeOK
    <3> QED
      BY <3>1 DEF RotationsAreFresh, Exists
  <2> QED
    BY <2>1, <2>2
<1> QED
  BY <1>1, <1>2, <1>3

(* A request that ends without touching rows or transactions.              *)
LEMMA EndKeeps ==
  ASSUME IInv, NEW p \in Procs,
         NEW res \in {"none", "ok", "refused", "error"}, Ends(p, res),
         UNCHANGED <<wal, tx>>
  PROVE  IInv'
<1>1. NoJob(res) \in Job /\ NoJob(res).pc # "rotate"
  BY NoJobType DEF NoJob
<1>2. job' = [job EXCEPT ![p] = NoJob(res)]
  BY DEF Ends
<1> HIDE DEF NoJob, Job
<1> QED
  BY <1>1, <1>2, ReadKeeps

(* The reads that begin an operation preserve the invariant.               *)
LEMMA StartStep ==
  ASSUME IInv, NEW p \in Procs, WalletStart(p)
  PROVE  IInv'
<1> USE DEF IInv
<1>0. NoJob("none") \in Job
  BY NoJobType
<1>1. ASSUME NEW o \in Owners, CreateRead(p, o) PROVE IInv'
  <2> DEFINE j == [NoJob("none") EXCEPT !.pc = "create", !.owner = o]
  <2>1. j \in Job /\ j.pc # "rotate"
    BY <1>0 DEF NoJob, Job, JobPC
  <2>2. CASE Ends(p, "refused")
    BY <1>1, <2>2, EndKeeps DEF CreateRead
  <2>3. CASE job' = [job EXCEPT ![p] = j]
    <3> HIDE DEF j, Job, IInv
    <3> QED
      BY <1>1, <2>1, <2>3, ReadKeeps DEF CreateRead
  <2> QED
    BY <1>1, <2>2, <2>3 DEF CreateRead
<1>2. ASSUME NEW w \in WalletIds, NEW s \in Targets, StatusRead(p, w, s) PROVE IInv'
  <2> DEFINE j == [NoJob("none") EXCEPT !.pc = "status", !.w = w, !.to = s]
  <2>1. j \in Job /\ j.pc # "rotate"
    BY <1>0, WalletsAssumption DEF NoJob, Job, JobPC
  <2>2. CASE Ends(p, "refused")
    BY <1>2, <2>2, EndKeeps DEF StatusRead
  <2>3. CASE job' = [job EXCEPT ![p] = j]
    <3> HIDE DEF j, Job, IInv
    <3> QED
      BY <1>2, <2>1, <2>3, ReadKeeps DEF StatusRead
  <2> QED
    BY <1>2, <2>2, <2>3 DEF StatusRead
<1>3. ASSUME NEW w \in WalletIds, RotateRead(p, w) PROVE IInv'
  <2> DEFINE j == [NoJob("none") EXCEPT !.pc = "rotate", !.w = w, !.row = wal[w]]
  <2>1. j \in Job /\ j.w = w /\ j.row = wal[w]
    <3>1. wal[w] \in WalletRow
      BY DEF RowsTypeOK
    <3> HIDE DEF WalletRow
    <3> QED
      BY <1>0, <3>1 DEF NoJob, Job, JobPC
  <2>2. CASE Ends(p, "refused")
    BY <1>3, <2>2, EndKeeps DEF RotateRead, Rotate
  <2>3. CASE job' = [job EXCEPT ![p] = j]
    <3> HIDE DEF j, Job, IInv
    <3> QED
      BY <1>3, <2>1, <2>3, ReadKeeps DEF RotateRead, Rotate
  <2> QED
    BY <1>3, <2>2, <2>3 DEF RotateRead, Rotate
<1>4. ASSUME NEW w \in WalletIds, RemoveRead(p, w) PROVE IInv'
  <2> DEFINE j == [NoJob("none") EXCEPT !.pc = "count", !.w = w]
  <2>1. j \in Job /\ j.pc # "rotate"
    BY <1>0 DEF NoJob, Job, JobPC
  <2>2. job' = [job EXCEPT ![p] = j] /\ UNCHANGED <<wal, tx>>
    BY <1>4 DEF RemoveRead
  <2> HIDE DEF j, Job, IInv
  <2> QED
    BY <2>1, <2>2, ReadKeeps
<1> QED
  BY <1>1, <1>2, <1>3, <1>4 DEF WalletStart

(* The insert of createWallet uses an id nothing refers to.                *)
LEMMA CreateStep ==
  ASSUME IInv, NEW p \in Procs, CreateWrite(p)
  PROVE  IInv'
<1> USE DEF IInv
<1>1. PICK w \in WalletIds :
        /\ wal[w].status = "NONE"
        /\ wal' = [wal EXCEPT ![w] = [NoWallet EXCEPT !.status = "ACTIVE", !.version = 1,
                                                      !.owner = job[p].owner]]
  BY DEF CreateWrite
<1> DEFINE row == [NoWallet EXCEPT !.status = "ACTIVE", !.version = 1, !.owner = job[p].owner]
<1>2. row \in WalletRow /\ row.successor = Nobody /\ row.status = "ACTIVE"
  BY DEF NoWallet, WalletRow, WalletStatus, RowsTypeOK, Job
<1>3. /\ job' \in [Procs -> Job]
      /\ \A q \in Procs : job'[q].pc = "rotate" => job[q].pc = "rotate" /\ job'[q] = job[q]
  BY EndsKeeps DEF CreateWrite, RowsTypeOK
<1>4. wal' = [wal EXCEPT ![w] = row] /\ UNCHANGED tx
  BY <1>1 DEF CreateWrite
<1> HIDE DEF row, Job
<1>5. RowsTypeOK'
  BY <1>2, <1>3, <1>4 DEF RowsTypeOK
<1>6. wal'[w] = row /\ \A u \in WalletIds \ {w} : wal'[u] = wal[u]
  BY <1>4 DEF RowsTypeOK
<1>7. \A u \in WalletIds : Exists(u) => Exists(u)' /\ u # w
  BY <1>1, <1>6 DEF Exists
<1>8. SuccessorsPointBack'
  <2> SUFFICES ASSUME NEW u \in WalletIds, NEW v, v = wal'[u].successor, v # Nobody
               PROVE  /\ Exists(v)'
                      /\ wal'[v].rotatedFrom = u
                      /\ wal'[v].owner = wal'[u].owner
                      /\ wal'[v].version = wal'[u].version + 1
    BY DEF SuccessorsPointBack, Exists
  <2>1. u # w /\ wal'[u] = wal[u]
    BY <1>2, <1>6
  <2>2. Exists(v) /\ v \in WalletIds
    BY <2>1 DEF SuccessorsPointBack, Exists
  <2>3. wal'[v] = wal[v] /\ Exists(v)'
    BY <2>2, <1>6, <1>7
  <2> QED
    BY <2>1, <2>2, <2>3 DEF SuccessorsPointBack
<1>9. RotationsAreFresh'
  <2> SUFFICES ASSUME NEW q \in Procs, job'[q].pc = "rotate"
               PROVE  /\ job[q].w \in WalletIds
                      /\ wal'[job[q].w].status # "NONE"
                      /\ Exists(job[q].w)' => /\ job[q].row.owner = wal'[job[q].w].owner
                                              /\ job[q].row.version = wal'[job[q].w].version
    BY <1>3 DEF RotationsAreFresh, Exists
  <2>1. job[q].w \in WalletIds /\ job[q].w # w
    BY <1>1, <1>3 DEF RotationsAreFresh
  <2> QED
    BY <1>3, <1>6, <2>1 DEF RotationsAreFresh, Exists
<1> QED
  BY <1>5, <1>8, <1>9

(* A status written by id leaves owner, version and links alone.           *)
LEMMA StatusStep ==
  ASSUME IInv, NEW p \in Procs, StatusWrite(p)
  PROVE  IInv'
<1> USE DEF IInv
<1>1. CASE ~Exists(job[p].w)
  BY <1>1, EndKeeps DEF StatusWrite
<1>2. CASE Exists(job[p].w)
  <2> DEFINE w == job[p].w
             row == [wal[w] EXCEPT !.status = job[p].to]
  <2>1. w \in WalletIds /\ job[p].to \in WalletStatus
    BY <1>2 DEF Exists, RowsTypeOK, Job
  <2>2. wal' = [wal EXCEPT ![w] = row] /\ UNCHANGED tx
    BY <1>2 DEF StatusWrite
  <2>3. /\ row \in WalletRow /\ row.owner = wal[w].owner /\ row.version = wal[w].version
        /\ row.successor = wal[w].successor /\ row.rotatedFrom = wal[w].rotatedFrom
        /\ row.status \in WalletStatus
    BY <2>1 DEF RowsTypeOK, WalletRow
  <2>4. /\ job' \in [Procs -> Job]
        /\ \A q \in Procs : job'[q].pc = "rotate" => job[q].pc = "rotate" /\ job'[q] = job[q]
    BY <1>2, EndsKeeps DEF StatusWrite, RowsTypeOK
  <2>5. Exists(w)
    BY <1>2
  <2> HIDE DEF w, row, Job, WalletRow
  <2>6. RowsTypeOK'
    BY <2>1, <2>2, <2>3, <2>4 DEF RowsTypeOK
  <2>7. \A u \in WalletIds : wal'[u] = IF u = w THEN row ELSE wal[u]
    BY <2>1, <2>2 DEF RowsTypeOK
  <2>8. SuccessorsPointBack' /\ RotationsAreFresh'
    BY <2>3, <2>4, <2>5, <2>7, RowsKept
  <2> QED
    BY <2>6, <2>8
<1> QED
  BY <1>1, <1>2

(* A rotation links a fresh successor of the owner and version that its    *)
(* wallet still has.                                                       *)
LEMMA RotateStep ==
  ASSUME IInv, NEW p \in Procs, RotateWrite(p)
  PROVE  IInv'
<1> USE DEF IInv
<1>1. CASE ~Exists(job[p].w)
  BY <1>1, EndKeeps DEF RotateWrite
<1>2. CASE Exists(job[p].w)
  <2> DEFINE w == job[p].w
  <2>1. PICK v \in WalletIds :
          /\ wal[v].status = "NONE"
          /\ wal' = [wal EXCEPT ![v] = Successor(job[p].row, w),
                                ![w].status = "ROTATING",
                                ![w].successor = v]
          /\ job' = [job EXCEPT ![p].pc = "reread", ![p].made = v]
    BY <1>2 DEF RotateWrite
  <2>2. w \in WalletIds /\ v # w /\ Exists(w) /\ ~Exists(v)
    BY <1>2, <2>1 DEF Exists
  <2>3. /\ job[p].row.owner = wal[w].owner
        /\ job[p].row.version = wal[w].version
    BY <2>2 DEF RotationsAreFresh, RotateWrite
  <2> DEFINE new == Successor(job[p].row, w)
             old == [wal[w] EXCEPT !.status = "ROTATING", !.successor = v]
             j == [job[p] EXCEPT !.pc = "reread", !.made = v]
  <2>4. /\ new \in WalletRow /\ new.owner = wal[w].owner /\ new.version = wal[w].version + 1
        /\ new.successor = Nobody /\ new.rotatedFrom = w /\ new.status = "ACTIVE"
    BY <2>2, <2>3 DEF Successor, WalletRow, WalletStatus, RowsTypeOK
  <2>5. /\ old \in WalletRow /\ old.owner = wal[w].owner /\ old.version = wal[w].version
        /\ old.successor = v /\ old.rotatedFrom = wal[w].rotatedFrom /\ old.status = "ROTATING"
    <3>1. wal[w] \in WalletRow
      BY <2>2 DEF RowsTypeOK
    <3> HIDE DEF w
    <3> QED
      BY <3>1 DEF WalletRow, WalletStatus
  <2>6. j \in Job /\ j.pc = "reread"
    BY DEF RowsTypeOK, Job, JobPC
  <2>7. job' = [job EXCEPT ![p] = j] /\ UNCHANGED tx
    BY <2>1 DEF RotateWrite, RowsTypeOK, Job
  <2>8. wal' = [wal EXCEPT ![v] = new, ![w] = old]
    BY <2>1, <2>2 DEF RowsTypeOK
  <2>9. \A u \in WalletIds : wal'[u] = IF u = v THEN new ELSE IF u = w THEN old ELSE wal[u]
    BY <2>2, <2>8 DEF RowsTypeOK
  <2> HIDE DEF w, new, old, j, Job, WalletRow
  <2>10. RowsTypeOK'
    BY <2>2, <2>4, <2>5, <2>6, <2>7, <2>8, JobUpdate DEF RowsTypeOK
  <2>11. \A u \in WalletIds : Exists(u)' <=> Exists(u) \/ u = v
    BY <2>2, <2>4, <2>5, <2>9 DEF Exists
  <2>12. SuccessorsPointBack'
    <3> SUFFICES ASSUME NEW u \in WalletIds, NEW x, x = wal'[u].successor, x # Nobody
                 PROVE  /\ Exists(x)'
                        /\ wal'[x].rotatedFrom = u
                        /\ wal'[x].owner = wal'[u].owner
                        /\ wal'[x].version = wal'[u].version + 1
      BY DEF SuccessorsPointBack, Exists
    <3>1. CASE u = w
      BY <3>1, <2>2, <2>4, <2>5, <2>9, <2>11
    <3>2. CASE u # w
      <4>1. u # v /\ wal'[u] = wal[u]
        BY <3>2, <2>4, <2>9
      <4>2. Exists(x) /\ x \in WalletIds /\ x # v
        BY <4>1, <2>2 DEF SuccessorsPointBack, Exists
      <4>3. /\ wal'[x].rotatedFrom = wal[x].rotatedFrom /\ wal'[x].owner = wal[x].owner
            /\ wal'[x].version = wal[x].version
        BY <4>2, <2>5, <2>9
      <4> QED
        BY <4>1, <4>2, <4>3, <2>11 DEF SuccessorsPointBack
    <3> QED
      BY <3>1, <3>2
  <2>13. RotationsAreFresh'
    <3> SUFFICES ASSUME NEW q \in Procs, job'[q].pc = "rotate"
                 PROVE  /\ job'[q].w \in WalletIds
                        /\ wal'[job'[q].w].status # "NONE"
                        /\ (wal'[job'[q].w].status \notin {"NONE", "DELETED"}) =>
                             /\ job'[q].row.owner = wal'[job'[q].w].owner
                             /\ job'[q].row.version = wal'[job'[q].w].version
      BY DEF RotationsAreFresh, Exists
    <3>1. q # p /\ job'[q] = job[q]
      BY <2>6, <2>7 DEF RowsTypeOK
    <3>2. job[q].w \in WalletIds /\ job[q].w # v /\ wal[job[q].w].status # "NONE"
      BY <3>1, <2>1 DEF RotationsAreFresh
    <3> QED
      BY <3>1, <3>2, <2>2, <2>5, <2>9 DEF RotationsAreFresh, Exists
  <2> QED
    BY <2>10, <2>12, <2>13
<1> QED
  BY <1>1, <1>2

(* A removal clears every link to the removed wallet.                      *)
LEMMA RemoveStep ==
  ASSUME IInv, NEW p \in Procs, RemoveDelete(p)
  PROVE  IInv'
<1> USE DEF IInv
<1> DEFINE w == job[p].w
<1>1. CASE ~Exists(w) \/ \E t \in Txs : tx[t].sender = w
  <2>1. Ends(p, "error") /\ UNCHANGED <<wal, tx>>
    BY <1>1 DEF RemoveDelete
  <2> QED
    BY <2>1, EndKeeps
<1>2. CASE ~(~Exists(w) \/ \E t \in Txs : tx[t].sender = w)
  <2> DEFINE gone == [NoWallet EXCEPT !.status = "DELETED"]
  <2>1. /\ wal' = [v \in WalletIds |-> IF v = w THEN gone ELSE Unlinked(wal[v], w)]
        /\ tx' = [t \in Txs |-> [tx[t] EXCEPT !.receiver = Cleared(@, w)]]
        /\ Ends(p, "ok")
    BY <1>2 DEF RemoveDelete
  <2>2. w \in WalletIds /\ Exists(w)
    BY <1>2 DEF Exists
  <2>3. /\ job' \in [Procs -> Job]
        /\ \A q \in Procs : job'[q].pc = "rotate" => job[q].pc = "rotate" /\ job'[q] = job[q]
    BY <2>1, EndsKeeps DEF RowsTypeOK
  <2>4. gone \in WalletRow /\ gone.status = "DELETED" /\ gone.successor = Nobody
    BY DEF NoWallet, WalletRow
  <2>5. ASSUME NEW row \in WalletRow, NEW x \in WalletIds
        PROVE  /\ Unlinked(row, x) \in WalletRow
               /\ Unlinked(row, x).status = row.status /\ Unlinked(row, x).owner = row.owner
               /\ Unlinked(row, x).version = row.version
               /\ Unlinked(row, x).successor = Cleared(row.successor, x)
               /\ Unlinked(row, x).rotatedFrom = Cleared(row.rotatedFrom, x)
    BY DEF Unlinked, Cleared, WalletRow
  <2> DEFINE TxRow == [open : BOOLEAN, sender : WalletIds \cup {Nobody},
                       receiver : WalletIds \cup {Nobody}]
  <2>6. ASSUME NEW r \in TxRow, NEW x PROVE [r EXCEPT !.receiver = Cleared(@, x)] \in TxRow
    BY DEF Cleared
  <2>7. tx' \in [Txs -> TxRow]
    <3>1. tx \in [Txs -> TxRow]
      BY DEF RowsTypeOK
    <3> HIDE DEF TxRow, w
    <3> QED
      BY <3>1, <2>1, <2>6
  <2> HIDE DEF w, gone, TxRow, Job, WalletRow
  <2>8. RowsTypeOK'
    BY <2>1, <2>2, <2>3, <2>4, <2>5, <2>7 DEF RowsTypeOK, TxRow
  <2>9. \A u \in WalletIds : /\ u = w => wal'[u] = gone
                             /\ u # w => /\ wal'[u].status = wal[u].status
                                         /\ wal'[u].owner = wal[u].owner
                                         /\ wal'[u].version = wal[u].version
                                         /\ wal'[u].successor = Cleared(wal[u].successor, w)
                                         /\ wal'[u].rotatedFrom = Cleared(wal[u].rotatedFrom, w)
    BY <2>1, <2>2, <2>5 DEF RowsTypeOK
  <2>10. SuccessorsPointBack'
    <3> SUFFICES ASSUME NEW u \in WalletIds, NEW x, x = wal'[u].successor, x # Nobody
                 PROVE  /\ Exists(x)'
                        /\ wal'[x].rotatedFrom = u
                        /\ wal'[x].owner = wal'[u].owner
                        /\ wal'[x].version = wal'[u].version + 1
      BY DEF SuccessorsPointBack, Exists
    <3>1. u # w
      BY <2>4, <2>9
    <3>2. x = wal[u].successor /\ x # w
      BY <3>1, <2>9 DEF Cleared
    <3>3. Exists(x) /\ x \in WalletIds
      BY <3>2 DEF SuccessorsPointBack, Exists
    <3>4. Exists(x)'
      BY <3>2, <3>3, <2>9 DEF Exists
    <3>5. wal'[x].rotatedFrom = Cleared(u, w)
      BY <3>2, <3>3, <2>9 DEF SuccessorsPointBack
    <3> QED
      BY <3>1, <3>2, <3>3, <3>4, <3>5, <2>9 DEF SuccessorsPointBack, Cleared
  <2>11. RotationsAreFresh'
    <3> SUFFICES ASSUME NEW q \in Procs, job'[q].pc = "rotate"
                 PROVE  /\ job[q].w \in WalletIds
                        /\ wal'[job[q].w].status # "NONE"
                        /\ (wal'[job[q].w].status \notin {"NONE", "DELETED"}) =>
                             /\ job[q].row.owner = wal'[job[q].w].owner
                             /\ job[q].row.version = wal'[job[q].w].version
      BY <2>3 DEF RotationsAreFresh, Exists
    <3>1. job[q].w \in WalletIds /\ job[q].pc = "rotate"
      BY <2>3 DEF RotationsAreFresh
    <3> QED
      BY <3>1, <2>4, <2>9 DEF RotationsAreFresh, Exists
  <2> QED
    BY <2>8, <2>10, <2>11
<1> QED
  BY <1>1, <1>2

(* The steps between the reads and the writes, and failures, only move or  *)
(* end their request.                                                      *)
LEMMA OtherSteps ==
  ASSUME IInv, NEW p \in Procs, RotateReread(p) \/ RemoveCount(p) \/ WalletFail(p)
  PROVE  IInv'
<1>1. CASE RotateReread(p)
  BY <1>1, EndKeeps DEF RotateReread
<1>2. CASE RemoveCount(p)
  <2>1. CASE Ends(p, "refused")
    BY <1>2, <2>1, EndKeeps DEF RemoveCount
  <2>2. CASE job' = [job EXCEPT ![p].pc = "delete"]
    <3> DEFINE j == [job[p] EXCEPT !.pc = "delete"]
    <3>1. j \in Job /\ j.pc # "rotate" /\ job' = [job EXCEPT ![p] = j]
      BY <2>2 DEF IInv, RowsTypeOK, Job, JobPC
    <3> HIDE DEF j, Job
    <3> QED
      BY <1>2, <3>1, ReadKeeps DEF RemoveCount
  <2> QED
    BY <1>2, <2>1, <2>2 DEF RemoveCount
<1>3. CASE WalletFail(p)
  BY <1>3, EndKeeps DEF WalletFail
<1> QED
  BY <1>1, <1>2, <1>3

(* Transactions opened and settled by others touch no wallet.              *)
LEMMA TxStep ==
  ASSUME IInv, TxNext
  PROVE  IInv'
<1> USE DEF IInv
<1> DEFINE TxRow == [open : BOOLEAN, sender : WalletIds \cup {Nobody},
                     receiver : WalletIds \cup {Nobody}]
<1>1. tx' \in [Txs -> TxRow] /\ UNCHANGED <<wal, job>>
  <2>0. tx \in [Txs -> TxRow]
    BY DEF RowsTypeOK
  <2>1. CASE \E t \in Txs, s, r \in WalletIds : OpenTx(t, s, r)
    BY <2>0, <2>1 DEF OpenTx
  <2>2. CASE \E t \in Txs : SettleTx(t)
    BY <2>0, <2>2 DEF SettleTx
  <2> QED
    BY <2>1, <2>2 DEF TxNext
<1>2. RowsTypeOK'
  BY <1>1 DEF RowsTypeOK
<1>3. SuccessorsPointBack' /\ RotationsAreFresh'
  BY <1>1, RowsKept
<1> QED
  BY <1>2, <1>3

(* The invariant is inductive: one step per action of WalletsSpec.         *)
LEMMA NextIInv == IInv /\ [WalletsNext]_walletVars => IInv'
<1> SUFFICES ASSUME IInv, [WalletsNext]_walletVars PROVE IInv'
  OBVIOUS
<1>1. CASE TxNext
  BY <1>1, TxStep
<1>2. ASSUME NEW p \in Procs, WalletStart(p) PROVE IInv'
  BY <1>2, StartStep
<1>3. ASSUME NEW p \in Procs, WalletStep(p) PROVE IInv'
  BY <1>3, CreateStep, StatusStep, RotateStep, RemoveStep, OtherSteps DEF WalletStep
<1>4. CASE UNCHANGED walletVars
  BY <1>4 DEF IInv, RowsTypeOK, SuccessorsPointBack, RotationsAreFresh, Exists, walletVars
<1> QED
  BY <1>1, <1>2, <1>3, <1>4 DEF WalletsNext

(* For every number of wallets, owners, transactions and concurrent        *)
(* requests, rows, transactions and requests keep their types under        *)
(* WalletsService and rotateKey.                                           *)
THEOREM WalletsTypeCorrect == WalletsSpec => []WalletsTypeOK
<1>1. WalletsInit => solo \in BOOLEAN
  BY DEF WalletsInit
<1>2. solo \in BOOLEAN /\ [WalletsNext]_walletVars => (solo \in BOOLEAN)'
  BY DEF WalletsNext, walletVars
<1>3. IInv /\ solo \in BOOLEAN => WalletsTypeOK
  BY DEF IInv, WalletsTypeOK
<1> QED
  BY <1>1, <1>2, <1>3, InitIInv, NextIInv, PTL DEF WalletsSpec

(* Whatever rotations, removals, creations and status changes interleave,  *)
(* a successor link leads to an existing wallet of the same owner that was *)
(* made from this one and has the next secret version.                     *)
THEOREM SuccessorsConsistent == WalletsSpec => []SuccessorsPointBack
<1>1. IInv => SuccessorsPointBack
  BY DEF IInv
<1> QED
  BY <1>1, InitIInv, NextIInv, PTL DEF WalletsSpec

(* A rotation that reaches its transaction still holds the owner and the   *)
(* version of its wallet, though it read them before generating the key.   *)
THEOREM RotationsHoldTheRow == WalletsSpec => []RotationsAreFresh
<1>1. IInv => RotationsAreFresh
  BY DEF IInv
<1> QED
  BY <1>1, InitIInv, NextIInv, PTL DEF WalletsSpec
=============================================================================
