------------------------------- MODULE Wallets -------------------------------
(***************************************************************************)
(* The wallet table under WalletsService (create, status changes, removal) *)
(* and KeyManagementService.rotateKey.  Every operation reads, decides,    *)
(* and writes by id; transactions of other components come and go between. *)
(***************************************************************************)
EXTENDS Naturals, FiniteSets

CONSTANTS
  WalletIds,  \* ids of wallet rows, never reused (bound)
  Owners,     \* pairs of a user and a network
  Txs,        \* ids of transactions (bound)
  Procs,      \* requests that may be in flight at once
  WalletOps,  \* operations requested
  Targets     \* statuses requested through PATCH and archive

WalletStatus == {"PROVISIONING", "ACTIVE", "ROTATING", "SUSPENDED", "DISABLED",
                 "COMPROMISED", "ARCHIVED"}

Nobody == "none"

ASSUME WalletsAssumption ==
  /\ WalletOps \subseteq {"create", "status", "rotate", "remove"}
  /\ Targets \subseteq WalletStatus
  /\ Nobody \notin WalletIds

VARIABLES
  wal, \* wallet rows
  tx,  \* transactions: in flight or settled, and between which wallets
  job, \* requests in flight
  solo \* history: no two requests have been in flight at once

walletRows == <<wal, tx, job>>
walletVars == <<wal, tx, job, solo>>

WalletRow == [status : WalletStatus \cup {"NONE", "DELETED"}, owner : Owners \cup {Nobody},
              version : Nat, successor : WalletIds \cup {Nobody},
              rotatedFrom : WalletIds \cup {Nobody}]

NoWallet == [status |-> "NONE", owner |-> Nobody, version |-> 0,
             successor |-> Nobody, rotatedFrom |-> Nobody]

NoTx == [open |-> FALSE, sender |-> Nobody, receiver |-> Nobody]

JobPC == {"idle", "create", "status", "rotate", "reread", "count", "delete"}

(* A request: its wallet or owner, the status it is about to write, the    *)
(* row as read, the successor it made, and how it ended.                   *)
NoJob(res) == [pc |-> "idle", w |-> Nobody, owner |-> Nobody, to |-> "ACTIVE",
               row |-> NoWallet, made |-> Nobody, res |-> res]

Job == [pc : JobPC, w : WalletIds \cup {Nobody}, owner : Owners \cup {Nobody},
        to : WalletStatus, row : WalletRow, made : WalletIds \cup {Nobody},
        res : {"none", "ok", "refused", "error"}]

Exists(w) == w \in WalletIds /\ wal[w].status \notin {"NONE", "DELETED"}

WalletsInit ==
  /\ wal = [w \in WalletIds |-> NoWallet]
  /\ tx = [t \in Txs |-> NoTx]
  /\ job = [p \in Procs |-> NoJob("none")]
  /\ solo = TRUE

Ends(p, res) == job' = [job EXCEPT ![p] = NoJob(res)]

-----------------------------------------------------------------------------
(* createWallet                                                            *)

(* Mutation: disabled wallets do not count.                                *)
CreateReadUnlessDisabled(p, o) ==
  /\ "create" \in WalletOps /\ job[p].pc = "idle"
  /\ IF \E w \in WalletIds : Exists(w) /\ wal[w].owner = o /\ wal[w].status # "DISABLED"
     THEN Ends(p, "refused")
     ELSE job' = [job EXCEPT ![p] = [NoJob("none") EXCEPT !.pc = "create", !.owner = o]]
  /\ UNCHANGED <<wal, tx>>

CreateRead(p, o) ==
  /\ "create" \in WalletOps /\ job[p].pc = "idle"
  /\ IF \E w \in WalletIds : Exists(w) /\ wal[w].owner = o
     THEN Ends(p, "refused")
     ELSE job' = [job EXCEPT ![p] = [NoJob("none") EXCEPT !.pc = "create", !.owner = o]]
  /\ UNCHANGED <<wal, tx>>

(* The row is inserted by a transaction of its own; nothing in the schema  *)
(* keeps an owner from having two.                                         *)
CreateWrite(p) ==
  /\ job[p].pc = "create"
  /\ \E w \in WalletIds :
       /\ wal[w].status = "NONE"
       /\ wal' = [wal EXCEPT ![w] = [NoWallet EXCEPT !.status = "ACTIVE", !.version = 1,
                                                     !.owner = job[p].owner]]
  /\ Ends(p, "ok")
  /\ UNCHANGED tx

-----------------------------------------------------------------------------
(* updateWalletStatus, also behind archive                                 *)

ALLOWED_TRANSITIONS ==
  [s \in WalletStatus |->
     CASE s = "PROVISIONING" -> {"ACTIVE", "SUSPENDED", "DISABLED"}
       [] s = "ACTIVE"       -> {"ROTATING", "SUSPENDED", "DISABLED", "COMPROMISED", "ARCHIVED"}
       [] s = "ROTATING"     -> {"ACTIVE", "SUSPENDED", "DISABLED", "COMPROMISED"}
       [] s = "SUSPENDED"    -> {"ACTIVE", "DISABLED", "COMPROMISED", "ARCHIVED"}
       [] s = "DISABLED"     -> {"ARCHIVED"}
       [] OTHER              -> {}]

canTransitionWalletStatus(from, to) == to \in ALLOWED_TRANSITIONS[from]

StatusRead(p, w, s) ==
  /\ "status" \in WalletOps /\ job[p].pc = "idle" /\ Exists(w)
  /\ IF wal[w].status = s \/ canTransitionWalletStatus(wal[w].status, s)
     THEN job' = [job EXCEPT ![p] = [NoJob("none") EXCEPT !.pc = "status", !.w = w, !.to = s]]
     ELSE Ends(p, "refused")
  /\ UNCHANGED <<wal, tx>>

(* Mutation: every update of the row counts as a new version.              *)
StatusWriteVersioned(p) ==
  /\ job[p].pc = "status"
  /\ IF Exists(job[p].w)
     THEN /\ wal' = [wal EXCEPT ![job[p].w].status = job[p].to, ![job[p].w].version = @ + 1]
          /\ Ends(p, "ok")
     ELSE /\ Ends(p, "error")
          /\ UNCHANGED wal
  /\ UNCHANGED tx

StatusWrite(p) ==
  /\ job[p].pc = "status"
  /\ IF Exists(job[p].w)
     THEN /\ wal' = [wal EXCEPT ![job[p].w].status = job[p].to]
          /\ Ends(p, "ok")
     ELSE /\ Ends(p, "error")
          /\ UNCHANGED wal
  /\ UNCHANGED tx

-----------------------------------------------------------------------------
(* rotateWalletKey and rotateKey                                           *)

(* Mutation: a wallet that already has a successor is rotated again.       *)
MayRotateAgain(row) == row.status \in {"ACTIVE", "ROTATING"}

MayRotate(row) == row.status \in {"ACTIVE", "ROTATING"} /\ row.successor = Nobody

Rotate(p, w) ==
  /\ IF Exists(w) /\ MayRotate(wal[w])
     THEN job' = [job EXCEPT ![p] = [NoJob("none") EXCEPT !.pc = "rotate", !.w = w,
                                                          !.row = wal[w]]]
     ELSE Ends(p, "refused")
  /\ UNCHANGED <<wal, tx>>

RotateRead(p, w) == "rotate" \in WalletOps /\ job[p].pc = "idle" /\ Exists(w) /\ Rotate(p, w)

(* Mutation: the replaced wallet's new status is given to the successor.   *)
SuccessorMislabelled(row, w) ==
  [status |-> "ROTATED", owner |-> row.owner, version |-> row.version + 1,
   successor |-> Nobody, rotatedFrom |-> w]

Successor(row, w) ==
  [status |-> "ACTIVE", owner |-> row.owner, version |-> row.version + 1,
   successor |-> Nobody, rotatedFrom |-> w]

(* One transaction: the successor is inserted (its rotatedFromId must      *)
(* exist) and the predecessor linked and marked, whatever it is by then.   *)
RotateWrite(p) ==
  /\ job[p].pc = "rotate"
  /\ IF ~Exists(job[p].w)
     THEN Ends(p, "error") /\ UNCHANGED wal
     ELSE \E v \in WalletIds :
            /\ wal[v].status = "NONE"
            /\ wal' = [wal EXCEPT ![v] = Successor(job[p].row, job[p].w),
                                  ![job[p].w].status = "ROTATING",
                                  ![job[p].w].successor = v]
            /\ job' = [job EXCEPT ![p].pc = "reread", ![p].made = v]
  /\ UNCHANGED tx

(* Both rows are read back; a row deleted meanwhile makes it an error.     *)
RotateReread(p) ==
  /\ job[p].pc = "reread"
  /\ Ends(p, IF Exists(job[p].w) /\ Exists(job[p].made) THEN "ok" ELSE "error")
  /\ UNCHANGED <<wal, tx>>

-----------------------------------------------------------------------------
(* remove                                                                  *)

RemoveRead(p, w) ==
  /\ "remove" \in WalletOps /\ job[p].pc = "idle" /\ Exists(w)
  /\ job' = [job EXCEPT ![p] = [NoJob("none") EXCEPT !.pc = "count", !.w = w]]
  /\ UNCHANGED <<wal, tx>>

PendingTransactions(w) == {t \in Txs : tx[t].open /\ w \in {tx[t].sender, tx[t].receiver}}

RemoveCount(p) ==
  /\ job[p].pc = "count"
  /\ IF PendingTransactions(job[p].w) # {}
     THEN Ends(p, "refused")
     ELSE job' = [job EXCEPT ![p].pc = "delete"]
  /\ UNCHANGED <<wal, tx>>

Cleared(id, w) == IF id = w THEN Nobody ELSE id

(* Mutation: references to the deleted wallet stay.                        *)
UnlinkedNot(row, w) == row

Unlinked(row, w) == [row EXCEPT !.successor = Cleared(@, w), !.rotatedFrom = Cleared(@, w)]

(* Mutation: the sender of a transaction is not protected either.          *)
RemoveDeleteUnrestricted(p) ==
  /\ job[p].pc = "delete"
  /\ LET w == job[p].w IN
       IF ~Exists(w)
       THEN Ends(p, "error") /\ UNCHANGED <<wal, tx>>
       ELSE /\ wal' = [v \in WalletIds |-> IF v = w THEN [NoWallet EXCEPT !.status = "DELETED"]
                                           ELSE Unlinked(wal[v], w)]
            /\ tx' = [t \in Txs |-> [tx[t] EXCEPT !.receiver = Cleared(@, w)]]
            /\ Ends(p, "ok")

(* Restrict on the sender of a transaction; SetNull on its receiver and on *)
(* the links between wallets.                                              *)
RemoveDelete(p) ==
  /\ job[p].pc = "delete"
  /\ LET w == job[p].w IN
       IF ~Exists(w) \/ \E t \in Txs : tx[t].sender = w
       THEN Ends(p, "error") /\ UNCHANGED <<wal, tx>>
       ELSE /\ wal' = [v \in WalletIds |-> IF v = w THEN [NoWallet EXCEPT !.status = "DELETED"]
                                           ELSE Unlinked(wal[v], w)]
            /\ tx' = [t \in Txs |-> [tx[t] EXCEPT !.receiver = Cleared(@, w)]]
            /\ Ends(p, "ok")

-----------------------------------------------------------------------------
(* Key generation or a query fails, or the process stops.                  *)
WalletFail(p) ==
  /\ job[p].pc # "idle"
  /\ Ends(p, "error")
  /\ UNCHANGED <<wal, tx>>

(* TransactionsService: a row between existing wallets, later settled.     *)
OpenTx(t, s, r) ==
  /\ tx[t] = NoTx /\ s # r /\ Exists(s) /\ Exists(r)
  /\ tx' = [tx EXCEPT ![t] = [open |-> TRUE, sender |-> s, receiver |-> r]]
  /\ UNCHANGED <<wal, job>>

SettleTx(t) ==
  /\ tx[t].open
  /\ tx' = [tx EXCEPT ![t].open = FALSE]
  /\ UNCHANGED <<wal, job>>

WalletStart(p) ==
  \/ \E o \in Owners : CreateRead(p, o)
  \/ \E w \in WalletIds, s \in Targets : StatusRead(p, w, s)
  \/ \E w \in WalletIds : RotateRead(p, w)
  \/ \E w \in WalletIds : RemoveRead(p, w)

WalletStep(p) ==
  \/ CreateWrite(p)
  \/ StatusWrite(p)
  \/ RotateWrite(p)
  \/ RotateReread(p)
  \/ RemoveCount(p)
  \/ RemoveDelete(p)
  \/ WalletFail(p)

TxNext ==
  \/ \E t \in Txs, s, r \in WalletIds : OpenTx(t, s, r)
  \/ \E t \in Txs : SettleTx(t)

Overlap == \E p, q \in Procs : p # q /\ job[p].pc # "idle" /\ job[q].pc # "idle"

WalletsNext ==
  /\ (\E p \in Procs : WalletStart(p) \/ WalletStep(p)) \/ TxNext
  /\ solo' = (solo /\ ~Overlap')

WalletsSpec == WalletsInit /\ [][WalletsNext]_walletVars

-----------------------------------------------------------------------------
(* Properties                                                              *)

RowsTypeOK ==
  /\ wal \in [WalletIds -> WalletRow]
  /\ tx \in [Txs -> [open : BOOLEAN, sender : WalletIds \cup {Nobody},
                     receiver : WalletIds \cup {Nobody}]]
  /\ job \in [Procs -> Job]

(* Rows and requests have values of their types.                           *)
WalletsTypeOK == RowsTypeOK /\ solo \in BOOLEAN

(* However rotations, removals and status changes interleave, a successor  *)
(* link leads to an existing wallet of the same owner, made from this one, *)
(* whose secretVersion is the next.                                        *)
SuccessorsPointBack ==
  \A w \in WalletIds : LET v == wal[w].successor IN
    v # Nobody => /\ Exists(v)
                  /\ wal[v].rotatedFrom = w
                  /\ wal[v].owner = wal[w].owner
                  /\ wal[v].version = wal[w].version + 1

(* A rotation about to write holds the owner and the version its wallet    *)
(* still has, whatever other requests did since it read the row.           *)
RotationsAreFresh ==
  \A p \in Procs : job[p].pc = "rotate" =>
    /\ job[p].w \in WalletIds
    /\ wal[job[p].w].status # "NONE"
    /\ Exists(job[p].w) => /\ job[p].row.owner = wal[job[p].w].owner
                           /\ job[p].row.version = wal[job[p].w].version

(* A transaction never loses its sender: the foreign key stops a removal   *)
(* that counted the wallet's transactions before a new one was made.       *)
SendersExist ==
  \A t \in Txs : tx[t].sender # Nobody => Exists(tx[t].sender)

(* While requests do not overlap, every wallet made by a rotation is the   *)
(* one its predecessor names: a wallet is replaced once.                   *)
EverySuccessorIsLinked ==
  solo => \A v \in WalletIds : LET w == wal[v].rotatedFrom IN
            w # Nobody => wal[w].successor = v

(* While requests do not overlap and as long as no wallet is removed, an   *)
(* owner has at most one wallet that was not replaced.                     *)
OneCurrentWallet ==
  solo /\ (\A w \in WalletIds : wal[w].status # "DELETED") =>
    \A o \in Owners :
      Cardinality({w \in WalletIds : /\ Exists(w) /\ wal[w].owner = o
                                     /\ wal[w].successor = Nobody}) <= 1

(* "Keep this strict to avoid accidental reactivation after                *)
(* compromise/disable": a wallet taken out of use (DISABLED, COMPROMISED,  *)
(* ARCHIVED) is never usable again.                                        *)
NoReactivation ==
  [][\A w \in WalletIds : wal[w].status \in {"DISABLED", "COMPROMISED", "ARCHIVED"} =>
       wal'[w].status \in {"DISABLED", "COMPROMISED", "ARCHIVED", "DELETED"}]_walletVars
=============================================================================
