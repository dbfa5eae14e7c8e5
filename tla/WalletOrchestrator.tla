------------------------- MODULE WalletOrchestrator -------------------------
(***************************************************************************)
(* WalletCreationOrchestrator.createWallet: one database transaction per   *)
(* call that looks for the owner's wallet (through a cache), for the       *)
(* idempotency record, and otherwise creates wallet and record.  The       *)
(* database is PostgreSQL at READ COMMITTED: a transaction's writes show   *)
(* at its commit, an insert of a key another open transaction inserted     *)
(* waits for it, and after a failed statement COMMIT rolls back.           *)
(***************************************************************************)
EXTENDS Naturals, FiniteSets

CONSTANTS
  WalletIds,  \* ids of wallet rows, never reused (bound)
  Owners,     \* pairs of a user and a network
  RequestKeys,       \* idempotency keys
  Unkeyed,      \* a request without one
  Creations,      \* createWallet calls that may be in flight at once
  OrchEvents, \* what else happens: "expire", "remove", "restart"
  MaxReplies  \* bound: calls answered in one behaviour

ASSUME OrchestratorAssumption ==
  /\ OrchEvents \subseteq {"expire", "remove", "restart"}
  /\ MaxReplies \in Nat

VARIABLES
  wal,     \* committed wallet rows
  idem,    \* committed idempotency records of wallet creation
  cache,   \* wallet:user:<userId>:<network>
  creation,    \* local state of each call, its transaction's writes included
  answers, \* history: what createWallet returned
  told,    \* history: wallets announced by wallet.created
  serial     \* history: no two calls have been in flight at once

orchestratorVars == <<wal, idem, cache, creation, answers, told, serial>>

None == "none"

WalletRow == [status : {"NONE", "ACTIVE", "DELETED"}, owner : Owners \cup {None}]
NoWallet  == [status |-> "NONE", owner |-> None]

IdemRow == [owner : Owners \cup {None}, w : WalletIds \cup {None}, expired : BOOLEAN]
NoRow   == [owner |-> None, w |-> None, expired |-> FALSE]

CallPC == {"idle", "find", "idem", "existing", "create", "fund", "store", "commit"}

(* The request; before: the record of its key when it arrived; existing:   *)
(* the wallet found; w, row: the wallet its transaction inserted; purged,  *)
(* stored: what it did to the record; aborted: a statement of it failed.   *)
Off == [pc |-> "idle", owner |-> None, key |-> Unkeyed, before |-> NoRow, existing |-> None,
        w |-> None, row |-> NoWallet, purged |-> FALSE, stored |-> FALSE, aborted |-> FALSE]

CreationState ==
        [pc : CallPC, owner : Owners \cup {None}, key : RequestKeys \cup {Unkeyed}, before : IdemRow,
         existing : WalletIds \cup {None}, w : WalletIds \cup {None}, row : WalletRow,
         purged : BOOLEAN, stored : BOOLEAN, aborted : BOOLEAN]

Reply == [key : RequestKeys \cup {Unkeyed}, owner : Owners, w : WalletIds,
          before : IdemRow]

OrchestratorInit ==
  /\ wal = [w \in WalletIds |-> NoWallet]
  /\ idem = [k \in RequestKeys |-> NoRow]
  /\ cache = [o \in Owners |-> None]
  /\ serial = TRUE
  /\ creation = [c \in Creations |-> Off]
  /\ answers = {}
  /\ told = {}

Live(w)     == w \in WalletIds /\ wal[w].status \notin {"NONE", "DELETED"}
Present(k)  == idem[k] # NoRow
Taken(w)    == \E c \in Creations : creation[c].w = w

Returns(c, w) ==
  /\ answers' = answers \cup {[key |-> creation[c].key, owner |-> creation[c].owner, w |-> w,
                               before |-> creation[c].before]}
  /\ creation' = [creation EXCEPT ![c] = Off]

Throws(c) ==
  /\ creation' = [creation EXCEPT ![c] = Off]
  /\ UNCHANGED <<wal, idem, cache, answers, told, serial>>

Goes(c, pc) ==
  /\ creation' = [creation EXCEPT ![c].pc = pc]
  /\ UNCHANGED <<wal, idem, cache, answers, told, serial>>

-----------------------------------------------------------------------------
Begin(c, o, k) ==
  /\ creation[c].pc = "idle" /\ Cardinality(answers) < MaxReplies
  /\ creation' = [creation EXCEPT ![c] = [Off EXCEPT !.pc = "find", !.owner = o, !.key = k,
                                    !.before = IF k = Unkeyed THEN NoRow ELSE idem[k]]]
  /\ serial' = (serial /\ \A d \in Creations : creation[d].pc = "idle")
  /\ UNCHANGED <<wal, idem, cache, answers, told>>

OwnedBy(o) == {w \in WalletIds : Live(w) /\ wal[w].owner = o}

(* Mutation: only the cache is asked.                                      *)
findExistingWalletCached(c) ==
  /\ creation[c].pc = "find"
  /\ creation' = [creation EXCEPT ![c].existing = cache[creation[c].owner],
                          ![c].pc = IF creation[c].key = Unkeyed THEN "existing" ELSE "idem"]
  /\ UNCHANGED <<wal, idem, cache, answers, told, serial>>

(* The cache answers before the database; what the database answers is     *)
(* cached.  findFirst names no order.                                      *)
findExistingWallet(c) ==
  /\ creation[c].pc = "find"
  /\ LET o == creation[c].owner IN
     \E w \in IF cache[o] # None THEN {cache[o]}
              ELSE IF OwnedBy(o) # {} THEN OwnedBy(o) ELSE {None} :
       /\ cache' = [cache EXCEPT ![o] = w]
       /\ creation' = [creation EXCEPT ![c].existing = w,
                               ![c].pc = IF creation[c].key = Unkeyed THEN "existing" ELSE "idem"]
  /\ UNCHANGED <<wal, idem, answers, told, serial>>

(* Mutation: the owner of the record is not compared.                      *)
checkIdempotencyAnyOwner(c) ==
  /\ creation[c].pc = "idem"
  /\ LET rec == idem[creation[c].key] IN
     \/ ~Present(creation[c].key) /\ Goes(c, "existing")
     \/ /\ Present(creation[c].key) /\ rec.expired
        /\ ~\E d \in Creations : creation[d].purged /\ creation[d].key = creation[c].key
        /\ creation' = [creation EXCEPT ![c].pc = "existing", ![c].purged = TRUE]
        /\ UNCHANGED <<wal, idem, cache, answers, told, serial>>
     \/ /\ Present(creation[c].key) /\ ~rec.expired
        /\ Returns(c, rec.w)
        /\ UNCHANGED <<wal, idem, cache, told, serial>>

(* An expired record is deleted inside the transaction (waiting for        *)
(* another that does the same); a record of another owner is a conflict;   *)
(* any other record is replayed.                                           *)
checkIdempotency(c) ==
  /\ creation[c].pc = "idem"
  /\ LET rec == idem[creation[c].key] IN
     \/ ~Present(creation[c].key) /\ Goes(c, "existing")
     \/ /\ Present(creation[c].key) /\ rec.expired
        /\ ~\E d \in Creations : creation[d].purged /\ creation[d].key = creation[c].key
        /\ creation' = [creation EXCEPT ![c].pc = "existing", ![c].purged = TRUE]
        /\ UNCHANGED <<wal, idem, cache, answers, told, serial>>
     \/ /\ Present(creation[c].key) /\ ~rec.expired /\ rec.owner # creation[c].owner
        /\ Throws(c)
     \/ /\ Present(creation[c].key) /\ ~rec.expired /\ rec.owner = creation[c].owner
        /\ Returns(c, rec.w)
        /\ UNCHANGED <<wal, idem, cache, told, serial>>

Purged(c) ==
  [k \in RequestKeys |-> IF creation[c].purged /\ k = creation[c].key THEN NoRow ELSE idem[k]]

(* A wallet found is returned; nothing is stored under the key.            *)
ReturnExisting(c) ==
  /\ creation[c].pc = "existing"
  /\ IF creation[c].existing = None
     THEN Goes(c, "create")
     ELSE /\ Returns(c, creation[c].existing)
          /\ idem' = Purged(c)
          /\ UNCHANGED <<wal, cache, told, serial>>

(* Key generation, the PROVISIONING row and its first activation.          *)
createNewWallet(c) ==
  /\ creation[c].pc = "create"
  /\ \E w \in WalletIds :
       /\ wal[w].status = "NONE" /\ ~Taken(w)
       /\ creation' = [creation EXCEPT ![c].pc = "fund", ![c].w = w,
                               ![c].row = [status |-> "ACTIVE", owner |-> creation[c].owner]]
  /\ UNCHANGED <<wal, idem, cache, answers, told, serial>>

(* Friendbot, whose failures are only logged, and activateWallet.          *)
FundAndActivate(c) ==
  /\ creation[c].pc = "fund"
  /\ Goes(c, IF creation[c].key = Unkeyed THEN "commit" ELSE "store")

Record(c) == [owner |-> creation[c].owner, w |-> creation[c].w, expired |-> FALSE]

(* Mutation: the record is written by the client, not by the transaction.  *)
storeIdempotencyRecordOutside(c) ==
  /\ creation[c].pc = "store" /\ ~Present(creation[c].key)
  /\ idem' = [idem EXCEPT ![creation[c].key] = Record(c)]
  /\ creation' = [creation EXCEPT ![c].pc = "commit"]
  /\ UNCHANGED <<wal, cache, answers, told, serial>>

(* The insert waits for another open transaction that inserted the key.    *)
(* Every error of it is swallowed, P2002 and any other; a statement that   *)
(* failed in the database has aborted the transaction, one that never      *)
(* reached it has not.                                                     *)
storeIdempotencyRecord(c) ==
  /\ creation[c].pc = "store"
  /\ \/ /\ ~\E d \in Creations \ {c} : /\ creation[d].key = creation[c].key
                                       /\ creation[d].stored \/ creation[d].purged
        /\ IF Purged(c)[creation[c].key] = NoRow
           THEN creation' = [creation EXCEPT ![c].pc = "commit", ![c].stored = TRUE]
           ELSE creation' = [creation EXCEPT ![c].pc = "commit", ![c].aborted = TRUE]
     \/ \E reached \in BOOLEAN :
          creation' = [creation EXCEPT ![c].pc = "commit", ![c].aborted = reached]
  /\ UNCHANGED <<wal, idem, cache, answers, told, serial>>

(* Mutation: the record does not keep which wallet it stands for.          *)
CommitEmptyRecord(c) ==
  /\ creation[c].pc = "commit"
  /\ wal' = IF creation[c].aborted THEN wal ELSE [wal EXCEPT ![creation[c].w] = creation[c].row]
  /\ idem' = IF creation[c].aborted THEN idem
             ELSE IF ~creation[c].stored THEN Purged(c)
             ELSE [idem EXCEPT ![creation[c].key] = [Record(c) EXCEPT !.w = creation[c].key]]
  /\ told' = told \cup {creation[c].w}
  /\ Returns(c, creation[c].w)
  /\ UNCHANGED <<cache, serial>>

(* The transaction ends; committedWallet is set either way, so the events  *)
(* are emitted and the result returned also when COMMIT rolled back.       *)
Commit(c) ==
  /\ creation[c].pc = "commit"
  /\ wal' = IF creation[c].aborted THEN wal ELSE [wal EXCEPT ![creation[c].w] = creation[c].row]
  /\ idem' = IF creation[c].aborted THEN idem
             ELSE IF ~creation[c].stored THEN Purged(c)
             ELSE [idem EXCEPT ![creation[c].key] = Record(c)]
  /\ told' = told \cup {creation[c].w}
  /\ Returns(c, creation[c].w)
  /\ UNCHANGED <<cache, serial>>

(* The user is unknown, key generation, a statement or COMMIT fails, or    *)
(* Friendbot outlasts the transaction: createWallet throws and nothing is  *)
(* written.                                                                *)
Fail(c) == creation[c].pc # "idle" /\ Throws(c)

-----------------------------------------------------------------------------
(* The record outlives its 24 hours.                                       *)
ExpireKey(k) ==
  /\ "expire" \in OrchEvents /\ Present(k) /\ ~idem[k].expired
  /\ idem' = [idem EXCEPT ![k].expired = TRUE]
  /\ UNCHANGED <<wal, cache, creation, answers, told, serial>>

ExpireCache(o) ==
  /\ "expire" \in OrchEvents /\ cache[o] # None
  /\ cache' = [cache EXCEPT ![o] = None]
  /\ UNCHANGED <<wal, idem, creation, answers, told, serial>>

getWalletByUser(o) ==
  /\ cache[o] = None
  /\ \E w \in OwnedBy(o) : cache' = [cache EXCEPT ![o] = w]
  /\ UNCHANGED <<wal, idem, creation, answers, told, serial>>

(* WalletsService.remove, which knows nothing of this cache.               *)
RemoveWallet(w) ==
  /\ "remove" \in OrchEvents /\ Live(w)
  /\ wal' = [wal EXCEPT ![w] = [NoWallet EXCEPT !.status = "DELETED"]]
  /\ UNCHANGED <<idem, cache, creation, answers, told, serial>>

Restart ==
  /\ "restart" \in OrchEvents
  /\ \E c \in Creations : creation[c].pc # "idle"
  /\ creation' = [c \in Creations |-> Off]
  /\ cache' = [o \in Owners |-> None]
  /\ UNCHANGED <<wal, idem, answers, told, serial>>

CallStep(c) ==
  \/ findExistingWallet(c)
  \/ checkIdempotency(c)
  \/ ReturnExisting(c)
  \/ createNewWallet(c)
  \/ FundAndActivate(c)
  \/ storeIdempotencyRecord(c)
  \/ Commit(c)
  \/ Fail(c)

OrchestratorNext ==
  \/ \E c \in Creations :
       CallStep(c) \/ \E o \in Owners, k \in RequestKeys \cup {Unkeyed} : Begin(c, o, k)
  \/ \E k \in RequestKeys : ExpireKey(k)
  \/ \E o \in Owners : ExpireCache(o) \/ getWalletByUser(o)
  \/ \E w \in WalletIds : RemoveWallet(w)
  \/ Restart

OrchestratorSpec == OrchestratorInit /\ [][OrchestratorNext]_orchestratorVars

-----------------------------------------------------------------------------
(* Properties                                                              *)

(* Rows, records, cache and calls have values of their types.              *)
OrchestratorTypeOK ==
  /\ wal \in [WalletIds -> WalletRow]
  /\ idem \in [RequestKeys -> IdemRow]
  /\ cache \in [Owners -> WalletIds \cup {None}]
  /\ \A c \in Creations : creation[c] \in CreationState
  /\ \A r \in answers : r \in Reply
  /\ told \subseteq WalletIds
  /\ serial \in BOOLEAN

(* A call whose key already had a record when it arrived answers that      *)
(* record's wallet, and only to the same owner, unless the record expired; *)
(* however other calls, expiry and restarts interleave.                    *)
RecordedKeyReplays ==
  \A r \in answers :
    (r.key # Unkeyed /\ r.before # NoRow /\ idem[r.key] = r.before /\ ~r.before.expired) =>
      r.owner = r.before.owner /\ r.w = r.before.w

(* While calls do not overlap, an owner has one wallet, although the cache *)
(* is asked first and wallets, records and cache entries disappear.        *)
OneWalletPerOwner == serial => \A o \in Owners : Cardinality(OwnedBy(o)) <= 1

(* A record stands for a wallet that was committed: wallet and record are  *)
(* written by one transaction, so no call that fails, no insert error that *)
(* is swallowed and no restart leaves a key that replays a wallet which    *)
(* never existed.                                                          *)
RecordsNameCommittedWallets == \A k \in RequestKeys : Present(k) => wal[idem[k].w].status # "NONE"

(* "Events are emitted below, after `$transaction` has committed           *)
(* successfully": wallet.created names only wallets that were committed.   *)
AnnouncedWasCommitted == \A w \in told : wal[w].status # "NONE"
=============================================================================
