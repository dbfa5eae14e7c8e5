------------------------------- MODULE Limits -------------------------------
(***************************************************************************)
(* LimitsService: the spending limits of a wallet, the calls that change   *)
(* them (set, update, remove) between their awaits, and the verdict of     *)
(* checkLimits.  The WalletLimit row is never deleted, only marked.        *)
(*                                                                         *)
(* Every call writes inside retryWithBackoff.  What setLimits retries is   *)
(* its transaction (read, then upsert); updateLimits and removeLimits read *)
(* once and retry the statement only.  The limit.updated events follow the *)
(* answer of the write.                                                    *)
(***************************************************************************)
EXTENDS Integers

CONSTANTS
  Wallets,
  Caps,        \* values the two limits may take
  Admins,      \* limit-changing calls that may be in flight at the same time
  LimitOps,    \* the limit-changing operations used in this instance
  LimitFaults, \* what may go wrong: "error", "lost", "crash"
  LimitTries   \* maxAttempts of retryWithBackoff

ASSUME LimitsAssumption ==
  /\ Caps \subseteq Nat
  /\ LimitOps \subseteq {"set", "update", "remove"}
  /\ LimitFaults \subseteq {"error", "lost", "crash"}
  /\ LimitTries \in Nat \ {0}

VARIABLES
  limit,    \* the WalletLimit row of each wallet
  admin,    \* local state of each limit-changing call
  heard,    \* what the limit.updated events have announced
  unheard   \* history: wallets that had a change cut off from its events,
            \* or changes that overlapped

limitVars == <<limit, admin, heard, unheard>>

Null == -1   \* a limit that was never set

LimitRow == [daily : Caps \cup {Null}, perTx : Caps \cup {Null}, deleted : BOOLEAN]
Pair     == [daily : Caps \cup {Null}, perTx : Caps \cup {Null}]

NoLimit == [daily |-> Null, perTx |-> Null, deleted |-> FALSE]

(* getLimits looks the row up by wallet and does not look at deletedAt.    *)
HasLimits(row) == row.daily # Null

Values(row) == [daily |-> row.daily, perTx |-> row.perTx]

(* seen: the row as read; try: the attempt under way; done: a write of     *)
(* this call is committed.                                                 *)
Admin == [op : {"none", "set", "update", "remove"},
          pc : {"idle", "read", "write", "emit"}, w : Wallets \cup {"none"},
          new : Pair, seen : Pair, try : 1 .. LimitTries, done : BOOLEAN]

AdminIdle == [op |-> "none", pc |-> "idle", w |-> "none", new |-> Values(NoLimit),
              seen |-> Values(NoLimit), try |-> 1, done |-> FALSE]

LimitsInit ==
  /\ limit = [w \in Wallets |-> NoLimit]
  /\ admin = [p \in Admins |-> AdminIdle]
  /\ heard = [w \in Wallets |-> Values(NoLimit)]
  /\ unheard = {}

-----------------------------------------------------------------------------
Changing(p, w) == admin[p].w = w /\ admin[p].op \in {"set", "update"}

(* Up to the await of the read.  setLimits reads whatever row there is;    *)
(* updateLimits and removeLimits answer 404 without one.  An update gives  *)
(* Null for the value it leaves alone, a remove for both.                  *)
LimitRead(p, op, w, new) ==
  /\ op \in LimitOps /\ admin[p].pc = "idle"
  /\ op = "set" => Null \notin {new.daily, new.perTx}
  /\ op = "update" => HasLimits(limit[w]) /\ {new.daily, new.perTx} # {Null}
  /\ op = "remove" => HasLimits(limit[w]) /\ {new.daily, new.perTx} = {Null}
  /\ admin' = [admin EXCEPT ![p] = [AdminIdle EXCEPT !.op = op, !.pc = "write", !.w = w,
                                                     !.new = new, !.seen = Values(limit[w])]]
  /\ unheard' = unheard \cup {v \in {w} : op # "remove" /\ \E q \in Admins : Changing(q, v)}
  /\ UNCHANGED <<limit, heard>>

(* The next attempt of setLimits begins with its read.                     *)
LimitReread(p) ==
  /\ admin[p].pc = "read"
  /\ admin' = [admin EXCEPT ![p].pc = "write", ![p].seen = Values(limit[admin[p].w])]
  /\ UNCHANGED <<limit, heard, unheard>>

(* The value an update or upsert leaves in a column.                       *)
Written(old, new) == IF new = Null THEN old ELSE new

(* An upsert clears deletedAt, an update does not, a remove sets it.       *)
Stored(row, op, new) ==
  [daily   |-> Written(row.daily, new.daily),
   perTx   |-> Written(row.perTx, new.perTx),
   deleted |-> IF op = "update" THEN row.deleted ELSE op = "remove"]

(* retryWithBackoff after an attempt that threw.                           *)
Retry(r) ==
  IF r.try = LimitTries THEN AdminIdle
  ELSE [r EXCEPT !.try = @ + 1, !.pc = IF r.op = "set" THEN "read" ELSE "write"]

(* A call that has changed its wallet will announce it no more: it has     *)
(* ended, or it is a set whose next attempt reads what it has written.     *)
CutOff(p, r) == {v \in {admin[p].w} : r.done /\ r.op \in {"set", "update"}
                                        /\ (Retry(r) = AdminIdle \/ r.op = "set")}

(* The write commits.  The caller learns of it, or the answer is lost and  *)
(* counts as a failed attempt.                                             *)
LimitCommit(p) ==
  LET r == [admin[p] EXCEPT !.done = TRUE] IN
    /\ r.pc = "write"
    /\ limit' = [limit EXCEPT ![r.w] = Stored(@, r.op, r.new)]
    /\ \/ /\ admin' = [admin EXCEPT ![p] = [r EXCEPT !.pc = "emit"]]
          /\ UNCHANGED unheard
       \/ /\ "lost" \in LimitFaults
          /\ admin' = [admin EXCEPT ![p] = Retry(r)]
          /\ unheard' = unheard \cup CutOff(p, r)
    /\ UNCHANGED heard

(* The attempt fails before it has changed anything.                       *)
LimitError(p) ==
  /\ "error" \in LimitFaults /\ admin[p].pc \in {"read", "write"}
  /\ admin' = [admin EXCEPT ![p] = Retry(@)]
  /\ unheard' = unheard \cup CutOff(p, admin[p])
  /\ UNCHANGED <<limit, heard>>

(* limit.updated is emitted for a value that was given and differs from    *)
(* the one that was read.                                                  *)
Announced(old, new, seen) == IF new # Null /\ new # seen THEN new ELSE old

(* Mutation: limit.updated is emitted for the daily limit only.            *)
AfterWriteDailyOnly(view, new, seen) ==
  [view EXCEPT !.daily = Announced(@, new.daily, seen.daily)]

AfterWrite(view, new, seen) ==
  [daily |-> Announced(view.daily, new.daily, seen.daily),
   perTx |-> Announced(view.perTx, new.perTx, seen.perTx)]

(* The answer of the write is there: the events, and the call returns.     *)
LimitEmit(p) ==
  /\ admin[p].pc = "emit"
  /\ heard' = [heard EXCEPT ![admin[p].w] = AfterWrite(@, admin[p].new, admin[p].seen)]
  /\ admin' = [admin EXCEPT ![p] = AdminIdle]
  /\ UNCHANGED <<limit, unheard>>

(* The process dies under the call.                                        *)
LimitCrash(p) ==
  /\ "crash" \in LimitFaults /\ admin[p].pc # "idle"
  /\ admin' = [admin EXCEPT ![p] = AdminIdle]
  /\ unheard' = unheard \cup {v \in {admin[p].w} : admin[p].done /\ admin[p].op # "remove"}
  /\ UNCHANGED <<limit, heard>>

LimitsNext ==
  \E p \in Admins :
    \/ \E op \in LimitOps, w \in Wallets, new \in Pair : LimitRead(p, op, w, new)
    \/ LimitReread(p)
    \/ LimitCommit(p)
    \/ LimitError(p)
    \/ LimitEmit(p)
    \/ LimitCrash(p)

-----------------------------------------------------------------------------
(* Mutation: the daily cap compares the amount alone.                      *)
checkLimitsIgnoringUsage(lim, usage, amount) ==
  IF lim.daily # Null /\ lim.perTx >= 0 /\ amount > lim.perTx THEN "perTx"
  ELSE IF lim.daily > 0 /\ amount > lim.daily THEN "daily"
  ELSE "allowed"

(* checkLimits: no row allows all; a per-transaction cap of 0 blocks all;  *)
(* a daily limit of 0 is not enforced.                                     *)
checkLimits(lim, usage, amount) ==
  IF lim.daily # Null /\ lim.perTx >= 0 /\ amount > lim.perTx THEN "perTx"
  ELSE IF lim.daily > 0 /\ usage + amount > lim.daily THEN "daily"
  ELSE "allowed"

-----------------------------------------------------------------------------
(* Every limit in force and announced is one that a caller asked for, or   *)
(* none at all; retryWithBackoff makes at most LimitTries attempts.        *)
LimitsTypeOK ==
  /\ limit \in [Wallets -> LimitRow]
  /\ admin \in [Admins -> Admin]
  /\ heard \in [Wallets -> Pair]
  /\ unheard \subseteq Wallets

(* A listener that applies every limit.updated event knows the limits in   *)
(* force once no call is in flight, whatever failed attempts and lost      *)
(* answers were retried, except for a wallet whose changes overlapped,     *)
(* whose committed change ended (in a crash or in the last attempt) before *)
(* its events, or whose committed setLimits was retried.  So an update     *)
(* whose answer is lost is still announced: its diff is made against the   *)
(* row read before the first attempt.                                      *)
ListenersKnowTheLimits ==
  (\A p \in Admins : admin[p].pc = "idle") =>
    \A w \in Wallets \ unheard : heard[w] = Values(limit[w])

(* setLimits: "wrapped in a single Prisma transaction so a concurrent      *)
(* setLimits call for the same wallet can't interleave between the         *)
(* existence check and the upsert", so the row it replaces is the row it   *)
(* has read and compares with.                                             *)
SetReplacesWhatItRead ==
  [][\A p \in Admins :
       admin[p].op = "set" /\ admin[p].pc = "write" /\ admin'[p].pc = "emit"
         => admin[p].seen = Values(limit[admin[p].w])]_limitVars
=============================================================================
