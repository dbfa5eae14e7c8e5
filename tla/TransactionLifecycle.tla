------------------------ MODULE TransactionLifecycle ------------------------
(***************************************************************************)
(* What the transactions module keeps of ALLOWED_TRANSITIONS when calls    *)
(* overlap: a transaction is created PENDING, and every later status is    *)
(* one that the graph allows from a status the transaction has had.        *)
(***************************************************************************)
EXTENDS TransactionStatus

CONSTANT Tx

VARIABLES
  status, \* "NONE" before the transaction exists
  past    \* statuses it has had

Init == /\ status = [t \in Tx |-> "NONE"]
        /\ past = [t \in Tx |-> {}]

Enter(t, to) == /\ status' = [status EXCEPT ![t] = to]
                /\ past' = [past EXCEPT ![t] = @ \cup {to}]

Create(t) == status[t] = "NONE" /\ Enter(t, "PENDING")

Move(t, to) == /\ \E from \in past[t] : canTransitionTransactionStatus(from, to)
               /\ Enter(t, to)

Next == \E t \in Tx : Create(t) \/ \E to \in Status : Move(t, to)

Spec == Init /\ [][Next]_<<status, past>>
=============================================================================
