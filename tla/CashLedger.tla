----------------------------- MODULE CashLedger -----------------------------
(***************************************************************************)
(* What both sides of the ledger promise about cash: payments of vendor    *)
(* bills and receipts of invoices are entries that are recorded once,      *)
(* reversed at most once and never change otherwise, and the balance of a  *)
(* document moves by exactly the entry that is recorded or reversed, in    *)
(* the same step.  There are no requests, locks, statuses or notes here;   *)
(* the services compute balances from what they have read and added up,    *)
(* Payables and Receivables show that this amounts to the same.            *)
(***************************************************************************)
EXTENDS Integers

CONSTANTS
  Docs,      \* bills or invoices
  Entries,   \* payments or receipts
  Users,     \* who reverses
  Cents,     \* amounts an entry can have
  None

VARIABLES
  balance,   \* balance[d]: cash received or paid on document d
  entries    \* entries[q]: [doc, amount, reversedBy]

NoEntry == [doc |-> None, amount |-> 0, reversedBy |-> None]

Init ==
  /\ balance = [d \in Docs |-> 0]
  /\ entries = [q \in Entries |-> NoEntry]

Record(q, d, a) ==
  /\ entries[q].doc = None
  /\ entries' = [entries EXCEPT ![q] = [doc |-> d, amount |-> a, reversedBy |-> None]]
  /\ balance' = [balance EXCEPT ![d] = @ + a]

Reverse(q, u) ==
  /\ entries[q].doc # None
  /\ entries[q].reversedBy = None
  /\ entries' = [entries EXCEPT ![q].reversedBy = u]
  /\ balance' = [balance EXCEPT ![entries[q].doc] = @ - entries[q].amount]

Next ==
  \E q \in Entries :
    \/ \E d \in Docs, a \in Cents : Record(q, d, a)
    \/ \E u \in Users : Reverse(q, u)

Spec == Init /\ [][Next]_<<balance, entries>>
=============================================================================
