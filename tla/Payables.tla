------------------------------ MODULE Payables ------------------------------
(***************************************************************************)
(* Accounts payable: PayablesService (modules/payables/payables.service.ts)*)
(* over the vendor_bills and vendor_payments tables.                       *)
(*                                                                         *)
(* A process is one HTTP request in flight; many run at once, on one or    *)
(* several servers.  Every database round trip after which another request *)
(* can change what was read is an action of its own, and req[p] carries    *)
(* what the request has read so far.  The database runs at READ COMMITTED: *)
(* a statement sees what is committed when it runs, SELECT ... FOR UPDATE  *)
(* and UPDATE wait for the row's lock, and everything a transaction writes *)
(* becomes visible at its commit, so one action writes it all and releases *)
(* the lock.  Abort is the rejection, error, timeout or crash that ends a  *)
(* request between two of its steps: nothing of its transaction remains.   *)
(*                                                                         *)
(* A bill always has lines (the DTOs require one), so they are represented *)
(* by the total they add up to.  Vendors and jobs a request names exist.   *)
(***************************************************************************)
EXTENDS StatusRules

CONSTANTS
  Procs,      \* requests that can be in flight together
  Bills,      \* ids of vendor_bills rows
  Payments,   \* ids of vendor_payments rows
  Vendors,
  Numbers,    \* the vendors' own invoice numbers
  Totals,     \* totals a bill's lines can add up to, in cents
  Amounts,    \* amounts a payment request can carry, in quarter cents
  None        \* SQL NULL, "no row", "not supplied"

ASSUME NoneAssumption ==
  None \notin Procs \cup Bills \cup Payments \cup Vendors \cup Numbers \cup Nat
ASSUME MoneyAssumption == Totals \subseteq Nat /\ Amounts \subseteq Nat
ASSUME FinitenessAssumption == IsFiniteSet(Payments)

VARIABLES
  bills,      \* vendor_bills
  payments,   \* vendor_payments
  lock,       \* lock[b]: the request holding row b's lock, or None
  req,        \* req[p]: where request p is and what it has read
  lateEdits   \* history: bills an edit reached after they had left DRAFT

vars == <<bills, payments, lock, req, lateEdits>>

(* ------------------------------- the tables ----------------------------- *)

BillRow ==
  [status : VendorBillStatus \cup {"ABSENT"},
   vendor : Vendors \cup {None},
   number : Numbers \cup {None},
   total  : Nat,
   paid   : Nat]

NoBill == [status |-> "ABSENT", vendor |-> None, number |-> None, total |-> 0, paid |-> 0]

\* A payment row exists when it names a bill; reversedBy stands for the three
\* columns reversedAt, reversedById and reversalReason, written together.
PaymentRow ==
  [bill : Bills \cup {None}, amount : Nat, reversedBy : Procs \cup {None}]

NoPayment == [bill |-> None, amount |-> 0, reversedBy |-> None]

Live(q, b) == payments[q].bill = b /\ payments[q].reversedBy = None
LivePayments(b) == {q \in Payments : Live(q, b)}

\* assertNoDuplicate: no other bill that is not VOID has this vendor and number.
NoDuplicate(b, vendor, number) ==
  \A c \in Bills \ {b} :
    bills[c].status \in {"ABSENT", "VOID"} \/ bills[c].vendor # vendor \/ bills[c].number # number

\* Variant: no unique index behind the duplicate checks.
NoIndex(b, vendor, number, status) == TRUE

\* The partial unique index on (vendorId, vendorInvoiceNo) WHERE status <> 'VOID',
\* seen by a write that gives row b this vendor, number and status.
IndexAllows(b, vendor, number, status) == status = "VOID" \/ NoDuplicate(b, vendor, number)

(* ------------------------------- requests ------------------------------- *)

\* Steps of a request that hold a row lock ...
LockedSteps == {"approve", "approveWrite", "void", "voidWrite", "pay",
                "reverse", "reverseWrite"}
\* ... and those that do not.
UnlockedSteps == {"idle", "create", "editCheck", "editWrite", "located"}

Request ==
  [step    : LockedSteps \cup UnlockedSteps,
   bill    : Bills \cup {None},
   payment : Payments \cup {None},
   vendor  : Vendors \cup {None},
   number  : Numbers \cup {None},   \* number the body supplies, if any
   value   : Nat \cup {None},       \* total, amount or sum, if any
   row     : BillRow]               \* the bill as this request read it

Idle == [step |-> "idle", bill |-> None, payment |-> None, vendor |-> None,
         number |-> None, value |-> None, row |-> NoBill]

\* Variant: SELECT without FOR UPDATE.
NeverLocked(b) == TRUE

Unlocked(b) == lock[b] = None

\* SELECT ... FOR UPDATE of bill b by p, which is then at step s.
LockAndRead(p, b, s, payment, value) ==
  /\ Unlocked(b)
  /\ lock' = [lock EXCEPT ![b] = p]
  /\ req' = [req EXCEPT ![p] = [Idle EXCEPT !.step = s, !.bill = b, !.row = bills[b],
                                            !.payment = payment, !.value = value]]

Goto(p, s) == req' = [req EXCEPT ![p].step = s]

\* Commit or rollback: the request is over and its lock, if any, is released.
Finish(p) ==
  /\ req' = [req EXCEPT ![p] = Idle]
  /\ lock' = [b \in Bills |-> IF lock[b] = p THEN None ELSE lock[b]]

\* Variant: a failed request leaves its transaction open.
AbortHoldingLock(p) ==
  /\ req[p].step # "idle"
  /\ req' = [req EXCEPT ![p] = Idle]
  /\ UNCHANGED <<bills, payments, lock, lateEdits>>

Abort(p) ==
  /\ req[p].step # "idle"
  /\ Finish(p)
  /\ UNCHANGED <<bills, payments, lateEdits>>

(* -------------------------------- create -------------------------------- *)

\* The duplicate check, a read of its own, before numbering and insert.
BeginCreate(p, vendor, number, total) ==
  /\ req[p].step = "idle"
  /\ NoDuplicate(None, vendor, number)
  /\ req' = [req EXCEPT ![p] = [Idle EXCEPT !.step = "create", !.vendor = vendor,
                                            !.number = number, !.value = total]]
  /\ UNCHANGED <<bills, payments, lock, lateEdits>>

\* The INSERT, which the index can still refuse (Abort).
CommitCreate(p, b) ==
  /\ req[p].step = "create"
  /\ bills[b].status = "ABSENT"
  /\ IndexAllows(b, req[p].vendor, req[p].number, "DRAFT")
  /\ bills' = [bills EXCEPT ![b] =
                 [status |-> "DRAFT", vendor |-> req[p].vendor, number |-> req[p].number,
                  total |-> req[p].value, paid |-> 0]]
  /\ Finish(p)
  /\ UNCHANGED <<payments, lateEdits>>

(* -------------------------------- update -------------------------------- *)

\* Reads the bill without a lock; only a DRAFT goes on.  A body may leave the
\* number or the lines (hence the total) out.
BeginUpdate(p, b, number, total) ==
  /\ req[p].step = "idle"
  /\ bills[b].status = "DRAFT"
  /\ req' = [req EXCEPT ![p] =
               [Idle EXCEPT !.step = IF number \in {None, bills[b].number}
                                     THEN "editWrite" ELSE "editCheck",
                            !.bill = b, !.vendor = bills[b].vendor,
                            !.number = number, !.value = total]]
  /\ UNCHANGED <<bills, payments, lock, lateEdits>>

CheckUpdate(p) ==
  /\ req[p].step = "editCheck"
  /\ NoDuplicate(req[p].bill, req[p].vendor, req[p].number)
  /\ Goto(p, "editWrite")
  /\ UNCHANGED <<bills, payments, lock, lateEdits>>

\* The transaction: lines replaced and the columns the body supplied written.
\* It waits for the row but neither re-reads nor re-checks the status.
CommitUpdate(p) ==
  LET b == req[p].bill
      number == IF req[p].number = None THEN bills[b].number ELSE req[p].number
      total == IF req[p].value = None THEN bills[b].total ELSE req[p].value
  IN /\ req[p].step = "editWrite"
     /\ Unlocked(b)
     /\ IndexAllows(b, bills[b].vendor, number, bills[b].status)
     /\ bills' = [bills EXCEPT ![b].number = number, ![b].total = total]
     /\ lateEdits' = IF bills[b].status = "DRAFT" THEN lateEdits ELSE lateEdits \cup {b}
     /\ Finish(p)
     /\ UNCHANGED payments

(* -------------------------------- approve ------------------------------- *)

\* Variant: approve does not ask the transition table.
BeginApproveUnasked(p, b) ==
  /\ req[p].step = "idle"
  /\ bills[b].status # "ABSENT"
  /\ LockAndRead(p, b, "approve", None, None)
  /\ UNCHANGED <<bills, payments, lateEdits>>

BeginApprove(p, b) ==
  /\ req[p].step = "idle"
  /\ CanMove(VendorBillEdges, bills[b].status, "APPROVED")
  /\ LockAndRead(p, b, "approve", None, None)
  /\ UNCHANGED <<bills, payments, lateEdits>>

\* Duplicate control again, inside the transaction.
CheckApprove(p) ==
  /\ req[p].step = "approve"
  /\ NoDuplicate(req[p].bill, req[p].row.vendor, req[p].row.number)
  /\ Goto(p, "approveWrite")
  /\ UNCHANGED <<bills, payments, lock, lateEdits>>

CommitApprove(p) ==
  /\ req[p].step = "approveWrite"
  /\ bills' = [bills EXCEPT ![req[p].bill].status = "APPROVED"]
  /\ Finish(p)
  /\ UNCHANGED <<payments, lateEdits>>

(* --------------------------------- void --------------------------------- *)

BeginVoid(p, b) ==
  /\ req[p].step = "idle"
  /\ bills[b].status # "ABSENT"
  /\ LockAndRead(p, b, "void", None, None)
  /\ UNCHANGED <<bills, payments, lateEdits>>

\* Variant: void relies on the transition table and does not count payments.
CheckVoidUncounted(p) ==
  /\ req[p].step = "void"
  /\ CanMove(VendorBillEdges, req[p].row.status, "VOID")
  /\ Goto(p, "voidWrite")
  /\ UNCHANGED <<bills, payments, lock, lateEdits>>

\* Counts the bill's payments that are not reversed, then asks the table.
CheckVoid(p) ==
  /\ req[p].step = "void"
  /\ LivePayments(req[p].bill) = {}
  /\ CanMove(VendorBillEdges, req[p].row.status, "VOID")
  /\ Goto(p, "voidWrite")
  /\ UNCHANGED <<bills, payments, lock, lateEdits>>

CommitVoid(p) ==
  /\ req[p].step = "voidWrite"
  /\ bills' = [bills EXCEPT ![req[p].bill].status = "VOID"]
  /\ Finish(p)
  /\ UNCHANGED <<payments, lateEdits>>

(* ----------------------------- recordPayment ---------------------------- *)

Payable(row) == row.status \in {"APPROVED", "PARTIALLY_PAID"}

BeginPay(p, b, quarters) ==
  /\ req[p].step = "idle"
  /\ Payable(bills[b])
  /\ PaymentAccepted(bills[b].total, bills[b].paid, quarters)
  /\ LockAndRead(p, b, "pay", None, quarters)
  /\ UNCHANGED <<bills, payments, lateEdits>>

\* Inserts the payment (rounded to its column) and writes the running total
\* and the derived status, all from the row as it was read.
CommitPay(p, q) ==
  LET row == req[p].row
      newPaid == PaidAfter(row.paid, req[p].value)
      newStatus == StatusAfterPayment(row.total, newPaid)
  IN /\ req[p].step = "pay"
     /\ payments[q].bill = None
     /\ CanMove(VendorBillEdges, row.status, newStatus)
     /\ payments' = [payments EXCEPT ![q] =
                       [bill |-> req[p].bill, amount |-> Round2(req[p].value),
                        reversedBy |-> None]]
     /\ bills' = [bills EXCEPT ![req[p].bill].paid = newPaid,
                               ![req[p].bill].status = newStatus]
     /\ Finish(p)
     /\ UNCHANGED lateEdits

(* ---------------------------- reversePayment ---------------------------- *)

\* Finds the payment's bill; nothing is locked yet.
LocatePayment(p, q) ==
  /\ req[p].step = "idle"
  /\ payments[q].bill # None
  /\ req' = [req EXCEPT ![p] = [Idle EXCEPT !.step = "located", !.payment = q,
                                            !.bill = payments[q].bill]]
  /\ UNCHANGED <<bills, payments, lock, lateEdits>>

LockForReversal(p) ==
  /\ req[p].step = "located"
  /\ LockAndRead(p, req[p].bill, "reverse", req[p].payment, None)
  /\ UNCHANGED <<bills, payments, lateEdits>>

\* Variant: reversedAt is not looked at again under the lock.
SumRemainingUnread(p) ==
  LET q == req[p].payment
  IN /\ req[p].step = "reverse"
     /\ req' = [req EXCEPT ![p].step = "reverseWrite",
                           ![p].value = SumOf(payments, LivePayments(req[p].bill) \ {q})]
     /\ UNCHANGED <<bills, payments, lock, lateEdits>>

\* Re-reads the payment under the lock, flags it (visible to this transaction
\* only) and adds up the payments that remain.
SumRemaining(p) ==
  LET q == req[p].payment
  IN /\ req[p].step = "reverse"
     /\ payments[q].reversedBy = None
     /\ req' = [req EXCEPT ![p].step = "reverseWrite",
                           ![p].value = SumOf(payments, LivePayments(req[p].bill) \ {q})]
     /\ UNCHANGED <<bills, payments, lock, lateEdits>>

CommitReversal(p) ==
  LET row == req[p].row
      newStatus == StatusAfterReversal("APPROVED", row.total, req[p].value)
  IN /\ req[p].step = "reverseWrite"
     /\ CanMove(VendorBillReversalEdges, row.status, newStatus)
     /\ payments' = [payments EXCEPT ![req[p].payment].reversedBy = p]
     /\ bills' = [bills EXCEPT ![req[p].bill].paid = req[p].value,
                               ![req[p].bill].status = newStatus]
     /\ Finish(p)
     /\ UNCHANGED lateEdits

(* ----------------------------- specification ---------------------------- *)

Init ==
  /\ bills = [b \in Bills |-> NoBill]
  /\ payments = [q \in Payments |-> NoPayment]
  /\ lock = [b \in Bills |-> None]
  /\ req = [p \in Procs |-> Idle]
  /\ lateEdits = {}

\* A new request is taken up.
Begin(p) ==
  \/ \E v \in Vendors, n \in Numbers, t \in Totals : BeginCreate(p, v, n, t)
  \/ \E b \in Bills, n \in Numbers \cup {None}, t \in Totals \cup {None} :
        BeginUpdate(p, b, n, t)
  \/ \E b \in Bills : BeginApprove(p, b) \/ BeginVoid(p, b)
  \/ \E b \in Bills, a \in Amounts : BeginPay(p, b, a)
  \/ \E q \in Payments : LocatePayment(p, q)

\* A request in flight takes its next step.
Advance(p) ==
  \/ \E b \in Bills : CommitCreate(p, b)
  \/ CheckUpdate(p)
  \/ CommitUpdate(p)
  \/ CheckApprove(p)
  \/ CommitApprove(p)
  \/ CheckVoid(p)
  \/ CommitVoid(p)
  \/ \E q \in Payments : CommitPay(p, q)
  \/ LockForReversal(p)
  \/ SumRemaining(p)
  \/ CommitReversal(p)

Next == \E p \in Procs : Begin(p) \/ Advance(p) \/ Abort(p)

Spec == Init /\ [][Next]_vars

\* A request in flight takes its next step or is ended by its rejection, by the
\* transaction timeout or by the server going down: it never hangs for ever.
\* A new request need never arrive.
Fairness == \A p \in Procs : WF_vars(Advance(p) \/ Abort(p))

FairSpec == Spec /\ Fairness

(* ------------------------------ properties ------------------------------ *)

TypeOK ==
  /\ bills \in [Bills -> BillRow]
  /\ payments \in [Payments -> PaymentRow]
  /\ lock \in [Bills -> Procs \cup {None}]
  /\ req \in [Procs -> Request]
  /\ lateEdits \subseteq Bills

\* The stored running total of a bill is the sum of its payments that are not
\* reversed, whatever payments and reversals ran concurrently (the lost update
\* that the comments of reversePayment recall).
PaidMatchesLedger == \A b \in Bills : bills[b].paid = SumOf(payments, LivePayments(b))

\* Only a posted bill carries live payments: voiding never strands cash, even
\* when a payment races the void's count.
CashOnPostedBillsOnly ==
  \A b \in Bills : bills[b].status \in {"ABSENT", "DRAFT", "VOID"} => LivePayments(b) = {}

\* Two bills that are not VOID never record the same invoice of one vendor,
\* although create, update and approve check with a read that goes stale.
LiveNumbersUnique ==
  \A b, c \in Bills :
    /\ b # c
    /\ bills[b].status \notin {"ABSENT", "VOID"}
    /\ bills[c].status \notin {"ABSENT", "VOID"}
    => <<bills[b].vendor, bills[b].number>> # <<bills[c].vendor, bills[c].number>>

\* The status a bill shows is the one its money implies and it is never
\* overpaid, as long as no edit reached it after it left DRAFT.
StatusMatchesMoney ==
  \A b \in Bills \ lateEdits :
    /\ bills[b].paid <= bills[b].total
    /\ bills[b].status = "PAID" => bills[b].paid = bills[b].total
    /\ bills[b].status = "PARTIALLY_PAID" => bills[b].paid < bills[b].total
    /\ bills[b].status \notin {"PARTIALLY_PAID", "PAID"} => bills[b].paid = 0

Rank ==
  [ABSENT |-> 0, DRAFT |-> 1, APPROVED |-> 2, PARTIALLY_PAID |-> 3, PAID |-> 4, VOID |-> 5]

\* Payment reversal is the only operation that moves a bill backwards: no
\* approval or payment that read an older status can overwrite a newer one.
BackwardOnlyByReversal ==
  [][\A b \in Bills : Rank[bills'[b].status] < Rank[bills[b].status] =>
       \E q \in LivePayments(b) : payments'[q].reversedBy # None]_vars

\* The cash trail: a recorded payment keeps its bill and its amount, and who
\* reversed it is recorded once, even when two reversals of it race.
CashTrailKept ==
  [][\A q \in Payments : payments[q].bill # None =>
       /\ payments'[q].bill = payments[q].bill
       /\ payments'[q].amount = payments[q].amount
       /\ payments[q].reversedBy # None =>
            payments'[q].reversedBy = payments[q].reversedBy]_vars

\* No row stays locked for ever: each transaction takes a single row lock, so
\* no circle of requests can wait for one another.
LocksReleased == \A b \in Bills : []<>Unlocked(b)

(* ------------------------------ refinement ------------------------------ *)

\* The ledger this service keeps: the stored running totals and the payments.
Balances == [b \in Bills |-> bills[b].paid]
Trail ==
  [q \in Payments |-> [doc |-> payments[q].bill, amount |-> payments[q].amount,
                     reversedBy |-> payments[q].reversedBy]]

Ledger ==
  INSTANCE CashLedger WITH
    Docs <- Bills, Entries <- Payments, Users <- Procs, Cents <- {Round2(a) : a \in Amounts},
    balance <- Balances, entries <- Trail

\* Locks, re-reads and recomputed sums come to what a ledger promises: every step
\* records one payment, reverses one, or leaves payments and totals alone.
KeepsLedger == Ledger!Spec

(* -------------------------- inductive invariant ------------------------- *)

\* A request that holds a lock has the current row in hand.
RowFresh(p) ==
  req[p].step \in LockedSteps =>
    /\ req[p].bill \in Bills
    /\ lock[req[p].bill] = p
    /\ req[p].row = bills[req[p].bill]
    /\ req[p].row.status # "ABSENT"

\* What a request has checked or added up, and still relies on.
Promises(p) ==
  LET r == req[p]
  IN /\ r.step = "create" => r.vendor \in Vendors /\ r.number \in Numbers /\ r.value \in Nat
     /\ r.step \in {"editCheck", "editWrite"} =>
          r.bill \in Bills /\ bills[r.bill].status # "ABSENT"
     /\ r.step \in {"approve", "approveWrite"} => r.row.status \in {"DRAFT", "APPROVED"}
     /\ r.step = "voidWrite" =>
          r.row.status \in {"DRAFT", "APPROVED", "VOID"} /\ LivePayments(r.bill) = {}
     /\ r.step = "pay" =>
          Payable(r.row) /\ r.value \in Amounts /\ PaymentAccepted(r.row.total, r.row.paid, r.value)
     /\ r.step \in {"located", "reverse", "reverseWrite"} =>
          r.payment \in Payments /\ r.bill \in Bills /\ payments[r.payment].bill = r.bill
     /\ r.step = "reverseWrite" =>
          /\ payments[r.payment].reversedBy = None
          /\ r.value = SumOf(payments, LivePayments(r.bill) \ {r.payment})

\* Payments belong to bills that exist.
PaymentsHaveBills ==
  \A q \in Payments : payments[q].bill # None => bills[payments[q].bill].status # "ABSENT"

TablesInv ==
  /\ PaymentsHaveBills
  /\ PaidMatchesLedger
  /\ CashOnPostedBillsOnly
  /\ LiveNumbersUnique
  /\ StatusMatchesMoney

\* The inductive invariant: the tables are right, and every request between two
\* of its steps can rely on what it has read under its lock.
IInv == TypeOK /\ TablesInv /\ \A p \in Procs : RowFresh(p) /\ Promises(p)
=============================================================================
