----------------------------- MODULE Receivables ----------------------------
(***************************************************************************)
(* Accounts receivable: invoices, receipts and credit or debit notes under *)
(* any number of concurrent requests (Invoices and Notes over one store).  *)
(***************************************************************************)
EXTENDS Invoices, Notes

Init == StoreInit

Begin(p) == BeginOnInvoice(p) \/ BeginOnNote(p)
Advance(p) == AdvanceOnInvoice(p) \/ AdvanceOnNote(p)

Next == \E p \in Procs : Begin(p) \/ Advance(p) \/ Abort(p)

Spec == Init /\ [][Next]_vars

(* ------------------------------ properties ------------------------------ *)

\* The stored running total of an invoice is the sum of its receipts that are
\* not reversed, whatever receipts, reversals, edits, issues and cancellations
\* run concurrently (the lost update the comment of recordPayment recalls).
PaidMatchesLedger == \A i \in Invoices : invoices[i].paid = SumOf(receipts, LiveReceipts(i))

\* An invoice has money received exactly in the statuses that say so, as long
\* as every write of it was based on what still held.
StatusMatchesCash ==
  \A i \in Invoices \ stale :
    /\ invoices[i].status \notin {"PARTIALLY_PAID", "PAID"} => invoices[i].paid = 0
    /\ invoices[i].status = "PAID" => invoices[i].paid > 0

Rank ==
  [ABSENT |-> 0, DRAFT |-> 1, ISSUED |-> 2, PARTIALLY_PAID |-> 3, PAID |-> 4, CANCELLED |-> 5]

Reversed(q) == receipts[q].reversedBy = None /\ receipts'[q].reversedBy # None

\* Receipt reversal is the only operation that moves an invoice backwards, as
\* long as every write of it was based on what still held.
BackwardOnlyByReversal ==
  [][\A i \in Invoices \ stale' : Rank[invoices'[i].status] < Rank[invoices[i].status] =>
       \E q \in LiveReceipts(i) : Reversed(q)]_vars

\* What has been credited and received on invoice i fits in its total.
CreditsFit(i) == invoices[i].paid + IssuedCreditTotal(i, None) <= invoices[i].total

BecomesIssuedCredit(n) ==
  notes[n].type = "CREDIT" /\ notes[n].status # "ISSUED" /\ notes'[n].status = "ISSUED"

\* Two credit notes issued at the same time, or a credit note and a receipt,
\* never take more off an invoice than its unpaid remainder: the step that
\* issues a credit note leaves credits and receipts within the total, as long
\* as every note of the invoice was written from a read that still held.
CreditWithinUnpaid ==
  [][\A n \in Notes : BecomesIssuedCredit(n) =>
       LET i == notes[n].invoice
       IN CreditsFit(i)' \/ \E m \in stale' \cap Notes : notes[m].invoice = i]_vars

\* A receipt never takes an invoice past what is collectible at the moment it
\* is recorded, provided the notes did not change since they were read.
ReceiptWithinCollectible ==
  [][\A i \in Invoices \ stale' : invoices'[i].paid > invoices[i].paid =>
       invoices'[i].paid <= Collectible(i)]_vars

(* ------------- what the code's comments promise and do not get ---------- *)

\* "a credited invoice cannot be over-collected" (applyPayment): the note net
\* is read before the lock, and a credit note issued in between is not seen.
NeverOverCollected ==
  [][\A i \in Invoices : invoices'[i].paid > invoices[i].paid =>
       invoices'[i].paid <= Collectible(i)]_vars

(* ------------------------------ refinement ------------------------------ *)

\* The ledger this service keeps: the stored running totals and the receipts.
Balances == [i \in Invoices |-> invoices[i].paid]
Trail ==
  [q \in Receipts |-> [doc |-> receipts[q].invoice, amount |-> receipts[q].amount,
                     reversedBy |-> receipts[q].reversedBy]]

Ledger ==
  INSTANCE CashLedger WITH
    Docs <- Invoices, Entries <- Receipts, Users <- Procs, Cents <- {Round2(a) : a \in Amounts},
    balance <- Balances, entries <- Trail

\* Whatever else goes stale, the cash does not: every step records one receipt,
\* reverses one, or leaves receipts and running totals alone.
KeepsLedger == Ledger!Spec

(* -------------------------- inductive invariant ------------------------- *)

Exists(i) == i \in Invoices /\ invoices[i].status # "ABSENT"

\* A request that holds an invoice's lock has the current row in hand.
RowFresh(p) ==
  req[p].step \in LockedSteps =>
    /\ Exists(req[p].invoice)
    /\ lock[req[p].invoice] = p
    /\ req[p].row = invoices[req[p].invoice]

\* What a request on an invoice has checked or added up, and still relies on.
InvoicePromises(p) ==
  LET r == req[p]
  IN /\ r.step = "generate" => r.job \in Jobs
     /\ r.step \in {"edit", "issue", "cancelCount", "cancel", "payLock"} => Exists(r.invoice)
     /\ r.step = "edit" => r.value \in Nat
     /\ r.step \in {"payLock", "pay"} => r.value \in Amounts
     /\ r.step = "issue" => r.row.status \in {"DRAFT", "ISSUED"}
     /\ r.step \in {"cancelCount", "cancel"} => r.row.paid = 0
     /\ r.step = "pay" =>
          /\ r.row.status \in {"ISSUED", "PARTIALLY_PAID"}
          /\ PaymentAccepted(r.row.total + r.net, r.row.paid, r.value)
     /\ r.step \in {"located", "reverse", "reverseWrite"} =>
          r.receipt \in Receipts /\ Exists(r.invoice) /\ receipts[r.receipt].invoice = r.invoice
     /\ r.step = "reverseWrite" =>
          /\ receipts[r.receipt].reversedBy = None
          /\ r.value = SumOf(receipts, LiveReceipts(r.invoice) \ {r.receipt})

\* No note of invoice i was written from a read that no longer held.
NotesHeld(i) == \A m \in Notes \cap stale : notes[m].invoice # i

\* What a request on a note has checked, and still relies on: a note keeps its
\* type and its invoice, and a credit found to fit still fits.
NotePromises(p) ==
  LET r == req[p]
  IN /\ r.step = "noteCreate" =>
          /\ r.noteRow.status = "DRAFT" /\ r.noteRow.invoice = r.invoice
          /\ r.invoice # None => Exists(r.invoice)
          /\ r.noteRow.type = "CREDIT" => r.invoice # None
     /\ r.step = "noteEdit" => r.noteRow.status = "DRAFT"
     /\ r.step \in {"noteEdit", "noteIssue", "noteIssueWrite", "noteCancel"} =>
          /\ r.note \in Notes
          /\ notes[r.note].status # "ABSENT"
          /\ r.noteRow.type = notes[r.note].type
          /\ r.noteRow.invoice = notes[r.note].invoice
     /\ r.step \in {"noteIssue", "noteIssueWrite"} => r.invoice = r.noteRow.invoice
     /\ r.step = "noteIssueWrite" =>
          /\ Guarded(r)
          /\ NotesHeld(r.invoice) =>
               WithinCreditable(r.noteRow.amount, r.row.total,
                                IssuedCreditTotal(r.invoice, r.note), r.row.paid)

\* Receipts belong to invoices that exist.
ReceiptsHaveInvoices ==
  \A q \in Receipts : receipts[q].invoice # None => Exists(receipts[q].invoice)

\* So do notes, credit notes always; a note that does not exist says nothing.
NotesHaveInvoices ==
  \A n \in Notes :
    /\ notes[n].status = "ABSENT" => notes[n] = NoNote
    /\ notes[n].invoice # None => Exists(notes[n].invoice)
    /\ notes[n].type = "CREDIT" => notes[n].invoice # None

\* The inductive invariant: the tables are right, and every request between two
\* of its steps can rely on what it has read.
IInv ==
  /\ TypeOK
  /\ ReceiptsHaveInvoices
  /\ NotesHaveInvoices
  /\ PaidMatchesLedger
  /\ StatusMatchesCash
  /\ \A p \in Procs : RowFresh(p) /\ InvoicePromises(p) /\ NotePromises(p)
=============================================================================
