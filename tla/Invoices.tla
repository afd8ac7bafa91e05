------------------------------ MODULE Invoices ------------------------------
(***************************************************************************)
(* InvoicesService (modules/invoices/invoices.service.ts): the life of an  *)
(* invoice and of the receipts recorded on it.  Receipts and their         *)
(* reversal lock the invoice row; update, issue and cancel read it, decide *)
(* and write it without a lock, waiting only for a lock another holds.     *)
(*                                                                         *)
(* The credit check of issue is an outcome of its own: it reads, and lets  *)
(* the request go on (CommitIssue) or ends it (Abort).                     *)
(***************************************************************************)
EXTENDS ReceivablesStore

(* ------------------------- create, generateFromJob ---------------------- *)

\* One INSERT: nothing is read that it depends on.
CreateInvoice(i, job, total) ==
  /\ invoices[i].status = "ABSENT"
  /\ invoices' = [invoices EXCEPT ![i] =
                    [status |-> "DRAFT", job |-> job, total |-> total, paid |-> 0]]
  /\ UNCHANGED <<receipts, notes, lock, req, stale>>

Billed(job) == \E i \in Invoices : invoices[i].job = job /\ invoices[i].status \notin {"ABSENT", "CANCELLED"}

\* The guard against billing a job twice, a read of its own.
BeginGenerate(p, job) ==
  /\ req[p].step = "idle"
  /\ ~ Billed(job)
  /\ Proceed(p, [Idle EXCEPT !.step = "generate", !.job = job])

CommitGenerate(p, i, total) ==
  /\ req[p].step = "generate"
  /\ invoices[i].status = "ABSENT"
  /\ invoices' = [invoices EXCEPT ![i] =
                    [status |-> "DRAFT", job |-> req[p].job, total |-> total, paid |-> 0]]
  /\ Finish(p)
  /\ UNCHANGED <<receipts, notes, stale>>

(* -------------------------------- update -------------------------------- *)

\* Reads the invoice; only a DRAFT goes on.  The new total is worked out here,
\* from the body and the row read.
BeginUpdate(p, i, job, total) ==
  /\ req[p].step = "idle"
  /\ invoices[i].status = "DRAFT"
  /\ Proceed(p, [Idle EXCEPT !.step = "edit", !.invoice = i, !.job = job, !.value = total,
                             !.row = invoices[i]])

\* Lines and columns are written; the status is not looked at again.
CommitUpdate(p) ==
  LET i == req[p].invoice
      job == IF req[p].job = None THEN invoices[i].job ELSE req[p].job
  IN /\ req[p].step = "edit"
     /\ Unlocked(i)
     /\ invoices' = [invoices EXCEPT ![i].job = job, ![i].total = req[p].value]
     /\ MarkStale(i, req[p].row = invoices[i])
     /\ Finish(p)
     /\ UNCHANGED <<receipts, notes>>

(* ----------------------------- issue, cancel ---------------------------- *)

\* Variant: issue does not ask the transition table.
BeginIssueUnasked(p, i) ==
  /\ req[p].step = "idle"
  /\ invoices[i].status # "ABSENT"
  /\ Proceed(p, [Idle EXCEPT !.step = "issue", !.invoice = i, !.row = invoices[i]])

BeginIssue(p, i) ==
  /\ req[p].step = "idle"
  /\ CanMove(InvoiceEdges, invoices[i].status, "ISSUED")
  /\ Proceed(p, [Idle EXCEPT !.step = "issue", !.invoice = i, !.row = invoices[i]])

CommitIssue(p) ==
  LET i == req[p].invoice
  IN /\ req[p].step = "issue"
     /\ Unlocked(i)
     /\ invoices' = [invoices EXCEPT ![i].status = "ISSUED"]
     /\ MarkStale(i, req[p].row = invoices[i])
     /\ Finish(p)
     /\ UNCHANGED <<receipts, notes>>

\* Variant: cancel relies on the transition table alone.
BeginCancelPaid(p, i) ==
  /\ req[p].step = "idle"
  /\ invoices[i].status # "ABSENT"
  /\ Proceed(p, [Idle EXCEPT !.step = "cancelCount", !.invoice = i, !.row = invoices[i]])

BeginCancel(p, i) ==
  /\ req[p].step = "idle"
  /\ invoices[i].status # "ABSENT"
  /\ invoices[i].paid = 0
  /\ Proceed(p, [Idle EXCEPT !.step = "cancelCount", !.invoice = i, !.row = invoices[i]])

\* Counts the live notes, then asks the transition table of the row it read.
CountNotes(p) ==
  /\ req[p].step = "cancelCount"
  /\ LiveNotes(req[p].invoice) = {}
  /\ CanMove(InvoiceEdges, req[p].row.status, "CANCELLED")
  /\ Proceed(p, [req[p] EXCEPT !.step = "cancel"])

CommitCancel(p) ==
  LET i == req[p].invoice
  IN /\ req[p].step = "cancel"
     /\ Unlocked(i)
     /\ invoices' = [invoices EXCEPT ![i].status = "CANCELLED"]
     /\ MarkStale(i, req[p].row = invoices[i] /\ LiveNotes(i) = {})
     /\ Finish(p)
     /\ UNCHANGED <<receipts, notes>>

(* ----------------------------- recordPayment ---------------------------- *)

\* The note net is read first, outside the lock.
BeginPay(p, i, quarters) ==
  /\ req[p].step = "idle"
  /\ invoices[i].status # "ABSENT"
  /\ Proceed(p, [Idle EXCEPT !.step = "payLock", !.invoice = i, !.value = quarters,
                             !.net = IssuedNoteNet(i)])

\* The row is locked, read and the amount checked against both reads.
LockForPay(p) ==
  LET i == req[p].invoice
  IN /\ req[p].step = "payLock"
     /\ invoices[i].status \in {"ISSUED", "PARTIALLY_PAID"}
     /\ PaymentAccepted(invoices[i].total + req[p].net, invoices[i].paid, req[p].value)
     /\ LockAndProceed(p, i, [req[p] EXCEPT !.step = "pay"])

CommitPay(p, q) ==
  LET r == req[p]
      newPaid == PaidAfter(r.row.paid, r.value)
      newStatus == StatusAfterPayment(r.row.total + r.net, newPaid)
  IN /\ r.step = "pay"
     /\ receipts[q].invoice = None
     /\ CanMove(InvoiceEdges, r.row.status, newStatus)
     /\ receipts' = [receipts EXCEPT ![q] =
                       [invoice |-> r.invoice, amount |-> Round2(r.value), reversedBy |-> None]]
     /\ invoices' = [invoices EXCEPT ![r.invoice].paid = newPaid,
                                     ![r.invoice].status = newStatus]
     /\ MarkStale(r.invoice, r.net = IssuedNoteNet(r.invoice))
     /\ Finish(p)
     /\ UNCHANGED notes

(* ---------------------------- reversePayment ---------------------------- *)

\* Finds the receipt's invoice; nothing is locked yet.
LocateReceipt(p, q) ==
  /\ req[p].step = "idle"
  /\ receipts[q].invoice # None
  /\ Proceed(p, [Idle EXCEPT !.step = "located", !.receipt = q, !.invoice = receipts[q].invoice])

LockForReversal(p) ==
  /\ req[p].step = "located"
  /\ LockAndProceed(p, req[p].invoice, [req[p] EXCEPT !.step = "reverse"])

\* Variant: reversedAt is not looked at again under the lock.
SumRemainingUnread(p) ==
  LET r == req[p]
  IN /\ r.step = "reverse"
     /\ Proceed(p, [r EXCEPT !.step = "reverseWrite",
                             !.value = SumOf(receipts, LiveReceipts(r.invoice) \ {r.receipt}),
                             !.net = IssuedNoteNet(r.invoice)])

\* Re-reads the receipt under the lock, flags it (visible to this transaction
\* only), adds up the receipts that remain and reads the note net.
SumRemaining(p) ==
  LET r == req[p]
  IN /\ r.step = "reverse"
     /\ receipts[r.receipt].reversedBy = None
     /\ Proceed(p, [r EXCEPT !.step = "reverseWrite",
                             !.value = SumOf(receipts, LiveReceipts(r.invoice) \ {r.receipt}),
                             !.net = IssuedNoteNet(r.invoice)])

CommitReversal(p) ==
  LET r == req[p]
      newStatus == StatusAfterReversal("ISSUED", r.row.total + r.net, r.value)
  IN /\ r.step = "reverseWrite"
     /\ CanMove(InvoiceReversalEdges, r.row.status, newStatus)
     /\ receipts' = [receipts EXCEPT ![r.receipt].reversedBy = p]
     /\ invoices' = [invoices EXCEPT ![r.invoice].paid = r.value,
                                     ![r.invoice].status = newStatus]
     /\ MarkStale(r.invoice, r.net = IssuedNoteNet(r.invoice))
     /\ Finish(p)
     /\ UNCHANGED notes

(* ------------------------------ next steps ------------------------------ *)

BeginOnInvoice(p) ==
  \/ \E i \in Invoices, j \in Jobs \cup {None}, t \in InvoiceTotals :
        CreateInvoice(i, j, t) \/ BeginUpdate(p, i, j, t)
  \/ \E j \in Jobs : BeginGenerate(p, j)
  \/ \E i \in Invoices : BeginIssue(p, i) \/ BeginCancel(p, i)
  \/ \E i \in Invoices, a \in Amounts : BeginPay(p, i, a)
  \/ \E q \in Receipts : LocateReceipt(p, q)

AdvanceOnInvoice(p) ==
  \/ \E i \in Invoices, t \in InvoiceTotals : CommitGenerate(p, i, t)
  \/ CommitUpdate(p)
  \/ CommitIssue(p)
  \/ CountNotes(p)
  \/ CommitCancel(p)
  \/ LockForPay(p)
  \/ \E q \in Receipts : CommitPay(p, q)
  \/ LockForReversal(p)
  \/ SumRemaining(p)
  \/ CommitReversal(p)
=============================================================================
