------------------------------- MODULE Notes --------------------------------
(***************************************************************************)
(* CreditDebitNotesService (modules/credit-debit-notes): the life of a     *)
(* credit or debit note.  Issuing a credit note locks its invoice while it *)
(* checks that the credit fits; nothing else here locks anything, and the  *)
(* note itself is always written from an unlocked read.                    *)
(***************************************************************************)
EXTENDS ReceivablesStore

\* Reads the invoice, refuses a cancelled one, and an impossible credit early
\* (the two reads of that check may be of different moments; a draft can be
\* given any total later anyway).  Only a debit note may have no invoice.
BeginCreateNote(p, i, type, total) ==
  /\ req[p].step = "idle"
  /\ i = None => type = "DEBIT"
  /\ i # None => invoices[i].status \notin {"ABSENT", "CANCELLED"}
  /\ type = "CREDIT" =>
       WithinCreditable(total, invoices[i].total, IssuedCreditTotal(i, None), invoices[i].paid)
  /\ Proceed(p, [Idle EXCEPT !.step = "noteCreate", !.invoice = i,
                             !.noteRow = [status |-> "DRAFT", type |-> type,
                                          invoice |-> i, amount |-> total]])

\* The INSERT: its foreign key waits for a FOR UPDATE lock on the invoice.
CommitCreateNote(p, n) ==
  LET i == req[p].invoice
  IN /\ req[p].step = "noteCreate"
     /\ notes[n].status = "ABSENT"
     /\ i # None => Unlocked(i)
     /\ notes' = [notes EXCEPT ![n] = req[p].noteRow]
     /\ MarkStale(n, i # None => invoices[i].status # "CANCELLED")
     /\ Finish(p)
     /\ UNCHANGED <<invoices, receipts>>

\* Reads the note; only a DRAFT goes on.
BeginUpdateNote(p, n, total) ==
  /\ req[p].step = "idle"
  /\ notes[n].status = "DRAFT"
  /\ Proceed(p, [Idle EXCEPT !.step = "noteEdit", !.note = n, !.value = total,
                             !.noteRow = notes[n]])

\* Lines and totals are written; the status is not looked at again.  A body
\* without lines leaves the total as it is.
CommitUpdateNote(p) ==
  LET n == req[p].note
      total == IF req[p].value = None THEN notes[n].amount ELSE req[p].value
  IN /\ req[p].step = "noteEdit"
     /\ notes' = [notes EXCEPT ![n].amount = total]
     /\ MarkStale(n, req[p].noteRow = notes[n])
     /\ Finish(p)
     /\ UNCHANGED <<invoices, receipts>>

\* Reads the note; a note on which no guard applies goes straight to the write.
BeginIssueNote(p, n) ==
  /\ req[p].step = "idle"
  /\ CanMove(AdjustmentEdges, notes[n].status, "ISSUED")
  /\ Proceed(p, [Idle EXCEPT !.step = "noteIssue", !.note = n, !.invoice = notes[n].invoice,
                             !.noteRow = notes[n]])

Guarded(r) == r.noteRow.type = "CREDIT" /\ r.invoice # None

\* Variant: payments are left out of the over-credit guard.
GuardCreditUnpaid(p) ==
  LET r == req[p]
  IN /\ r.step = "noteIssue"
     /\ Guarded(r)
     /\ WithinCreditable(r.noteRow.amount, invoices[r.invoice].total,
                         IssuedCreditTotal(r.invoice, r.note), 0)
     /\ LockAndProceed(p, r.invoice, [r EXCEPT !.step = "noteIssueWrite"])

\* A credit note: the invoice is locked and the guard evaluated under the lock,
\* with the total of the note as it was read before.
GuardCredit(p) ==
  LET r == req[p]
  IN /\ r.step = "noteIssue"
     /\ Guarded(r)
     /\ WithinCreditable(r.noteRow.amount, invoices[r.invoice].total,
                         IssuedCreditTotal(r.invoice, r.note), invoices[r.invoice].paid)
     /\ LockAndProceed(p, r.invoice, [r EXCEPT !.step = "noteIssueWrite"])

CommitIssueNote(p) ==
  LET r == req[p]
  IN /\ IF Guarded(r) THEN r.step = "noteIssueWrite" ELSE r.step = "noteIssue"
     /\ notes' = [notes EXCEPT ![r.note].status = "ISSUED"]
     /\ MarkStale(r.note, r.noteRow = notes[r.note])
     /\ Finish(p)
     /\ UNCHANGED <<invoices, receipts>>

BeginCancelNote(p, n) ==
  /\ req[p].step = "idle"
  /\ CanMove(AdjustmentEdges, notes[n].status, "CANCELLED")
  /\ Proceed(p, [Idle EXCEPT !.step = "noteCancel", !.note = n, !.noteRow = notes[n]])

CommitCancelNote(p) ==
  LET n == req[p].note
  IN /\ req[p].step = "noteCancel"
     /\ notes' = [notes EXCEPT ![n].status = "CANCELLED"]
     /\ MarkStale(n, req[p].noteRow = notes[n])
     /\ Finish(p)
     /\ UNCHANGED <<invoices, receipts>>

(* ------------------------------ next steps ------------------------------ *)

BeginOnNote(p) ==
  \/ \E i \in Invoices \cup {None}, type \in {"CREDIT", "DEBIT"}, t \in NoteTotals :
        BeginCreateNote(p, i, type, t)
  \/ \E n \in Notes, t \in NoteTotals \cup {None} : BeginUpdateNote(p, n, t)
  \/ \E n \in Notes : BeginIssueNote(p, n) \/ BeginCancelNote(p, n)

AdvanceOnNote(p) ==
  \/ \E n \in Notes : CommitCreateNote(p, n)
  \/ CommitUpdateNote(p)
  \/ GuardCredit(p)
  \/ CommitIssueNote(p)
  \/ CommitCancelNote(p)
=============================================================================
