-------------------------- MODULE ReceivablesStore --------------------------
(***************************************************************************)
(* What accounts receivable keeps: the invoices, invoice_payments and      *)
(* credit_debit_notes tables, the row locks on invoices, and the requests  *)
(* in flight.  The operations are in Invoices (InvoicesService) and Notes  *)
(* (CreditDebitNotesService); Receivables puts them together.              *)
(*                                                                         *)
(* Requests, locks and transactions are modelled as in Payables.  Unlike   *)
(* there, most operations read a row, decide, and write it later without   *)
(* having locked it; `stale' remembers which documents were written that   *)
(* way after what the request had read had changed.                        *)
(***************************************************************************)
EXTENDS StatusRules

CONSTANTS
  Procs,          \* requests that can be in flight together
  Invoices,       \* ids of invoices rows
  Receipts,       \* ids of invoice_payments rows
  Notes,          \* ids of credit_debit_notes rows
  Jobs,           \* jobs with revenue, that can be billed
  InvoiceTotals,  \* totals an invoice can have, in cents
  NoteTotals,     \* totals a note can have, in cents
  Amounts,        \* amounts a receipt request can carry, in quarter cents
  None            \* SQL NULL, "no row"

ASSUME ReceivablesNoneAssumption ==
  None \notin Procs \cup Invoices \cup Receipts \cup Notes \cup Jobs \cup Nat
ASSUME ReceivablesMoneyAssumption ==
  InvoiceTotals \subseteq Nat /\ NoteTotals \subseteq Nat /\ Amounts \subseteq Nat
ASSUME ReceivablesFinitenessAssumption == IsFiniteSet(Receipts) /\ IsFiniteSet(Notes)

VARIABLES
  invoices,   \* invoices
  receipts,   \* invoice_payments
  notes,      \* credit_debit_notes
  lock,       \* lock[i]: the request holding row i's lock (FOR UPDATE), or None
  req,        \* req[p]: where request p is and what it has read
  stale       \* history: documents written from a read that no longer held

tables == <<invoices, receipts, notes>>
vars == <<invoices, receipts, notes, lock, req, stale>>

(* ------------------------------- the tables ----------------------------- *)

InvoiceRow ==
  [status : InvoiceStatus \cup {"ABSENT"}, job : Jobs \cup {None}, total : Nat, paid : Nat]

NoInvoice == [status |-> "ABSENT", job |-> None, total |-> 0, paid |-> 0]

\* reversedBy stands for reversedAt, reversedById and reversalReason.
ReceiptRow ==
  [invoice : Invoices \cup {None}, amount : Nat, reversedBy : Procs \cup {None}]

NoReceipt == [invoice |-> None, amount |-> 0, reversedBy |-> None]

\* A note without an invoice is a standalone debit note; amount is its total.
NoteRow ==
  [status : AdjustmentStatus \cup {"ABSENT"}, type : {"CREDIT", "DEBIT"},
   invoice : Invoices \cup {None}, amount : Nat]

NoNote == [status |-> "ABSENT", type |-> "DEBIT", invoice |-> None, amount |-> 0]

LiveReceipts(i) == {q \in Receipts : receipts[q].invoice = i /\ receipts[q].reversedBy = None}

IssuedNotes(i, type) ==
  {n \in Notes : notes[n].invoice = i /\ notes[n].type = type /\ notes[n].status = "ISSUED"}

\* cancel's count: DRAFT or ISSUED.
LiveNotes(i) == {n \in Notes : notes[n].invoice = i /\ notes[n].status \in {"DRAFT", "ISSUED"}}

\* issuedCreditTotal, the over-credit guard's aggregate: other notes only.
IssuedCreditTotal(i, except) == SumOf(notes, IssuedNotes(i, "CREDIT") \ {except})

\* issuedNoteNet: the signed net of ISSUED notes, credit -, debit +.
IssuedNoteNet(i) == SumOf(notes, IssuedNotes(i, "DEBIT")) - SumOf(notes, IssuedNotes(i, "CREDIT"))

Collectible(i) == invoices[i].total + IssuedNoteNet(i)

(* ------------------------------- requests ------------------------------- *)

LockedSteps == {"pay", "reverse", "reverseWrite", "noteIssueWrite"}
UnlockedSteps ==
  {"idle", "generate", "edit", "issue", "cancelCount", "cancel", "payLock", "located",
   "noteCreate", "noteEdit", "noteIssue", "noteCancel"}

Request ==
  [step    : LockedSteps \cup UnlockedSteps,
   invoice : Invoices \cup {None},
   receipt : Receipts \cup {None},
   note    : Notes \cup {None},
   job     : Jobs \cup {None},
   value   : Nat \cup {None},   \* total, amount or sum, if any
   net     : Int,               \* the note net as this request read it
   row     : InvoiceRow,        \* the invoice as this request read it
   noteRow : NoteRow]           \* the note as this request read it, or is to insert it

Idle == [step |-> "idle", invoice |-> None, receipt |-> None, note |-> None, job |-> None,
         value |-> None, net |-> 0, row |-> NoInvoice, noteRow |-> NoNote]

\* Variant: SELECT without FOR UPDATE.
NeverLocked(i) == TRUE

Unlocked(i) == lock[i] = None

\* Request p goes on as r, holding nothing new.
Proceed(p, r) ==
  /\ req' = [req EXCEPT ![p] = r]
  /\ UNCHANGED <<tables, lock, stale>>

\* SELECT ... FOR UPDATE of invoice i by p, which goes on as r.
LockAndProceed(p, i, r) ==
  /\ Unlocked(i)
  /\ lock' = [lock EXCEPT ![i] = p]
  /\ req' = [req EXCEPT ![p] = [r EXCEPT !.row = invoices[i]]]
  /\ UNCHANGED <<tables, stale>>

\* Commit or rollback: the request is over and its lock, if any, is released.
Finish(p) ==
  /\ req' = [req EXCEPT ![p] = Idle]
  /\ lock' = [i \in Invoices |-> IF lock[i] = p THEN None ELSE lock[i]]

\* History: document d is written; `held' says whether what was read still holds.
MarkStale(d, held) == stale' = IF held THEN stale ELSE stale \cup {d}

Abort(p) ==
  /\ req[p].step # "idle"
  /\ Finish(p)
  /\ UNCHANGED <<tables, stale>>

StoreInit ==
  /\ invoices = [i \in Invoices |-> NoInvoice]
  /\ receipts = [q \in Receipts |-> NoReceipt]
  /\ notes = [n \in Notes |-> NoNote]
  /\ lock = [i \in Invoices |-> None]
  /\ req = [p \in Procs |-> Idle]
  /\ stale = {}

TypeOK ==
  /\ invoices \in [Invoices -> InvoiceRow]
  /\ receipts \in [Receipts -> ReceiptRow]
  /\ notes \in [Notes -> NoteRow]
  /\ lock \in [Invoices -> Procs \cup {None}]
  /\ req \in [Procs -> Request]
  /\ stale \subseteq Invoices \cup Notes
=============================================================================
