-------------------------- MODULE ReceivablesProofs -------------------------
(***************************************************************************)
(* Proofs about Receivables for any number of requests, invoices,          *)
(* receipts, notes, jobs and amounts.                                      *)
(*                                                                         *)
(* IInv, the inductive invariant, says of every request between two of its *)
(* steps what it may still rely on (Sound).  A request that holds an       *)
(* invoice's lock keeps the row, the live receipts and, as long as no note *)
(* of the invoice is written from a read that no longer holds, a bound on  *)
(* the issued credits: another credit note of that invoice is issued only  *)
(* by a request that holds the same lock, and a cancelled one only lowers  *)
(* the sum.                                                                *)
(***************************************************************************)
EXTENDS Receivables, SumLemmas

\* Everything IInv says about request p.
Sound(p) == RowFresh(p) /\ InvoicePromises(p) /\ NotePromises(p)

Holds(p, i) == req[p].step \in LockedSteps /\ req[p].invoice = i

(* -------------------------------- sums ---------------------------------- *)

\* Any receipts have amounts that can be added up.
LEMMA ReceiptsHaveAmounts ==
  ASSUME NEW rows \in [Receipts -> ReceiptRow], NEW S \in SUBSET Receipts
  PROVE  HasAmounts(rows, S)
<1>1. IsFiniteSet(S)
  BY ReceivablesFinitenessAssumption, FS_Subset
<1> QED BY <1>1 DEF HasAmounts, ReceiptRow

\* So do any notes.
LEMMA NotesHaveAmounts ==
  ASSUME NEW rows \in [Notes -> NoteRow], NEW S \in SUBSET Notes
  PROVE  HasAmounts(rows, S)
<1>1. IsFiniteSet(S)
  BY ReceivablesFinitenessAssumption, FS_Subset
<1> QED BY <1>1 DEF HasAmounts, NoteRow

\* Credits, debits and their net are numbers.
NoteSumsAreNumbers ==
  \A i : IssuedNoteNet(i) \in Int /\ \A n : IssuedCreditTotal(i, n) \in Nat

LEMMA NoteSums == TypeOK => NoteSumsAreNumbers
<1> SUFFICES ASSUME TypeOK, NEW i
             PROVE  IssuedNoteNet(i) \in Int /\ \A n : IssuedCreditTotal(i, n) \in Nat
  BY DEF NoteSumsAreNumbers
<1>1. \A S \in SUBSET Notes : SumOf(notes, S) \in Nat
  BY NotesHaveAmounts, SumType DEF TypeOK
<1>2. \A type : IssuedNotes(i, type) \in SUBSET Notes
  BY DEF IssuedNotes
<1>3. \A n : IssuedCreditTotal(i, n) \in Nat
  BY <1>1, <1>2 DEF IssuedCreditTotal
<1>4. IssuedNoteNet(i) \in Int
  <2>1. /\ SumOf(notes, IssuedNotes(i, "DEBIT")) \in Nat
        /\ SumOf(notes, IssuedNotes(i, "CREDIT")) \in Nat
    BY <1>1, <1>2
  <2> QED BY <2>1 DEF IssuedNoteNet
<1> QED BY <1>3, <1>4

LEMMA NoteSumsAfter == TypeOK' => NoteSumsAreNumbers'
BY NoteSums, PTL

(* ------------------------------ frame lemmas ---------------------------- *)

\* The credits of invoice i have not grown, unless one of its notes was
\* written from a read that no longer held.
CreditsBounded(i) ==
  NotesHeld(i)' =>
    /\ NotesHeld(i)
    /\ \A n : IssuedCreditTotal(i, n)' <= IssuedCreditTotal(i, n)

\* What another request's step may not touch for request p to keep what it
\* relies on.
Keeps(p) ==
  /\ req'[p] = req[p]
  /\ \A i \in Invoices : Holds(p, i) =>
       /\ lock'[i] = p
       /\ invoices'[i] = invoices[i]
       /\ LiveReceipts(i)' = LiveReceipts(i)
       /\ CreditsBounded(i)
  /\ \A i \in Invoices : invoices[i].status # "ABSENT" => invoices'[i].status # "ABSENT"
  /\ \A q \in Receipts : receipts[q].invoice # None =>
       /\ receipts'[q].invoice = receipts[q].invoice
       /\ receipts'[q].amount = receipts[q].amount
  /\ \A n \in Notes : notes[n].status # "ABSENT" =>
       /\ notes'[n].status # "ABSENT"
       /\ notes'[n].type = notes[n].type
       /\ notes'[n].invoice = notes[n].invoice

LEMMA RequestFrame ==
  ASSUME TypeOK, TypeOK', NEW p \in Procs, Sound(p), Keeps(p)
  PROVE  Sound(p)'
<1>1. PICK r \in Request : r = req[p]
  BY DEF TypeOK
<1>2. req'[p] = r
  BY <1>1 DEF Keeps
<1>3. ASSUME NEW i, Exists(i)
      PROVE  Exists(i)'
  BY <1>3 DEF Keeps, Exists
<1>4. RowFresh(p)'
  BY <1>1, <1>2 DEF Keeps, Holds, Sound, RowFresh, Exists
<1>5. ASSUME r.step \in {"located", "reverse", "reverseWrite"}
      PROVE  /\ r.receipt \in Receipts /\ Exists(r.invoice)'
             /\ receipts'[r.receipt].invoice = r.invoice
  <2>1. /\ r.receipt \in Receipts /\ Exists(r.invoice)
        /\ receipts[r.receipt].invoice = r.invoice
    BY <1>1, <1>5 DEF Sound, InvoicePromises
  <2>2. r.invoice # None
    BY <2>1, ReceivablesNoneAssumption DEF Exists
  <2> QED BY <1>3, <2>1, <2>2 DEF Keeps
<1>6. ASSUME r.step = "reverseWrite"
      PROVE  /\ receipts'[r.receipt].reversedBy = None
             /\ r.value = SumOf(receipts', LiveReceipts(r.invoice)' \ {r.receipt})
  <2>1. PICK q \in Receipts : q = r.receipt
    BY <1>1, <1>6 DEF Sound, InvoicePromises
  <2>2. PICK i \in Invoices : i = r.invoice
    BY <1>1, <1>6 DEF Sound, InvoicePromises, Exists
  <2> DEFINE S == LiveReceipts(i) \ {q}
  <2>3. receipts[q].invoice = i /\ receipts[q].reversedBy = None /\ r.value = SumOf(receipts, S)
    BY <1>1, <1>6, <2>1, <2>2 DEF Sound, InvoicePromises
  <2>4. LiveReceipts(i)' = LiveReceipts(i)
    BY <1>1, <1>6, <2>2 DEF Keeps, Holds, LockedSteps
  <2>5. receipts'[q].reversedBy = None
    <3>1. q \in LiveReceipts(i)'
      BY <2>3, <2>4 DEF LiveReceipts
    <3> QED BY <3>1 DEF LiveReceipts
  <2>6. \A x \in S : receipts[x].amount = receipts'[x].amount
    BY ReceivablesNoneAssumption DEF LiveReceipts, Keeps
  <2>7. SumOf(receipts, S) = SumOf(receipts', S)
    <3> HIDE DEF S
    <3> QED BY <2>6, SumSame
  <2> QED BY <2>1, <2>2, <2>3, <2>4, <2>5, <2>7
<1>7. InvoicePromises(p)'
  <2>1. InvoicePromises(p)
    BY DEF Sound
  <2> QED BY <1>1, <1>2, <1>3, <1>5, <1>6, <2>1 DEF InvoicePromises
<1>8. ASSUME r.step \in {"noteEdit", "noteIssue", "noteIssueWrite", "noteCancel"}
      PROVE  /\ r.note \in Notes
             /\ notes'[r.note].status # "ABSENT"
             /\ r.noteRow.type = notes'[r.note].type
             /\ r.noteRow.invoice = notes'[r.note].invoice
  BY <1>1, <1>8 DEF Sound, NotePromises, Keeps
<1>9. ASSUME r.step = "noteIssueWrite", NotesHeld(r.invoice)'
      PROVE  WithinCreditable(r.noteRow.amount, r.row.total,
                              IssuedCreditTotal(r.invoice, r.note)', r.row.paid)
  <2>1. PICK i \in Invoices : i = r.invoice
    BY <1>1, <1>9 DEF Sound, RowFresh, LockedSteps, Exists
  <2>2. PICK n \in Notes : n = r.note
    BY <1>8, <1>9
  <2>3. CreditsBounded(i)
    BY <1>1, <1>9, <2>1 DEF Keeps, Holds, LockedSteps
  <2>4. NotesHeld(i) /\ IssuedCreditTotal(i, n)' <= IssuedCreditTotal(i, n)
    BY <1>9, <2>1, <2>3 DEF CreditsBounded
  <2>5. WithinCreditable(r.noteRow.amount, r.row.total, IssuedCreditTotal(i, n), r.row.paid)
    BY <1>1, <1>9, <2>1, <2>2, <2>4 DEF Sound, NotePromises
  <2>6. IssuedCreditTotal(i, n) \in Nat
    BY NoteSums DEF NoteSumsAreNumbers
  <2>7. r.noteRow.amount \in Nat /\ r.row.total \in Nat /\ r.row.paid \in Nat
    BY DEF Request, NoteRow, InvoiceRow
  <2>8. IssuedCreditTotal(i, n)' \in Nat
    BY NoteSumsAfter DEF NoteSumsAreNumbers
  <2> QED BY <2>1, <2>2, <2>4, <2>5, <2>6, <2>7, <2>8 DEF WithinCreditable
<1>10. NotePromises(p)'
  <2>1. NotePromises(p)
    BY DEF Sound
  <2> QED BY <1>1, <1>2, <1>3, <1>8, <1>9, <2>1 DEF NotePromises, Guarded
<1> QED BY <1>4, <1>7, <1>10 DEF Sound

(* --------------------- steps that write no table row -------------------- *)

\* As long as the notes stay as they are, so do the credits.
LEMMA CreditsFrame ==
  ASSUME TypeOK, UNCHANGED notes, stale \subseteq stale', NEW i
  PROVE  CreditsBounded(i)
<1>1. NotesHeld(i)' => NotesHeld(i)
  BY DEF NotesHeld
<1>2. \A n : IssuedCreditTotal(i, n)' = IssuedCreditTotal(i, n) /\ IssuedCreditTotal(i, n) \in Nat
  BY NoteSums DEF NoteSumsAreNumbers, IssuedCreditTotal, IssuedNotes
<1> QED BY <1>1, <1>2 DEF CreditsBounded

\* The shape of every step of p that only reads, locks or unlocks.
Quiet(p) ==
  /\ UNCHANGED <<invoices, receipts, notes, stale>>
  /\ lock' \in [Invoices -> Procs \cup {None}]
  /\ req' \in [Procs -> Request]
  /\ \A p2 \in Procs \ {p} :
       req'[p2] = req[p2] /\ \A i \in Invoices : lock[i] = p2 => lock'[i] = p2

LEMMA QuietStep ==
  ASSUME IInv, NEW p \in Procs, Quiet(p), Sound(p)'
  PROVE  IInv'
<1>1. TypeOK'
  BY DEF IInv, TypeOK, Quiet
<1>2. ReceiptsHaveInvoices' /\ NotesHaveInvoices' /\ PaidMatchesLedger' /\ StatusMatchesCash'
  BY DEF IInv, Quiet, ReceiptsHaveInvoices, NotesHaveInvoices, Exists, PaidMatchesLedger,
         LiveReceipts, StatusMatchesCash
<1>3. ASSUME NEW p2 \in Procs
      PROVE  Sound(p2)'
  <2>1. CASE p2 = p
    BY <2>1
  <2>2. CASE p2 # p
    <3>1. \A i : CreditsBounded(i) /\ LiveReceipts(i)' = LiveReceipts(i)
      BY CreditsFrame DEF IInv, Quiet, LiveReceipts
    <3>2. Keeps(p2)
      BY <2>2, <3>1 DEF Keeps, Holds, Quiet, IInv, RowFresh
    <3> QED BY <1>1, <3>2, RequestFrame DEF IInv, Sound
  <2> QED BY <2>1, <2>2
<1> QED BY <1>1, <1>2, <1>3 DEF IInv, Sound

\* The record a request starts from is typed.
LEMMA IdleType == Idle \in Request
BY DEF Idle, Request, NoInvoice, InvoiceRow, NoNote, NoteRow, LockedSteps, UnlockedSteps

\* Going on to a step that holds no lock asks for its promises only.
LEMMA ProceedFrame ==
  ASSUME IInv, NEW p \in Procs, NEW r \in Request, Proceed(p, r)
  PROVE  /\ Quiet(p) /\ req'[p] = r
         /\ r.step \notin LockedSteps => RowFresh(p)'
<1>1. req'[p] = r /\ UNCHANGED <<invoices, receipts, notes, stale, lock>>
  BY DEF Proceed, tables, IInv, TypeOK
<1>2. Quiet(p)
  BY <1>1 DEF Proceed, Quiet, IInv, TypeOK
<1> QED BY <1>1, <1>2 DEF RowFresh

\* Ending a request, whatever it was doing, frees its lock and no other.
LEMMA FinishFrame ==
  ASSUME TypeOK, NEW p \in Procs, Finish(p)
  PROVE  /\ lock' \in [Invoices -> Procs \cup {None}]
         /\ req' \in [Procs -> Request]
         /\ \A p2 \in Procs \ {p} :
              req'[p2] = req[p2] /\ \A i \in Invoices : lock[i] = p2 => lock'[i] = p2
         /\ Sound(p)'
<1>1. req'[p] = Idle
  BY DEF Finish, TypeOK
<1>2. Sound(p)'
  BY <1>1 DEF Sound, RowFresh, InvoicePromises, NotePromises, Idle, LockedSteps
<1> QED BY <1>2, IdleType DEF Finish, TypeOK

\* SELECT ... FOR UPDATE gives p the current row and disturbs nobody.
LEMMA LockFrame ==
  ASSUME IInv, NEW p \in Procs, NEW i \in Invoices, Exists(i),
         NEW r \in Request, r.step \in LockedSteps, r.invoice = i,
         LockAndProceed(p, i, r)
  PROVE  /\ Quiet(p) /\ RowFresh(p)'
         /\ req'[p] = [r EXCEPT !.row = invoices[i]]
         /\ req'[p] \in Request
<1> DEFINE held == [r EXCEPT !.row = invoices[i]]
<1>1. held \in Request
  BY DEF IInv, TypeOK, Request
<1>2. held.step = r.step /\ held.invoice = i /\ held.row = invoices[i]
  BY DEF Request
<1>3. /\ req' = [req EXCEPT ![p] = held] /\ lock' = [lock EXCEPT ![i] = p] /\ lock[i] = None
      /\ UNCHANGED <<invoices, receipts, notes, stale>>
  BY DEF LockAndProceed, Unlocked, tables
<1> HIDE DEF held
<1>4. req'[p] = held /\ req' \in [Procs -> Request]
  BY <1>1, <1>3 DEF IInv, TypeOK
<1>5. lock' \in [Invoices -> Procs \cup {None}] /\ lock'[i] = p
  BY <1>3 DEF IInv, TypeOK
<1>6. \A p2 \in Procs \ {p} :
        req'[p2] = req[p2] /\ \A c \in Invoices : lock[c] = p2 => lock'[c] = p2
  BY <1>3, ReceivablesNoneAssumption DEF IInv, TypeOK
<1>7. Quiet(p)
  BY <1>3, <1>4, <1>5, <1>6 DEF Quiet
<1>8. RowFresh(p)'
  BY <1>2, <1>3, <1>4, <1>5 DEF RowFresh, Exists
<1> QED BY <1>1, <1>4, <1>7, <1>8 DEF held

(* ---------------------- begin, check and abort steps -------------------- *)

\* Whatever ends a request early keeps the invariant.
LEMMA AbortStep ==
  ASSUME IInv, NEW p \in Procs, Abort(p)
  PROVE  IInv'
<1>1. TypeOK /\ Finish(p)
  BY DEF IInv, Abort
<1>2. Quiet(p) /\ Sound(p)'
  BY <1>1, FinishFrame DEF Quiet, Abort, tables
<1> QED BY <1>2, QuietStep

\* generateFromJob's guard promises a job.
LEMMA BeginGenerateStep ==
  ASSUME IInv, NEW p \in Procs, NEW job \in Jobs, BeginGenerate(p, job)
  PROVE  IInv'
<1> DEFINE r == [Idle EXCEPT !.step = "generate", !.job = job]
<1>1. r \in Request
  BY IdleType DEF Request, UnlockedSteps
<1>2. r.step = "generate" /\ r.job = job
  BY DEF Idle
<1>3. Proceed(p, r)
  BY DEF BeginGenerate
<1> HIDE DEF r
<1>4. Quiet(p) /\ req'[p] = r /\ RowFresh(p)'
  BY <1>1, <1>2, <1>3, ProceedFrame DEF LockedSteps
<1>5. InvoicePromises(p)' /\ NotePromises(p)'
  BY <1>2, <1>4 DEF InvoicePromises, NotePromises
<1> QED BY <1>4, <1>5, QuietStep DEF Sound

\* update's unlocked read promises that the invoice exists.
LEMMA BeginUpdateStep ==
  ASSUME IInv, NEW p \in Procs, NEW i \in Invoices, NEW job \in Jobs \cup {None},
         NEW total \in InvoiceTotals, BeginUpdate(p, i, job, total)
  PROVE  IInv'
<1> DEFINE r == [Idle EXCEPT !.step = "edit", !.invoice = i, !.job = job, !.value = total,
                             !.row = invoices[i]]
<1>1. total \in Nat
  BY ReceivablesMoneyAssumption
<1>2. invoices[i] \in InvoiceRow /\ Exists(i)
  BY DEF IInv, TypeOK, BeginUpdate, Exists
<1>3. r \in Request
  BY <1>1, <1>2, IdleType DEF Request, UnlockedSteps
<1>4. r.step = "edit" /\ r.invoice = i /\ r.value = total
  BY DEF Idle
<1>5. Proceed(p, r)
  BY DEF BeginUpdate
<1> HIDE DEF r
<1>6. Quiet(p) /\ req'[p] = r /\ RowFresh(p)'
  BY <1>3, <1>4, <1>5, ProceedFrame DEF LockedSteps
<1>7. InvoicePromises(p)' /\ NotePromises(p)'
  BY <1>1, <1>2, <1>4, <1>6 DEF InvoicePromises, NotePromises, Exists, Quiet
<1> QED BY <1>6, <1>7, QuietStep DEF Sound

\* issue and cancel promise what they read of the row.
LEMMA BeginIssueStep ==
  ASSUME IInv, NEW p \in Procs, NEW i \in Invoices, BeginIssue(p, i)
  PROVE  IInv'
<1> DEFINE r == [Idle EXCEPT !.step = "issue", !.invoice = i, !.row = invoices[i]]
<1>1. invoices[i].status \in {"DRAFT", "ISSUED"}
  BY DEF BeginIssue, CanMove, InvoiceEdges
<1>2. invoices[i] \in InvoiceRow /\ Exists(i)
  BY <1>1 DEF IInv, TypeOK, Exists
<1>3. r \in Request
  BY <1>2, IdleType DEF Request, UnlockedSteps
<1>4. r.step = "issue" /\ r.invoice = i /\ r.row = invoices[i]
  BY DEF Idle
<1>5. Proceed(p, r)
  BY DEF BeginIssue
<1> HIDE DEF r
<1>6. Quiet(p) /\ req'[p] = r /\ RowFresh(p)'
  BY <1>3, <1>4, <1>5, ProceedFrame DEF LockedSteps
<1>7. InvoicePromises(p)' /\ NotePromises(p)'
  BY <1>1, <1>2, <1>4, <1>6 DEF InvoicePromises, NotePromises, Exists, Quiet
<1> QED BY <1>6, <1>7, QuietStep DEF Sound

LEMMA BeginCancelStep ==
  ASSUME IInv, NEW p \in Procs, NEW i \in Invoices, BeginCancel(p, i)
  PROVE  IInv'
<1> DEFINE r == [Idle EXCEPT !.step = "cancelCount", !.invoice = i, !.row = invoices[i]]
<1>1. invoices[i].paid = 0 /\ invoices[i] \in InvoiceRow /\ Exists(i)
  BY DEF IInv, TypeOK, BeginCancel, Exists
<1>2. r \in Request
  BY <1>1, IdleType DEF Request, UnlockedSteps
<1>3. r.step = "cancelCount" /\ r.invoice = i /\ r.row = invoices[i]
  BY DEF Idle
<1>4. Proceed(p, r)
  BY DEF BeginCancel
<1> HIDE DEF r
<1>5. Quiet(p) /\ req'[p] = r /\ RowFresh(p)'
  BY <1>2, <1>3, <1>4, ProceedFrame DEF LockedSteps
<1>6. InvoicePromises(p)' /\ NotePromises(p)'
  BY <1>1, <1>3, <1>5 DEF InvoicePromises, NotePromises, Exists, Quiet
<1> QED BY <1>5, <1>6, QuietStep DEF Sound

LEMMA CountNotesStep ==
  ASSUME IInv, NEW p \in Procs, CountNotes(p)
  PROVE  IInv'
<1> DEFINE r == [req[p] EXCEPT !.step = "cancel"]
<1>1. /\ req[p] \in Request /\ req[p].step = "cancelCount"
      /\ Exists(req[p].invoice) /\ req[p].row.paid = 0
  BY DEF IInv, TypeOK, InvoicePromises, CountNotes
<1>2. r \in Request /\ r.step = "cancel" /\ r.invoice = req[p].invoice /\ r.row = req[p].row
  BY <1>1 DEF Request, UnlockedSteps
<1>3. Proceed(p, r)
  BY DEF CountNotes
<1> HIDE DEF r
<1>4. Quiet(p) /\ req'[p] = r /\ RowFresh(p)'
  BY <1>2, <1>3, ProceedFrame DEF LockedSteps
<1>5. InvoicePromises(p)' /\ NotePromises(p)'
  BY <1>1, <1>2, <1>4 DEF InvoicePromises, NotePromises, Exists, Quiet
<1> QED BY <1>4, <1>5, QuietStep DEF Sound

\* recordPayment reads the note net outside the lock: nothing is promised of it.
LEMMA BeginPayStep ==
  ASSUME IInv, NEW p \in Procs, NEW i \in Invoices, NEW a \in Amounts, BeginPay(p, i, a)
  PROVE  IInv'
<1>1. PICK net \in Int : net = IssuedNoteNet(i)
  BY NoteSums DEF IInv, NoteSumsAreNumbers
<1> DEFINE r == [Idle EXCEPT !.step = "payLock", !.invoice = i, !.value = a, !.net = net]
<1>2. a \in Nat /\ Exists(i)
  BY ReceivablesMoneyAssumption DEF BeginPay, Exists
<1>3. r \in Request
  BY <1>2, IdleType DEF Request, UnlockedSteps
<1>4. r.step = "payLock" /\ r.invoice = i /\ r.value = a
  BY DEF Idle
<1>5. Proceed(p, r)
  BY <1>1 DEF BeginPay
<1> HIDE DEF r
<1>6. Quiet(p) /\ req'[p] = r /\ RowFresh(p)'
  BY <1>3, <1>4, <1>5, ProceedFrame DEF LockedSteps
<1>7. InvoicePromises(p)' /\ NotePromises(p)'
  BY <1>2, <1>4, <1>6 DEF InvoicePromises, NotePromises, Exists, Quiet
<1> QED BY <1>6, <1>7, QuietStep DEF Sound

\* Under the lock the amount is known to fit the row, given the net it read.
LEMMA LockForPayStep ==
  ASSUME IInv, NEW p \in Procs, LockForPay(p)
  PROVE  IInv'
<1>1. req[p] \in Request /\ Exists(req[p].invoice) /\ req[p].value \in Amounts
  BY DEF IInv, TypeOK, InvoicePromises, LockForPay
<1>2. PICK i \in Invoices : i = req[p].invoice
  BY <1>1 DEF Exists
<1> DEFINE r == [req[p] EXCEPT !.step = "pay"]
<1>3. /\ r \in Request /\ r.step = "pay" /\ r.invoice = i /\ r.value = req[p].value
      /\ r.net = req[p].net
  BY <1>1, <1>2 DEF Request, LockedSteps
<1>4. /\ LockAndProceed(p, i, r)
      /\ invoices[i].status \in {"ISSUED", "PARTIALLY_PAID"}
      /\ PaymentAccepted(invoices[i].total + r.net, invoices[i].paid, r.value)
  BY <1>2, <1>3 DEF LockForPay
<1> HIDE DEF r
<1>5. /\ Quiet(p) /\ RowFresh(p)' /\ req'[p] = [r EXCEPT !.row = invoices[i]]
  BY <1>1, <1>2, <1>3, <1>4, LockFrame DEF LockedSteps
<1>6. /\ req'[p].step = "pay" /\ req'[p].row = invoices[i] /\ req'[p].net = r.net
      /\ req'[p].value = r.value
  BY <1>3, <1>5 DEF Request
<1>7. InvoicePromises(p)' /\ NotePromises(p)'
  BY <1>1, <1>3, <1>4, <1>6 DEF InvoicePromises, NotePromises
<1> QED BY <1>5, <1>7, QuietStep DEF Sound

\* reversePayment finds the invoice of its receipt, then locks it.
LEMMA LocateReceiptStep ==
  ASSUME IInv, NEW p \in Procs, NEW q \in Receipts, LocateReceipt(p, q)
  PROVE  IInv'
<1>1. PICK i \in Invoices : i = receipts[q].invoice
  BY DEF LocateReceipt, IInv, TypeOK, ReceiptRow
<1>2. Exists(i)
  BY <1>1 DEF LocateReceipt, IInv, ReceiptsHaveInvoices
<1> DEFINE r == [Idle EXCEPT !.step = "located", !.receipt = q, !.invoice = i]
<1>3. r \in Request /\ r.step = "located" /\ r.receipt = q /\ r.invoice = i
  BY IdleType DEF Request, UnlockedSteps
<1>4. Proceed(p, r)
  BY <1>1 DEF LocateReceipt
<1> HIDE DEF r
<1>5. Quiet(p) /\ req'[p] = r /\ RowFresh(p)'
  BY <1>3, <1>4, ProceedFrame DEF LockedSteps
<1>6. InvoicePromises(p)' /\ NotePromises(p)'
  BY <1>1, <1>2, <1>3, <1>5 DEF InvoicePromises, NotePromises, Exists, Quiet
<1> QED BY <1>5, <1>6, QuietStep DEF Sound

LEMMA LockForReversalStep ==
  ASSUME IInv, NEW p \in Procs, LockForReversal(p)
  PROVE  IInv'
<1>1. /\ req[p] \in Request /\ Exists(req[p].invoice) /\ req[p].receipt \in Receipts
      /\ receipts[req[p].receipt].invoice = req[p].invoice
  BY DEF IInv, TypeOK, InvoicePromises, LockForReversal
<1>2. PICK i \in Invoices : i = req[p].invoice
  BY <1>1 DEF Exists
<1> DEFINE r == [req[p] EXCEPT !.step = "reverse"]
<1>3. r \in Request /\ r.step = "reverse" /\ r.invoice = i /\ r.receipt = req[p].receipt
  BY <1>1, <1>2 DEF Request, LockedSteps
<1>4. LockAndProceed(p, i, r)
  BY <1>2 DEF LockForReversal
<1> HIDE DEF r
<1>5. Quiet(p) /\ RowFresh(p)' /\ req'[p] = [r EXCEPT !.row = invoices[i]]
  BY <1>1, <1>2, <1>3, <1>4, LockFrame DEF LockedSteps
<1>6. req'[p].step = "reverse" /\ req'[p].invoice = i /\ req'[p].receipt = r.receipt
  BY <1>3, <1>5 DEF Request
<1>7. InvoicePromises(p)' /\ NotePromises(p)'
  BY <1>1, <1>2, <1>3, <1>5, <1>6 DEF InvoicePromises, NotePromises, Exists, Quiet
<1> QED BY <1>5, <1>7, QuietStep DEF Sound

\* The receipts that remain are added up under the lock that guards them.
LEMMA SumRemainingStep ==
  ASSUME IInv, NEW p \in Procs, SumRemaining(p)
  PROVE  IInv'
<1>1. /\ req[p] \in Request /\ req[p].step = "reverse"
      /\ Exists(req[p].invoice) /\ req[p].receipt \in Receipts
      /\ receipts[req[p].receipt].invoice = req[p].invoice
      /\ receipts[req[p].receipt].reversedBy = None
  BY DEF IInv, TypeOK, InvoicePromises, SumRemaining
<1>2. PICK i \in Invoices : i = req[p].invoice
  BY <1>1 DEF Exists
<1>3. PICK q \in Receipts : q = req[p].receipt
  BY <1>1
<1>4. PICK sum \in Nat : sum = SumOf(receipts, LiveReceipts(i) \ {q})
  <2>1. LiveReceipts(i) \ {q} \in SUBSET Receipts
    BY DEF LiveReceipts
  <2> QED BY <2>1, ReceiptsHaveAmounts, SumType DEF IInv, TypeOK
<1>5. PICK net \in Int : net = IssuedNoteNet(i)
  BY NoteSums DEF IInv, NoteSumsAreNumbers
<1> DEFINE r == [req[p] EXCEPT !.step = "reverseWrite", !.value = sum, !.net = net]
<1>6. /\ r \in Request /\ r.step = "reverseWrite" /\ r.invoice = i /\ r.receipt = q
      /\ r.value = sum /\ r.row = req[p].row
  BY <1>1, <1>2, <1>3 DEF Request, LockedSteps
<1>7. Proceed(p, r)
  BY <1>2, <1>3, <1>4, <1>5 DEF SumRemaining
<1> HIDE DEF r
<1>8. Quiet(p) /\ req'[p] = r /\ lock' = lock
  BY <1>6, <1>7, ProceedFrame DEF Proceed
<1>9. RowFresh(p)'
  BY <1>1, <1>2, <1>6, <1>8 DEF IInv, RowFresh, Exists, Quiet, LockedSteps
<1>10. LiveReceipts(i)' = LiveReceipts(i) /\ Exists(i)'
  BY <1>1, <1>2, <1>8 DEF Quiet, LiveReceipts, Exists
<1>11. InvoicePromises(p)' /\ NotePromises(p)'
  BY <1>1, <1>2, <1>3, <1>4, <1>6, <1>8, <1>10 DEF InvoicePromises, NotePromises, Quiet
<1> QED BY <1>8, <1>9, <1>11, QuietStep DEF Sound

(* ------------------------- begin steps on notes ------------------------- *)

\* A note is created as a DRAFT on the invoice that was read.
LEMMA BeginCreateNoteStep ==
  ASSUME IInv, NEW p \in Procs, NEW i \in Invoices \cup {None}, NEW type \in {"CREDIT", "DEBIT"},
         NEW total \in NoteTotals, BeginCreateNote(p, i, type, total)
  PROVE  IInv'
<1> DEFINE row == [status |-> "DRAFT", type |-> type, invoice |-> i, amount |-> total]
           r == [Idle EXCEPT !.step = "noteCreate", !.invoice = i, !.noteRow = row]
<1>1. row \in NoteRow
  BY ReceivablesMoneyAssumption DEF NoteRow, AdjustmentStatus
<1>2. row.status = "DRAFT" /\ row.type = type /\ row.invoice = i
  OBVIOUS
<1>3. /\ i # None => Exists(i)
      /\ type = "CREDIT" => i # None
  BY DEF BeginCreateNote, Exists
<1>4. Proceed(p, r)
  BY DEF BeginCreateNote
<1> HIDE DEF row
<1>5. r \in Request /\ r.step = "noteCreate" /\ r.invoice = i /\ r.noteRow = row
  BY <1>1, IdleType DEF Request, UnlockedSteps
<1> HIDE DEF r
<1>6. Quiet(p) /\ req'[p] = r /\ RowFresh(p)'
  BY <1>4, <1>5, ProceedFrame DEF LockedSteps
<1>7. InvoicePromises(p)' /\ NotePromises(p)'
  BY <1>2, <1>3, <1>5, <1>6 DEF InvoicePromises, NotePromises, Exists, Quiet
<1> QED BY <1>6, <1>7, QuietStep DEF Sound

\* update, issue and cancel of a note promise that it exists, and its type and
\* invoice; update also that it was a DRAFT when it was read.
LEMMA BeginOnNoteFrame ==
  ASSUME IInv, NEW p \in Procs, NEW n \in Notes, notes[n].status # "ABSENT",
         NEW s \in {"noteEdit", "noteIssue", "noteCancel"},
         s = "noteEdit" => notes[n].status = "DRAFT",
         NEW r \in Request, Proceed(p, r),
         r.step = s, r.note = n, r.noteRow = notes[n],
         s = "noteIssue" => r.invoice = notes[n].invoice
  PROVE  IInv'
<1>1. Quiet(p) /\ req'[p] = r /\ RowFresh(p)'
  BY ProceedFrame DEF LockedSteps
<1>2. InvoicePromises(p)' /\ NotePromises(p)'
  BY <1>1 DEF InvoicePromises, NotePromises, Quiet
<1> QED BY <1>1, <1>2, QuietStep DEF Sound

LEMMA BeginUpdateNoteStep ==
  ASSUME IInv, NEW p \in Procs, NEW n \in Notes, NEW total \in NoteTotals \cup {None},
         BeginUpdateNote(p, n, total)
  PROVE  IInv'
<1> DEFINE r == [Idle EXCEPT !.step = "noteEdit", !.note = n, !.value = total,
                             !.noteRow = notes[n]]
<1>1. total \in Nat \cup {None} /\ notes[n] \in NoteRow /\ notes[n].status = "DRAFT"
  BY ReceivablesMoneyAssumption DEF BeginUpdateNote, IInv, TypeOK
<1>2. r \in Request /\ r.step = "noteEdit" /\ r.note = n /\ r.noteRow = notes[n]
  BY <1>1, IdleType DEF Request, UnlockedSteps
<1>3. Proceed(p, r)
  BY DEF BeginUpdateNote
<1> HIDE DEF r
<1> QED BY <1>1, <1>2, <1>3, BeginOnNoteFrame

LEMMA BeginIssueNoteStep ==
  ASSUME IInv, NEW p \in Procs, NEW n \in Notes, BeginIssueNote(p, n)
  PROVE  IInv'
<1> DEFINE r == [Idle EXCEPT !.step = "noteIssue", !.note = n, !.invoice = notes[n].invoice,
                             !.noteRow = notes[n]]
<1>1. notes[n] \in NoteRow /\ notes[n].invoice \in Invoices \cup {None}
  BY DEF IInv, TypeOK, NoteRow
<1>2. notes[n].status # "ABSENT"
  BY DEF BeginIssueNote, CanMove, AdjustmentEdges
<1>3. /\ r \in Request /\ r.step = "noteIssue" /\ r.note = n /\ r.noteRow = notes[n]
      /\ r.invoice = notes[n].invoice
  BY <1>1, IdleType DEF Request, UnlockedSteps
<1>4. Proceed(p, r)
  BY DEF BeginIssueNote
<1> HIDE DEF r
<1> QED BY <1>2, <1>3, <1>4, BeginOnNoteFrame

LEMMA BeginCancelNoteStep ==
  ASSUME IInv, NEW p \in Procs, NEW n \in Notes, BeginCancelNote(p, n)
  PROVE  IInv'
<1> DEFINE r == [Idle EXCEPT !.step = "noteCancel", !.note = n, !.noteRow = notes[n]]
<1>1. notes[n] \in NoteRow
  BY DEF IInv, TypeOK
<1>2. notes[n].status # "ABSENT"
  BY DEF BeginCancelNote, CanMove, AdjustmentEdges
<1>3. r \in Request /\ r.step = "noteCancel" /\ r.note = n /\ r.noteRow = notes[n]
  BY <1>1, IdleType DEF Request, UnlockedSteps
<1>4. Proceed(p, r)
  BY DEF BeginCancelNote
<1> HIDE DEF r
<1> QED BY <1>2, <1>3, <1>4, BeginOnNoteFrame

\* The over-credit guard is evaluated under the lock that keeps it true.
LEMMA GuardCreditStep ==
  ASSUME IInv, NEW p \in Procs, GuardCredit(p)
  PROVE  IInv'
<1>1. PICK r0 \in Request : r0 = req[p]
  BY DEF IInv, TypeOK
<1>2. /\ r0.step = "noteIssue" /\ Guarded(r0)
      /\ WithinCreditable(r0.noteRow.amount, invoices[r0.invoice].total,
                          IssuedCreditTotal(r0.invoice, r0.note), invoices[r0.invoice].paid)
      /\ LockAndProceed(p, r0.invoice, [r0 EXCEPT !.step = "noteIssueWrite"])
  BY <1>1 DEF GuardCredit
<1>3. /\ r0.note \in Notes /\ notes[r0.note].status # "ABSENT"
      /\ r0.noteRow.type = notes[r0.note].type
      /\ r0.noteRow.invoice = notes[r0.note].invoice /\ r0.invoice = r0.noteRow.invoice
  BY <1>1, <1>2 DEF IInv, NotePromises
<1>4. PICK n \in Notes : n = r0.note
  BY <1>3
<1>5. PICK i \in Invoices : i = r0.invoice
  BY <1>2 DEF Guarded, Request
<1>6. Exists(i)
  BY <1>2, <1>3, <1>4, <1>5 DEF IInv, NotesHaveInvoices, Guarded
<1> DEFINE r == [r0 EXCEPT !.step = "noteIssueWrite"]
<1>7. /\ r \in Request /\ r.step = "noteIssueWrite" /\ r.invoice = i /\ r.note = n
      /\ r.noteRow = r0.noteRow
  BY <1>4, <1>5 DEF Request, LockedSteps
<1>8. LockAndProceed(p, i, r)
  BY <1>2, <1>5
<1> HIDE DEF r
<1>9. Quiet(p) /\ RowFresh(p)' /\ req'[p] = [r EXCEPT !.row = invoices[i]] /\ req'[p] \in Request
  BY <1>6, <1>7, <1>8, LockFrame DEF LockedSteps
<1>10. /\ req'[p].step = "noteIssueWrite" /\ req'[p].invoice = i /\ req'[p].note = n
       /\ req'[p].noteRow = r0.noteRow /\ req'[p].row = invoices[i]
  BY <1>7, <1>9 DEF Request
<1>11. IssuedCreditTotal(i, n)' = IssuedCreditTotal(i, n)
  BY <1>9 DEF Quiet, IssuedCreditTotal, IssuedNotes
<1>12. InvoicePromises(p)'
  BY <1>10 DEF InvoicePromises
<1>13. NotePromises(p)'
  <2>1. Guarded(r0) /\ r0.noteRow.type = "CREDIT" /\ i # None
    BY <1>2, <1>5 DEF Guarded
  <2>2. WithinCreditable(r0.noteRow.amount, invoices[i].total, IssuedCreditTotal(i, n)',
                         invoices[i].paid)
    BY <1>2, <1>4, <1>5, <1>11
  <2> QED BY <1>3, <1>4, <1>5, <1>9, <1>10, <2>1, <2>2 DEF NotePromises, Guarded, Quiet
<1> QED BY <1>9, <1>12, <1>13, QuietStep DEF Sound

(* -------------------------- commits on an invoice ----------------------- *)

\* Two requests never hold the same invoice, and nobody holds an unlocked or an
\* absent one.
LEMMA OneHolder ==
  ASSUME IInv, NEW p \in Procs, NEW i \in Invoices,
         Holds(p, i) \/ Unlocked(i) \/ invoices[i].status = "ABSENT"
  PROVE  \A p2 \in Procs \ {p} : ~ Holds(p2, i)
BY ReceivablesNoneAssumption DEF IInv, RowFresh, Holds, Unlocked, Exists

\* A write of invoice i leaves every request what it relies on, when none that
\* goes on holds i.
LEMMA InvoiceCommitFrame ==
  ASSUME IInv, NEW i \in Invoices, TypeOK',
         \A p \in Procs :
           Sound(p)' \/ /\ req'[p] = req[p] /\ ~ Holds(p, i)
                        /\ \A c \in Invoices : lock[c] = p => lock'[c] = p,
         \A c \in Invoices \ {i} :
           invoices'[c] = invoices[c] /\ LiveReceipts(c)' = LiveReceipts(c),
         invoices'[i].status # "ABSENT",
         \A q \in Receipts : receipts[q].invoice # None =>
           receipts'[q].invoice = receipts[q].invoice /\ receipts'[q].amount = receipts[q].amount,
         UNCHANGED notes, stale \subseteq stale',
         ReceiptsHaveInvoices', PaidMatchesLedger', StatusMatchesCash'
  PROVE  IInv'
<1>1. TypeOK
  BY DEF IInv
<1>2. NotesHaveInvoices'
  BY DEF IInv, NotesHaveInvoices, Exists
<1>3. ASSUME NEW p \in Procs
      PROVE  Sound(p)'
  <2>1. CASE Sound(p)'
    BY <2>1
  <2>2. CASE /\ req'[p] = req[p] /\ ~ Holds(p, i)
             /\ \A c \in Invoices : lock[c] = p => lock'[c] = p
    <3>1. Sound(p)
      BY DEF IInv, Sound
    <3>2. \A c \in Invoices : Holds(p, c) =>
            /\ lock'[c] = p /\ invoices'[c] = invoices[c]
            /\ LiveReceipts(c)' = LiveReceipts(c)
      BY <2>2, <3>1 DEF Sound, RowFresh, Holds
    <3>3. \A c : CreditsBounded(c)
      BY <1>1, CreditsFrame
    <3>4. Keeps(p)
      BY <2>2, <3>2, <3>3 DEF Keeps
    <3> QED BY <1>1, <3>1, <3>4, RequestFrame
  <2> QED BY <2>1, <2>2
<1> QED BY <1>2, <1>3 DEF IInv, Sound

\* An invoice that does not exist has no receipts.
LEMMA AbsentHasNoCash ==
  ASSUME IInv, NEW i \in Invoices, invoices[i].status = "ABSENT"
  PROVE  LiveReceipts(i) = {} /\ invoices[i].paid = 0
<1>1. LiveReceipts(i) = {}
  BY ReceivablesNoneAssumption DEF IInv, ReceiptsHaveInvoices, LiveReceipts, Exists
<1> QED BY <1>1, SumEmpty DEF IInv, PaidMatchesLedger

\* create and generateFromJob insert a DRAFT with nothing paid.
LEMMA InsertInvoice ==
  ASSUME IInv, NEW i \in Invoices, NEW job \in Jobs \cup {None}, NEW total \in InvoiceTotals,
         invoices[i].status = "ABSENT",
         invoices' = [invoices EXCEPT ![i] =
                        [status |-> "DRAFT", job |-> job, total |-> total, paid |-> 0]],
         UNCHANGED <<receipts, notes, stale>>,
         lock' \in [Invoices -> Procs \cup {None}], req' \in [Procs -> Request],
         \A p \in Procs :
           Sound(p)' \/ /\ req'[p] = req[p]
                        /\ \A c \in Invoices : lock[c] = p => lock'[c] = p
  PROVE  IInv'
<1> DEFINE row == [status |-> "DRAFT", job |-> job, total |-> total, paid |-> 0]
<1>1. row \in InvoiceRow
  BY ReceivablesMoneyAssumption DEF InvoiceRow, InvoiceStatus
<1>2. row.status = "DRAFT" /\ row.paid = 0
  OBVIOUS
<1> HIDE DEF row
<1>3. invoices'[i] = row /\ \A c \in Invoices \ {i} : invoices'[c] = invoices[c]
  BY DEF IInv, TypeOK, row
<1>4. TypeOK'
  BY <1>1 DEF IInv, TypeOK, row
<1>5. \A c : LiveReceipts(c)' = LiveReceipts(c)
  BY DEF LiveReceipts
<1>6. LiveReceipts(i) = {}
  BY AbsentHasNoCash
<1>7. ReceiptsHaveInvoices'
  BY <1>2, <1>3 DEF IInv, ReceiptsHaveInvoices, Exists
<1>8. PaidMatchesLedger'
  BY <1>2, <1>3, <1>5, <1>6, SumEmpty DEF IInv, PaidMatchesLedger
<1>9. StatusMatchesCash'
  BY <1>2, <1>3 DEF IInv, StatusMatchesCash
<1>10. \A p \in Procs : ~ Holds(p, i)
  BY DEF IInv, RowFresh, Holds, Exists
<1> QED BY <1>2, <1>3, <1>4, <1>5, <1>7, <1>8, <1>9, <1>10, InvoiceCommitFrame

LEMMA CreateInvoiceStep ==
  ASSUME IInv, NEW i \in Invoices, NEW job \in Jobs \cup {None}, NEW total \in InvoiceTotals,
         CreateInvoice(i, job, total)
  PROVE  IInv'
BY InsertInvoice DEF CreateInvoice, IInv, TypeOK

LEMMA CommitGenerateStep ==
  ASSUME IInv, NEW p \in Procs, NEW i \in Invoices, NEW total \in InvoiceTotals,
         CommitGenerate(p, i, total)
  PROVE  IInv'
<1>1. PICK job \in Jobs : job = req[p].job
  BY DEF IInv, InvoicePromises, CommitGenerate
<1>2. /\ lock' \in [Invoices -> Procs \cup {None}] /\ req' \in [Procs -> Request]
      /\ \A p2 \in Procs \ {p} :
           req'[p2] = req[p2] /\ \A c \in Invoices : lock[c] = p2 => lock'[c] = p2
      /\ Sound(p)'
  BY FinishFrame DEF IInv, CommitGenerate
<1>3. /\ invoices[i].status = "ABSENT"
      /\ invoices' = [invoices EXCEPT ![i] =
                        [status |-> "DRAFT", job |-> job, total |-> total, paid |-> 0]]
      /\ UNCHANGED <<receipts, notes, stale>>
  BY <1>1 DEF CommitGenerate
<1>4. \A p2 \in Procs :
        Sound(p2)' \/ /\ req'[p2] = req[p2]
                      /\ \A c \in Invoices : lock[c] = p2 => lock'[c] = p2
  BY <1>2
<1> QED BY <1>2, <1>3, <1>4, InsertInvoice

\* The unlocked writers, update, issue and cancel: no request holds the row they
\* write, and its running total stays as it is.
LEMMA UnlockedWrite ==
  ASSUME IInv, NEW p \in Procs, NEW i \in Invoices, NEW row \in InvoiceRow,
         Exists(i), Unlocked(i), row.status # "ABSENT", row.paid = invoices[i].paid,
         invoices' = [invoices EXCEPT ![i] = row],
         stale' = stale \/ stale' = stale \cup {i},
         i \notin stale' =>
           /\ row.status \notin {"PARTIALLY_PAID", "PAID"} => row.paid = 0
           /\ row.status = "PAID" => row.paid > 0,
         Finish(p), UNCHANGED <<receipts, notes>>
  PROVE  IInv'
<1>1. invoices'[i] = row /\ \A c \in Invoices \ {i} : invoices'[c] = invoices[c]
  BY DEF IInv, TypeOK
<1>2. /\ lock' \in [Invoices -> Procs \cup {None}] /\ req' \in [Procs -> Request]
      /\ \A p2 \in Procs \ {p} :
           req'[p2] = req[p2] /\ \A c \in Invoices : lock[c] = p2 => lock'[c] = p2
      /\ Sound(p)'
  BY FinishFrame DEF IInv
<1>3. TypeOK'
  BY <1>2 DEF IInv, TypeOK
<1>4. \A c : LiveReceipts(c)' = LiveReceipts(c)
  BY DEF LiveReceipts
<1>5. ReceiptsHaveInvoices'
  BY <1>1 DEF IInv, ReceiptsHaveInvoices, Exists
<1>6. PaidMatchesLedger'
  BY <1>1, <1>4 DEF IInv, PaidMatchesLedger
<1>7. StatusMatchesCash'
  BY <1>1 DEF IInv, StatusMatchesCash
<1>8. \A p2 \in Procs \ {p} : ~ Holds(p2, i)
  BY OneHolder
<1> QED BY <1>1, <1>2, <1>3, <1>4, <1>5, <1>6, <1>7, <1>8, InvoiceCommitFrame

LEMMA CommitUpdateStep ==
  ASSUME IInv, NEW p \in Procs, CommitUpdate(p)
  PROVE  IInv'
<1>1. /\ req[p].step = "edit" /\ req[p] \in Request
      /\ Exists(req[p].invoice) /\ req[p].value \in Nat
  BY DEF CommitUpdate, IInv, TypeOK, InvoicePromises
<1>2. PICK i \in Invoices : i = req[p].invoice
  BY <1>1 DEF Exists
<1>3. invoices[i] \in InvoiceRow
  BY DEF IInv, TypeOK
<1> DEFINE job == IF req[p].job = None THEN invoices[i].job ELSE req[p].job
           row == [invoices[i] EXCEPT !.job = job, !.total = req[p].value]
<1>4. /\ row \in InvoiceRow /\ row.status = invoices[i].status /\ row.paid = invoices[i].paid
  BY <1>1, <1>3 DEF InvoiceRow, Request
<1>5. invoices' = [invoices EXCEPT ![i] = row]
  <2>1. invoices' = [invoices EXCEPT ![i].job = job, ![i].total = req[p].value]
    BY <1>2 DEF CommitUpdate
  <2> HIDE DEF job
  <2> QED BY <2>1 DEF IInv, TypeOK
<1>6. /\ Unlocked(i) /\ Finish(p) /\ UNCHANGED <<receipts, notes>>
      /\ stale' = stale \/ stale' = stale \cup {i}
  BY <1>2 DEF CommitUpdate, MarkStale
<1> HIDE DEF row
<1>7. i \notin stale' =>
        /\ row.status \notin {"PARTIALLY_PAID", "PAID"} => row.paid = 0
        /\ row.status = "PAID" => row.paid > 0
  BY <1>4, <1>6 DEF IInv, StatusMatchesCash
<1> QED BY <1>1, <1>2, <1>4, <1>5, <1>6, <1>7, UnlockedWrite DEF Exists

\* issue and cancel write one status over whatever the row has become.
LEMMA WriteStatus ==
  ASSUME IInv, NEW p \in Procs, NEW i \in Invoices, NEW s \in {"ISSUED", "CANCELLED"},
         Exists(i), Unlocked(i),
         invoices' = [invoices EXCEPT ![i].status = s],
         stale' = stale \/ stale' = stale \cup {i},
         i \notin stale' => invoices[i].paid = 0,
         Finish(p), UNCHANGED <<receipts, notes>>
  PROVE  IInv'
<1> DEFINE row == [invoices[i] EXCEPT !.status = s]
<1>1. invoices[i] \in InvoiceRow
  BY DEF IInv, TypeOK
<1>2. row \in InvoiceRow /\ row.status = s /\ row.paid = invoices[i].paid
  BY <1>1 DEF InvoiceRow, InvoiceStatus
<1>3. invoices' = [invoices EXCEPT ![i] = row]
  OBVIOUS
<1> HIDE DEF row
<1>4. i \notin stale' =>
        /\ row.status \notin {"PARTIALLY_PAID", "PAID"} => row.paid = 0
        /\ row.status = "PAID" => row.paid > 0
  BY <1>2
<1> QED BY <1>2, <1>3, <1>4, UnlockedWrite

LEMMA CommitIssueStep ==
  ASSUME IInv, NEW p \in Procs, CommitIssue(p)
  PROVE  IInv'
<1>1. Exists(req[p].invoice) /\ req[p].row.status \in {"DRAFT", "ISSUED"}
  BY DEF CommitIssue, IInv, InvoicePromises
<1>2. PICK i \in Invoices : i = req[p].invoice
  BY <1>1 DEF Exists
<1>3. i \notin stale' => invoices[i].paid = 0
  <2>1. ASSUME i \notin stale'
        PROVE  i \notin stale /\ req[p].row = invoices[i]
    BY <1>2, <2>1 DEF CommitIssue, MarkStale
  <2> QED BY <1>1, <2>1 DEF IInv, StatusMatchesCash
<1> QED BY <1>1, <1>2, <1>3, WriteStatus DEF CommitIssue, MarkStale

LEMMA CommitCancelStep ==
  ASSUME IInv, NEW p \in Procs, CommitCancel(p)
  PROVE  IInv'
<1>1. Exists(req[p].invoice) /\ req[p].row.paid = 0
  BY DEF CommitCancel, IInv, InvoicePromises
<1>2. PICK i \in Invoices : i = req[p].invoice
  BY <1>1 DEF Exists
<1>3. i \notin stale' => invoices[i].paid = 0
  BY <1>1, <1>2 DEF CommitCancel, MarkStale
<1>4. stale' = stale \/ stale' = stale \cup {i}
  BY <1>2 DEF CommitCancel, MarkStale
<1> QED BY <1>1, <1>2, <1>3, <1>4, WriteStatus DEF CommitCancel

\* A write of one invoice's settlement (paid and status) under its lock, with
\* the receipts that justify it, keeps the invariant.
LEMMA SettlementWrite ==
  ASSUME IInv, NEW p \in Procs, NEW i \in Invoices, Holds(p, i), Exists(i),
         NEW paid \in Nat, NEW s \in {"ISSUED", "PARTIALLY_PAID", "PAID"},
         invoices' = [invoices EXCEPT ![i].paid = paid, ![i].status = s],
         receipts' \in [Receipts -> ReceiptRow],
         \A q \in Receipts :
           \/ receipts'[q] = receipts[q]
           \/ receipts'[q].invoice = i /\ receipts[q].invoice \in {i, None},
         \A q \in Receipts : receipts[q].invoice # None =>
           receipts'[q].invoice = receipts[q].invoice /\ receipts'[q].amount = receipts[q].amount,
         paid = SumOf(receipts', LiveReceipts(i)'),
         s = "PAID" => paid > 0, s = "ISSUED" => paid = 0,
         stale' = stale \/ stale' = stale \cup {i},
         Finish(p), UNCHANGED notes
  PROVE  IInv'
<1> DEFINE row == [invoices[i] EXCEPT !.paid = paid, !.status = s]
<1>1. invoices[i] \in InvoiceRow
  BY DEF IInv, TypeOK
<1>2. row \in InvoiceRow /\ row.status = s /\ row.paid = paid
  BY <1>1 DEF InvoiceRow, InvoiceStatus
<1>3. invoices' = [invoices EXCEPT ![i] = row]
  BY <1>1 DEF IInv, TypeOK, InvoiceRow
<1> HIDE DEF row
<1>4. invoices'[i] = row /\ \A c \in Invoices \ {i} : invoices'[c] = invoices[c]
  BY <1>3 DEF IInv, TypeOK
<1>5. /\ lock' \in [Invoices -> Procs \cup {None}] /\ req' \in [Procs -> Request]
      /\ \A p2 \in Procs \ {p} :
           req'[p2] = req[p2] /\ \A c \in Invoices : lock[c] = p2 => lock'[c] = p2
      /\ Sound(p)'
  BY FinishFrame DEF IInv
<1>6. TypeOK'
  <2>1. TypeOK
    BY DEF IInv
  <2>2. invoices' \in [Invoices -> InvoiceRow]
    BY <1>2, <1>3, <2>1 DEF TypeOK
  <2> QED BY <1>5, <2>1, <2>2 DEF TypeOK
<1>7. \A c \in Invoices \ {i} : LiveReceipts(c)' = LiveReceipts(c)
  BY ReceivablesNoneAssumption DEF LiveReceipts
<1>8. ASSUME NEW c \in Invoices \ {i}
      PROVE  SumOf(receipts', LiveReceipts(c)') = SumOf(receipts, LiveReceipts(c))
  <2>1. \A q \in LiveReceipts(c) : receipts[q].amount = receipts'[q].amount
    BY ReceivablesNoneAssumption DEF LiveReceipts
  <2>2. SumOf(receipts, LiveReceipts(c)) = SumOf(receipts', LiveReceipts(c))
    BY <2>1, SumSame
  <2> QED BY <2>2, <1>7
<1>9. ReceiptsHaveInvoices'
  <2>1. ASSUME NEW q \in Receipts, receipts'[q].invoice # None
        PROVE  Exists(receipts[q].invoice)'
    <3>1. CASE receipts'[q].invoice = i
      BY <3>1, <1>2, <1>4 DEF Exists
    <3>2. CASE receipts'[q].invoice # i
      <4>1. receipts'[q] = receipts[q]
        BY <3>2
      <4>2. Exists(receipts[q].invoice)
        BY <2>1, <4>1 DEF IInv, ReceiptsHaveInvoices
      <4> QED BY <3>2, <4>1, <4>2, <1>4 DEF Exists
    <3> QED BY <3>1, <3>2
  <2> QED BY <2>1 DEF ReceiptsHaveInvoices
<1>10. PaidMatchesLedger'
  BY <1>2, <1>4, <1>8 DEF IInv, PaidMatchesLedger
<1>11. StatusMatchesCash'
  BY <1>2, <1>4 DEF IInv, StatusMatchesCash
<1>12. \A p2 \in Procs \ {p} : ~ Holds(p2, i)
  BY OneHolder
<1>13. invoices'[i].status # "ABSENT"
  BY <1>2, <1>4
<1> QED BY <1>4, <1>5, <1>6, <1>7, <1>9, <1>10, <1>11, <1>12, <1>13, InvoiceCommitFrame

\* What recordPayment does to the tables, in terms of the row it holds.
Pays(p, q, i, a, net, paid, s) ==
  /\ Holds(p, i) /\ Exists(i)
  /\ receipts[q].invoice = None
  /\ receipts' = [receipts EXCEPT ![q] =
                    [invoice |-> i, amount |-> Round2(a), reversedBy |-> None]]
  /\ invoices' = [invoices EXCEPT ![i].paid = paid, ![i].status = s]
  /\ Round2(a) \in Nat
  /\ paid = invoices[i].paid + Round2(a)
  /\ paid <= invoices[i].total + net
  /\ invoices[i].status \in {"ISSUED", "PARTIALLY_PAID"}
  /\ s = "PAID" => paid > 0
  /\ stale' = IF net = IssuedNoteNet(i) THEN stale ELSE stale \cup {i}
  /\ Finish(p) /\ UNCHANGED notes

LEMMA PayFacts ==
  ASSUME IInv, NEW p \in Procs, NEW q \in Receipts, CommitPay(p, q)
  PROVE  \E i \in Invoices, a \in Amounts, net \in Int, paid \in Nat,
            s \in {"PARTIALLY_PAID", "PAID"} : Pays(p, q, i, a, net, paid, s)
<1>1. PICK r \in Request : r = req[p]
  BY DEF IInv, TypeOK
<1>2. /\ r.step = "pay" /\ Exists(r.invoice) /\ r.row = invoices[r.invoice]
      /\ r.value \in Amounts /\ r.row.status \in {"ISSUED", "PARTIALLY_PAID"}
      /\ PaymentAccepted(r.row.total + r.net, r.row.paid, r.value)
  BY <1>1 DEF IInv, RowFresh, InvoicePromises, CommitPay, LockedSteps
<1>3. PICK i \in Invoices : i = r.invoice
  BY <1>2 DEF Exists
<1>4. PICK a \in Amounts : a = r.value
  BY <1>2
<1>5. PICK net \in Int : net = r.net
  BY DEF Request
<1>6. a \in Nat /\ invoices[i] \in InvoiceRow
  BY ReceivablesMoneyAssumption DEF IInv, TypeOK
<1>7. PICK collectible \in Int : collectible = invoices[i].total + net
  BY <1>6 DEF InvoiceRow
<1>8. invoices[i].paid \in Nat /\ PaymentAccepted(collectible, invoices[i].paid, a)
  BY <1>2, <1>3, <1>4, <1>5, <1>6, <1>7 DEF InvoiceRow
<1>9. /\ Round2(a) \in Nat /\ PaidAfter(invoices[i].paid, a) \in Nat
      /\ PaidAfter(invoices[i].paid, a) <= collectible /\ collectible > 0
  BY <1>6, <1>8, PaymentFits
<1>10. PICK paid \in Nat : paid = PaidAfter(invoices[i].paid, a)
  BY <1>9
<1>11. paid = invoices[i].paid + Round2(a)
  BY <1>10 DEF PaidAfter
<1> DEFINE s == StatusAfterPayment(collectible, paid)
<1>12. s \in {"PARTIALLY_PAID", "PAID"} /\ (s = "PAID" => paid > 0)
  BY <1>9 DEF StatusAfterPayment
<1>13. /\ receipts[q].invoice = None
       /\ receipts' = [receipts EXCEPT ![q] =
                         [invoice |-> i, amount |-> Round2(a), reversedBy |-> None]]
       /\ invoices' = [invoices EXCEPT ![i].paid = paid, ![i].status = s]
       /\ stale' = IF net = IssuedNoteNet(i) THEN stale ELSE stale \cup {i}
       /\ Finish(p) /\ UNCHANGED notes
  BY <1>1, <1>2, <1>3, <1>4, <1>5, <1>7, <1>10 DEF CommitPay, MarkStale
<1>14. Holds(p, i) /\ Exists(i) /\ invoices[i].status \in {"ISSUED", "PARTIALLY_PAID"}
  BY <1>1, <1>2, <1>3 DEF Holds, LockedSteps
<1> HIDE DEF s
<1> QED BY <1>7, <1>9, <1>10, <1>11, <1>12, <1>13, <1>14 DEF Pays

\* recordPayment: the new row and the new running total agree.
LEMMA CommitPayStep ==
  ASSUME IInv, NEW p \in Procs, NEW q \in Receipts, CommitPay(p, q)
  PROVE  IInv'
<1>1. PICK i \in Invoices, a \in Amounts, net \in Int, paid \in Nat,
           s \in {"PARTIALLY_PAID", "PAID"} : Pays(p, q, i, a, net, paid, s)
  BY PayFacts
<1>2. PICK cents \in Nat : cents = Round2(a)
  BY <1>1 DEF Pays
<1>3. /\ receipts[q].invoice = None
      /\ receipts' = [receipts EXCEPT ![q] =
                        [invoice |-> i, amount |-> cents, reversedBy |-> None]]
      /\ paid = invoices[i].paid + cents
  BY <1>1, <1>2 DEF Pays
<1> DEFINE row == [invoice |-> i, amount |-> cents, reversedBy |-> None]
<1>4. row \in ReceiptRow /\ row.invoice = i /\ row.amount = cents /\ row.reversedBy = None
  BY DEF ReceiptRow
<1>5. receipts' = [receipts EXCEPT ![q] = row]
  BY <1>3
<1> HIDE DEF row
<1>6. /\ receipts \in [Receipts -> ReceiptRow] /\ receipts' \in [Receipts -> ReceiptRow]
      /\ receipts'[q] = row /\ \A x \in Receipts \ {q} : receipts'[x] = receipts[x]
  BY <1>4, <1>5 DEF IInv, TypeOK
<1>7. PICK L \in SUBSET Receipts : L = LiveReceipts(i)
  BY DEF LiveReceipts
<1>8. q \notin L /\ LiveReceipts(i)' = L \cup {q}
  BY <1>3, <1>4, <1>6, <1>7, ReceivablesNoneAssumption DEF LiveReceipts
<1>9. paid = SumOf(receipts', LiveReceipts(i)')
  <2>1. invoices[i].paid = SumOf(receipts, L)
    BY <1>7 DEF IInv, PaidMatchesLedger
  <2>2. PICK rows \in [Receipts -> ReceiptRow] : rows = receipts'
    BY <1>6
  <2>3. SumOf(receipts, L) = SumOf(rows, L)
    <3>1. \A x \in L : receipts[x].amount = rows[x].amount
      BY <1>6, <1>8, <2>2
    <3> QED BY <3>1, SumSame
  <2>4. SumOf(rows, L \cup {q}) = SumOf(rows, L) + rows[q].amount
    <3>1. HasAmounts(rows, L) /\ rows[q].amount \in Nat
      BY ReceiptsHaveAmounts DEF ReceiptRow
    <3> QED BY <1>8, <3>1, SumAdd
  <2>5. rows[q].amount = cents
    BY <1>4, <1>6, <2>2
  <2> QED BY <1>3, <1>8, <2>1, <2>2, <2>3, <2>4, <2>5
<1>10. \A x \in Receipts :
        \/ receipts'[x] = receipts[x]
        \/ receipts'[x].invoice = i /\ receipts[x].invoice \in {i, None}
  BY <1>3, <1>4, <1>6
<1>11. \A x \in Receipts : receipts[x].invoice # None =>
        receipts'[x].invoice = receipts[x].invoice /\ receipts'[x].amount = receipts[x].amount
  BY <1>3, <1>6
<1>12. stale' = stale \/ stale' = stale \cup {i}
  BY <1>1 DEF Pays
<1> QED BY <1>1, <1>6, <1>9, <1>10, <1>11, <1>12, SettlementWrite DEF Pays

\* What reversePayment does to the tables, in terms of the row it holds.
Reverses(p, q, i, paid, s) ==
  /\ Holds(p, i) /\ Exists(i)
  /\ q \in LiveReceipts(i)
  /\ paid = SumOf(receipts, LiveReceipts(i) \ {q})
  /\ s = "PAID" => paid > 0
  /\ s = "ISSUED" => paid = 0
  /\ receipts' = [receipts EXCEPT ![q].reversedBy = p]
  /\ invoices' = [invoices EXCEPT ![i].paid = paid, ![i].status = s]
  /\ stale' = stale \/ stale' = stale \cup {i}
  /\ Finish(p) /\ UNCHANGED notes

LEMMA ReversalFacts ==
  ASSUME IInv, NEW p \in Procs, CommitReversal(p)
  PROVE  \E i \in Invoices, q \in Receipts, paid \in Nat,
            s \in {"ISSUED", "PARTIALLY_PAID", "PAID"} : Reverses(p, q, i, paid, s)
<1>1. PICK r \in Request : r = req[p]
  BY DEF IInv, TypeOK
<1>2. /\ r.step = "reverseWrite" /\ Exists(r.invoice) /\ r.row = invoices[r.invoice]
      /\ r.receipt \in Receipts /\ receipts[r.receipt].invoice = r.invoice
      /\ receipts[r.receipt].reversedBy = None
      /\ r.value = SumOf(receipts, LiveReceipts(r.invoice) \ {r.receipt})
  BY <1>1 DEF IInv, RowFresh, InvoicePromises, CommitReversal, LockedSteps
<1>3. PICK i \in Invoices : i = r.invoice
  BY <1>2 DEF Exists
<1>4. PICK q \in Receipts : q = r.receipt
  BY <1>2
<1>5. PICK paid \in Nat : paid = SumOf(receipts, LiveReceipts(i) \ {q})
  <2>1. LiveReceipts(i) \ {q} \in SUBSET Receipts
    BY DEF LiveReceipts
  <2> QED BY <2>1, ReceiptsHaveAmounts, SumType DEF IInv, TypeOK
<1>6. paid = r.value
  BY <1>2, <1>3, <1>4, <1>5
<1> DEFINE s == StatusAfterReversal("ISSUED", r.row.total + r.net, paid)
<1>7. /\ s \in {"ISSUED", "PARTIALLY_PAID", "PAID"}
      /\ s = "PAID" => paid > 0
      /\ s = "ISSUED" => paid = 0
  BY DEF StatusAfterReversal, StatusAfterPayment
<1>8. /\ receipts' = [receipts EXCEPT ![q].reversedBy = p]
      /\ invoices' = [invoices EXCEPT ![i].paid = paid, ![i].status = s]
      /\ stale' = stale \/ stale' = stale \cup {i}
      /\ Finish(p) /\ UNCHANGED notes
  BY <1>1, <1>3, <1>4, <1>6 DEF CommitReversal, MarkStale
<1>9. Holds(p, i) /\ Exists(i) /\ q \in LiveReceipts(i)
  BY <1>1, <1>2, <1>3, <1>4 DEF Holds, LockedSteps, LiveReceipts
<1> HIDE DEF s
<1> QED BY <1>5, <1>7, <1>8, <1>9 DEF Reverses

\* reversePayment: the total becomes the sum of the receipts that remain.
LEMMA CommitReversalStep ==
  ASSUME IInv, NEW p \in Procs, CommitReversal(p)
  PROVE  IInv'
<1>1. PICK i \in Invoices, q \in Receipts, paid \in Nat,
           s \in {"ISSUED", "PARTIALLY_PAID", "PAID"} : Reverses(p, q, i, paid, s)
  BY ReversalFacts
<1> DEFINE row == [receipts[q] EXCEPT !.reversedBy = p]
<1>2. receipts \in [Receipts -> ReceiptRow] /\ receipts[q] \in ReceiptRow
  BY DEF IInv, TypeOK
<1>3. /\ row \in ReceiptRow /\ row.invoice = receipts[q].invoice
      /\ row.amount = receipts[q].amount /\ row.reversedBy = p
  BY <1>2 DEF ReceiptRow
<1>4. receipts' = [receipts EXCEPT ![q] = row]
  BY <1>1, <1>2 DEF Reverses
<1> HIDE DEF row
<1>5. /\ receipts' \in [Receipts -> ReceiptRow]
      /\ receipts'[q] = row /\ \A x \in Receipts \ {q} : receipts'[x] = receipts[x]
  BY <1>2, <1>3, <1>4
<1>6. PICK rest \in SUBSET Receipts : rest = LiveReceipts(i) \ {q}
  BY DEF LiveReceipts
<1>7. LiveReceipts(i)' = rest
  BY <1>3, <1>5, <1>6, ReceivablesNoneAssumption DEF LiveReceipts
<1>8. paid = SumOf(receipts', LiveReceipts(i)')
  <2>1. \A x \in rest : receipts[x].amount = receipts'[x].amount
    BY <1>5, <1>6
  <2>2. SumOf(receipts, rest) = SumOf(receipts', rest)
    BY <2>1, SumSame
  <2> QED BY <1>1, <1>6, <1>7, <2>2 DEF Reverses
<1>9. receipts[q].invoice = i
  BY <1>1 DEF LiveReceipts, Reverses
<1>10. \A x \in Receipts :
         \/ receipts'[x] = receipts[x]
         \/ receipts'[x].invoice = i /\ receipts[x].invoice \in {i, None}
  BY <1>3, <1>5, <1>9
<1>11. \A x \in Receipts : receipts[x].invoice # None =>
         receipts'[x].invoice = receipts[x].invoice /\ receipts'[x].amount = receipts[x].amount
  BY <1>3, <1>5
<1> QED BY <1>1, <1>5, <1>8, <1>10, <1>11, SettlementWrite DEF Reverses

(* --------------------------- commits on a note -------------------------- *)

\* Note n now says row, and the credits of an invoice another request holds
\* have not grown: a credit note of it became ISSUED, or changed its amount
\* while ISSUED, only under that invoice's lock or from a read that no longer
\* held.
LEMMA CreditsBoundedByLock ==
  ASSUME IInv, TypeOK', NEW p \in Procs, NEW n \in Notes, NEW row \in NoteRow,
         notes' = [notes EXCEPT ![n] = row],
         stale \subseteq stale',
         notes[n].status # "ABSENT" => row.invoice = notes[n].invoice,
         row.type = "CREDIT" /\ row.status = "ISSUED" =>
           n \in stale' \/ (row.invoice \in Invoices /\ Holds(p, row.invoice)),
         NEW i \in Invoices, ~ Holds(p, i)
  PROVE  CreditsBounded(i)
<1> SUFFICES ASSUME NotesHeld(i)', NEW m
             PROVE  NotesHeld(i) /\ IssuedCreditTotal(i, m)' <= IssuedCreditTotal(i, m)
  BY DEF CreditsBounded
<1>1. notes'[n] = row /\ \A x \in Notes \ {n} : notes'[x] = notes[x]
  BY DEF IInv, TypeOK
<1>2. notes[n].invoice = i => row.invoice = i
  BY ReceivablesNoneAssumption DEF IInv, NotesHaveInvoices, NoNote
<1>3. NotesHeld(i)
  BY <1>1, <1>2 DEF NotesHeld
<1>4. ~ (row.type = "CREDIT" /\ row.status = "ISSUED" /\ row.invoice = i)
  BY <1>1 DEF NotesHeld
<1>5. PICK S \in SUBSET Notes : S = IssuedNotes(i, "CREDIT") \ {m}
  BY DEF IssuedNotes
<1>6. PICK T \in SUBSET S : T = IssuedNotes(i, "CREDIT")' \ {m}
  BY <1>1, <1>4, <1>5 DEF IssuedNotes
<1>7. \A x \in T : notes[x].amount = notes'[x].amount
  BY <1>1, <1>4, <1>6 DEF IssuedNotes
<1>8. SumOf(notes, T) = SumOf(notes', T)
  BY ONLY <1>7, SumSame
<1>9. SumOf(notes, T) <= SumOf(notes, S)
  BY NotesHaveAmounts, SumMonotone DEF IInv, TypeOK
<1>10. IssuedCreditTotal(i, m) = SumOf(notes, S) /\ IssuedCreditTotal(i, m)' = SumOf(notes', T)
  BY <1>5, <1>6 DEF IssuedCreditTotal
<1> QED BY <1>3, <1>8, <1>9, <1>10

\* Such a write leaves every request what it relies on.
LEMMA NoteCommitFrame ==
  ASSUME IInv, NEW p \in Procs, NEW n \in Notes, NEW row \in NoteRow,
         row.status # "ABSENT",
         row.invoice # None => Exists(row.invoice),
         row.type = "CREDIT" => row.invoice # None,
         notes[n].status # "ABSENT" =>
           row.type = notes[n].type /\ row.invoice = notes[n].invoice,
         row.type = "CREDIT" /\ row.status = "ISSUED" =>
           n \in stale' \/ (row.invoice \in Invoices /\ Holds(p, row.invoice)),
         notes' = [notes EXCEPT ![n] = row],
         stale' = stale \/ stale' = stale \cup {n},
         Finish(p), UNCHANGED <<invoices, receipts>>
  PROVE  IInv'
<1>1. TypeOK
  BY DEF IInv
<1>2. /\ lock' \in [Invoices -> Procs \cup {None}] /\ req' \in [Procs -> Request]
      /\ \A p2 \in Procs \ {p} :
           req'[p2] = req[p2] /\ \A c \in Invoices : lock[c] = p2 => lock'[c] = p2
      /\ Sound(p)'
  BY <1>1, FinishFrame
<1>3. TypeOK'
  BY <1>1, <1>2 DEF TypeOK
<1>4. notes'[n] = row /\ \A x \in Notes \ {n} : notes'[x] = notes[x]
  BY <1>1 DEF TypeOK
<1>5. NotesHaveInvoices'
  BY <1>4 DEF IInv, NotesHaveInvoices, Exists
<1>6. ReceiptsHaveInvoices' /\ PaidMatchesLedger' /\ StatusMatchesCash'
  BY DEF IInv, ReceiptsHaveInvoices, Exists, PaidMatchesLedger, LiveReceipts, StatusMatchesCash
<1>7. ASSUME NEW p2 \in Procs \ {p}
      PROVE  Sound(p2)'
  <2>1. Sound(p2)
    BY DEF IInv, Sound
  <2>2. ASSUME NEW i \in Invoices, Holds(p2, i)
        PROVE  /\ lock'[i] = p2 /\ LiveReceipts(i)' = LiveReceipts(i)
               /\ CreditsBounded(i)
    <3>1. ~ Holds(p, i)
      BY <2>2, OneHolder
    <3>2. CreditsBounded(i)
      BY <1>3, <3>1, CreditsBoundedByLock
    <3> QED BY <1>2, <2>1, <2>2, <3>2 DEF Sound, RowFresh, Holds, LiveReceipts
  <2>3. Keeps(p2)
    BY <1>2, <1>4, <2>2 DEF Keeps
  <2> QED BY <1>1, <1>3, <2>1, <2>3, RequestFrame
<1> QED BY <1>2, <1>3, <1>5, <1>6, <1>7 DEF IInv, Sound

\* create inserts a DRAFT: no credit yet.
LEMMA CommitCreateNoteStep ==
  ASSUME IInv, NEW p \in Procs, NEW n \in Notes, CommitCreateNote(p, n)
  PROVE  IInv'
<1>1. PICK row \in NoteRow : row = req[p].noteRow
  BY DEF IInv, TypeOK, Request
<1>2. /\ row.status = "DRAFT" /\ row.invoice = req[p].invoice
      /\ row.invoice # None => Exists(row.invoice)
      /\ row.type = "CREDIT" => row.invoice # None
  BY <1>1 DEF IInv, NotePromises, CommitCreateNote
<1>3. /\ notes[n].status = "ABSENT" /\ notes' = [notes EXCEPT ![n] = row]
      /\ stale' = stale \/ stale' = stale \cup {n}
      /\ Finish(p) /\ UNCHANGED <<invoices, receipts>>
  BY <1>1 DEF CommitCreateNote, MarkStale
<1> QED BY <1>2, <1>3, NoteCommitFrame

\* What the writes of an existing note rely on.
LEMMA NoteInHand ==
  ASSUME IInv, NEW p \in Procs,
         req[p].step \in {"noteEdit", "noteIssue", "noteIssueWrite", "noteCancel"}
  PROVE  /\ req[p].note \in Notes /\ req[p].noteRow \in NoteRow
         /\ \A n \in Notes : n = req[p].note =>
              /\ notes[n] \in NoteRow /\ notes[n].status # "ABSENT"
              /\ req[p].noteRow.type = notes[n].type
              /\ req[p].noteRow.invoice = notes[n].invoice
              /\ notes[n].invoice # None => Exists(notes[n].invoice)
              /\ notes[n].type = "CREDIT" => notes[n].invoice # None
BY DEF IInv, TypeOK, Request, NotePromises, NotesHaveInvoices

\* An edit can reach a note that was issued since it was read, and is then
\* marked as written from a read that no longer held.
LEMMA CommitUpdateNoteStep ==
  ASSUME IInv, NEW p \in Procs, CommitUpdateNote(p)
  PROVE  IInv'
<1>1. req[p].step = "noteEdit" /\ req[p].noteRow.status = "DRAFT" /\ req[p] \in Request
  BY DEF CommitUpdateNote, IInv, TypeOK, NotePromises
<1>2. PICK n \in Notes : n = req[p].note
  BY <1>1, NoteInHand
<1>3. /\ notes[n] \in NoteRow /\ notes[n].status # "ABSENT"
      /\ notes[n].invoice # None => Exists(notes[n].invoice)
      /\ notes[n].type = "CREDIT" => notes[n].invoice # None
  BY <1>1, <1>2, NoteInHand
<1> DEFINE total == IF req[p].value = None THEN notes[n].amount ELSE req[p].value
           row == [notes[n] EXCEPT !.amount = total]
<1>4. total \in Nat
  BY <1>1, <1>3 DEF Request, NoteRow
<1>5. /\ notes' = [notes EXCEPT ![n].amount = total]
      /\ stale' = IF req[p].noteRow = notes[n] THEN stale ELSE stale \cup {n}
      /\ Finish(p) /\ UNCHANGED <<invoices, receipts>>
  BY <1>2 DEF CommitUpdateNote, MarkStale
<1> HIDE DEF total
<1>6. /\ row \in NoteRow /\ row.status = notes[n].status /\ row.type = notes[n].type
      /\ row.invoice = notes[n].invoice /\ notes' = [notes EXCEPT ![n] = row]
  BY <1>3, <1>4, <1>5 DEF NoteRow
<1> HIDE DEF row
<1>7. row.status = "ISSUED" => n \in stale'
  BY <1>1, <1>5, <1>6
<1> QED BY <1>3, <1>5, <1>6, <1>7, NoteCommitFrame

\* A credit note is issued under its invoice's lock.
LEMMA CommitIssueNoteStep ==
  ASSUME IInv, NEW p \in Procs, CommitIssueNote(p)
  PROVE  IInv'
<1>1. /\ req[p].step \in {"noteIssue", "noteIssueWrite"}
      /\ Guarded(req[p]) => req[p].step = "noteIssueWrite"
  BY DEF CommitIssueNote
<1>2. PICK n \in Notes : n = req[p].note
  BY <1>1, NoteInHand
<1>3. /\ notes[n] \in NoteRow /\ notes[n].status # "ABSENT"
      /\ req[p].noteRow.type = notes[n].type
      /\ req[p].noteRow.invoice = notes[n].invoice
      /\ notes[n].invoice # None => Exists(notes[n].invoice)
      /\ notes[n].type = "CREDIT" => notes[n].invoice # None
  BY <1>1, <1>2, NoteInHand
<1>4. req[p].invoice = notes[n].invoice
  BY <1>1, <1>3 DEF IInv, NotePromises
<1> DEFINE row == [notes[n] EXCEPT !.status = "ISSUED"]
<1>5. /\ row \in NoteRow /\ row.status = "ISSUED" /\ row.type = notes[n].type
      /\ row.invoice = notes[n].invoice
  BY <1>3 DEF NoteRow, AdjustmentStatus
<1>6. /\ notes' = [notes EXCEPT ![n] = row]
      /\ stale' = stale \/ stale' = stale \cup {n}
      /\ Finish(p) /\ UNCHANGED <<invoices, receipts>>
  BY <1>2 DEF CommitIssueNote, MarkStale
<1> HIDE DEF row
<1>7. row.type = "CREDIT" => row.invoice \in Invoices /\ Holds(p, row.invoice)
  BY <1>1, <1>3, <1>4, <1>5 DEF Guarded, Holds, LockedSteps, Exists
<1> QED BY <1>3, <1>5, <1>6, <1>7, NoteCommitFrame

\* Cancelling takes a note out of the sums.
LEMMA CommitCancelNoteStep ==
  ASSUME IInv, NEW p \in Procs, CommitCancelNote(p)
  PROVE  IInv'
<1>1. req[p].step = "noteCancel"
  BY DEF CommitCancelNote
<1>2. PICK n \in Notes : n = req[p].note
  BY <1>1, NoteInHand
<1>3. /\ notes[n] \in NoteRow /\ notes[n].status # "ABSENT"
      /\ notes[n].invoice # None => Exists(notes[n].invoice)
      /\ notes[n].type = "CREDIT" => notes[n].invoice # None
  BY <1>1, <1>2, NoteInHand
<1> DEFINE row == [notes[n] EXCEPT !.status = "CANCELLED"]
<1>4. /\ row \in NoteRow /\ row.status = "CANCELLED" /\ row.type = notes[n].type
      /\ row.invoice = notes[n].invoice
  BY <1>3 DEF NoteRow, AdjustmentStatus
<1>5. /\ notes' = [notes EXCEPT ![n] = row]
      /\ stale' = stale \/ stale' = stale \cup {n}
      /\ Finish(p) /\ UNCHANGED <<invoices, receipts>>
  BY <1>2 DEF CommitCancelNote, MarkStale
<1> HIDE DEF row
<1> QED BY <1>3, <1>4, <1>5, NoteCommitFrame

(* -------------------------------- theorems ------------------------------ *)

LEMMA InitEstablishes == Init => IInv
<1> SUFFICES ASSUME Init PROVE IInv
  OBVIOUS
<1>1. TypeOK
  BY IdleType DEF Init, StoreInit, TypeOK, NoInvoice, InvoiceRow, NoReceipt, ReceiptRow, NoNote, NoteRow
<1>2. \A i \in Invoices : LiveReceipts(i) = {} /\ invoices[i].paid = 0 /\ invoices[i].status = "ABSENT"
  BY ReceivablesNoneAssumption DEF Init, StoreInit, LiveReceipts, NoReceipt, NoInvoice
<1>3. ReceiptsHaveInvoices /\ NotesHaveInvoices
  BY DEF Init, StoreInit, ReceiptsHaveInvoices, NotesHaveInvoices, NoReceipt, NoNote
<1>4. PaidMatchesLedger /\ StatusMatchesCash
  BY <1>2, SumEmpty DEF PaidMatchesLedger, StatusMatchesCash
<1>5. \A p \in Procs : RowFresh(p) /\ InvoicePromises(p) /\ NotePromises(p)
  BY DEF Init, StoreInit, Idle, RowFresh, InvoicePromises, NotePromises, LockedSteps
<1> QED BY <1>1, <1>3, <1>4, <1>5 DEF IInv

LEMMA StepPreserves == IInv /\ [Next]_vars => IInv'
<1> SUFFICES ASSUME IInv, [Next]_vars PROVE IInv'
  OBVIOUS
<1>1. ASSUME NEW p \in Procs, Begin(p)
      PROVE  IInv'
  BY <1>1, CreateInvoiceStep, BeginUpdateStep, BeginGenerateStep, BeginIssueStep,
     BeginCancelStep, BeginPayStep, LocateReceiptStep, BeginCreateNoteStep, BeginUpdateNoteStep,
     BeginIssueNoteStep, BeginCancelNoteStep DEF Begin, BeginOnInvoice, BeginOnNote
<1>2. ASSUME NEW p \in Procs, Advance(p)
      PROVE  IInv'
  BY <1>2, CommitGenerateStep, CommitUpdateStep, CommitIssueStep, CountNotesStep,
     CommitCancelStep, LockForPayStep, CommitPayStep, LockForReversalStep, SumRemainingStep,
     CommitReversalStep, CommitCreateNoteStep, CommitUpdateNoteStep, GuardCreditStep,
     CommitIssueNoteStep, CommitCancelNoteStep DEF Advance, AdvanceOnInvoice, AdvanceOnNote
<1>3. CASE UNCHANGED vars
  <2>1. /\ invoices' = invoices /\ receipts' = receipts /\ notes' = notes
        /\ lock' = lock /\ req' = req /\ stale' = stale
    BY <1>3 DEF vars
  <2>2. TypeOK'
    BY <2>1 DEF IInv, TypeOK
  <2>3. ReceiptsHaveInvoices' /\ NotesHaveInvoices' /\ PaidMatchesLedger' /\ StatusMatchesCash'
    BY <2>1 DEF IInv, ReceiptsHaveInvoices, NotesHaveInvoices, Exists, PaidMatchesLedger,
                LiveReceipts, StatusMatchesCash
  <2>4. ASSUME NEW p \in Procs
        PROVE  Sound(p)'
    <3>1. Sound(p) /\ TypeOK
      BY DEF IInv, Sound
    <3>2. \A i : CreditsBounded(i) /\ LiveReceipts(i)' = LiveReceipts(i)
      BY <2>1, <3>1, CreditsFrame DEF LiveReceipts
    <3>3. Keeps(p)
      BY <2>1, <3>1, <3>2 DEF Keeps, Holds, Sound, RowFresh
    <3> QED BY <2>2, <3>1, <3>3, RequestFrame
  <2> QED BY <2>2, <2>3, <2>4 DEF IInv, Sound
<1> QED BY <1>1, <1>2, <1>3, AbortStep DEF Next

\* Every reachable state of any number of requests satisfies the invariant.
THEOREM InductiveInvariant == Spec => []IInv
<1>1. Init => IInv
  BY InitEstablishes
<1>2. IInv /\ [Next]_vars => IInv'
  BY StepPreserves
<1> QED BY <1>1, <1>2, PTL DEF Spec

\* The tables and requests only ever hold values of their types.
THEOREM TypeCorrect == Spec => []TypeOK
<1>1. IInv => TypeOK
  BY DEF IInv
<1> QED BY <1>1, InductiveInvariant, PTL

\* Whatever receipts, reversals, edits, issues and cancellations run
\* concurrently, an invoice's running total is the sum of its receipts that are
\* not reversed (recordPayment, reversePayment).
THEOREM LedgerCorrect == Spec => []PaidMatchesLedger
<1>1. IInv => PaidMatchesLedger
  BY DEF IInv
<1> QED BY <1>1, InductiveInvariant, PTL

\* An invoice is unpaid, partly paid or paid as its status says, as long as
\* every write of it was based on what still held.
THEOREM StatusCorrect == Spec => []StatusMatchesCash
<1>1. IInv => StatusMatchesCash
  BY DEF IInv
<1> QED BY <1>1, InductiveInvariant, PTL

(* ----------------------------- action properties ------------------------ *)

\* No step but a receipt and its reversal touches a receipt or a running total:
\* an invoice is inserted with nothing paid, and while it does not exist nothing
\* is paid on it either.
LEMMA OtherStepsKeepCash ==
  ASSUME IInv, NEW p \in Procs, Begin(p) \/ Advance(p) \/ Abort(p),
         \A q \in Receipts : ~ CommitPay(p, q), ~ CommitReversal(p)
  PROVE  receipts' = receipts /\ \A i \in Invoices : invoices'[i].paid = invoices[i].paid
<1>1. receipts' = receipts
  BY DEF Begin, Advance, Abort, BeginOnInvoice, BeginOnNote, AdvanceOnInvoice, AdvanceOnNote,
         CreateInvoice, BeginUpdate, BeginGenerate, BeginIssue, BeginCancel, BeginPay,
         LocateReceipt, BeginCreateNote, BeginUpdateNote, BeginIssueNote, BeginCancelNote,
         CommitGenerate, CommitUpdate, CommitIssue, CountNotes, CommitCancel, LockForPay,
         LockForReversal, SumRemaining, CommitCreateNote, CommitUpdateNote, GuardCredit,
         CommitIssueNote, CommitCancelNote, Proceed, LockAndProceed, tables
<1>2. ASSUME NEW i \in Invoices, NEW job, NEW total, invoices[i].status = "ABSENT",
             invoices' = [invoices EXCEPT ![i] =
                            [status |-> "DRAFT", job |-> job, total |-> total, paid |-> 0]]
      PROVE  \A c \in Invoices : invoices'[c].paid = invoices[c].paid
  <2>1. invoices[i].paid = 0
    BY <1>2, AbsentHasNoCash
  <2> QED BY <1>2, <2>1 DEF IInv, TypeOK
<1>3. CASE CommitUpdate(p)
  BY <1>1, <1>3 DEF CommitUpdate, IInv, TypeOK, InvoiceRow
<1>4. CASE CommitIssue(p)
  BY <1>1, <1>4 DEF CommitIssue, IInv, TypeOK, InvoiceRow
<1>5. CASE CommitCancel(p)
  BY <1>1, <1>5 DEF CommitCancel, IInv, TypeOK, InvoiceRow
<1>6. CASE invoices' = invoices
  BY <1>1, <1>6
<1>7. ASSUME NEW i \in Invoices, NEW job \in Jobs \cup {None}, NEW total \in InvoiceTotals,
             CreateInvoice(i, job, total) \/ CommitGenerate(p, i, total)
      PROVE  \A c \in Invoices : invoices'[c].paid = invoices[c].paid
  BY <1>2, <1>7 DEF CreateInvoice, CommitGenerate
<1> QED
  BY <1>1, <1>3, <1>4, <1>5, <1>6, <1>7
  DEF Begin, Advance, Abort, BeginOnInvoice, BeginOnNote, AdvanceOnInvoice, AdvanceOnNote,
      BeginUpdate, BeginGenerate, BeginIssue, BeginCancel, BeginPay,
      LocateReceipt, BeginCreateNote, BeginUpdateNote, BeginIssueNote, BeginCancelNote,
      CountNotes, LockForPay, LockForReversal, SumRemaining, CommitCreateNote,
      CommitUpdateNote, GuardCredit, CommitIssueNote, CommitCancelNote, Proceed,
      LockAndProceed, tables

\* Which statuses a step can write on an invoice that nothing stale was written
\* on.
LEMMA StatusMoves ==
  ASSUME IInv, NEW p \in Procs, Begin(p) \/ Advance(p) \/ Abort(p), ~ CommitReversal(p),
         NEW i \in Invoices, i \notin stale'
  PROVE  \/ invoices'[i].status = invoices[i].status
         \/ invoices[i].status = "ABSENT"
         \/ invoices'[i].status = "ISSUED" /\ invoices[i].status \in {"DRAFT", "ISSUED"}
         \/ invoices'[i].status = "CANCELLED"
         \/ /\ invoices'[i].status \in {"PARTIALLY_PAID", "PAID"}
            /\ invoices[i].status \in {"ISSUED", "PARTIALLY_PAID"}
<1> DEFINE old == invoices[i].status
           new == invoices'[i].status
<1>1. ASSUME NEW c \in Invoices, NEW job \in Jobs \cup {None}, NEW total \in InvoiceTotals,
             CreateInvoice(c, job, total) \/ CommitGenerate(p, c, total)
      PROVE  new = old \/ old = "ABSENT"
  BY <1>1 DEF CreateInvoice, CommitGenerate, IInv, TypeOK
<1>2. CASE CommitUpdate(p)
  <2>1. new = old
    BY <1>2 DEF CommitUpdate, IInv, TypeOK, InvoiceRow
  <2> QED BY <2>1
<1>3. CASE CommitIssue(p)
  <2>1. /\ req[p].row.status \in {"DRAFT", "ISSUED"}
        /\ invoices' = [invoices EXCEPT ![req[p].invoice].status = "ISSUED"]
        /\ req[p].invoice \notin stale' => req[p].row = invoices[req[p].invoice]
    BY <1>3 DEF CommitIssue, MarkStale, IInv, InvoicePromises
  <2> QED BY <2>1 DEF IInv, TypeOK, InvoiceRow
<1>4. CASE CommitCancel(p)
  BY <1>4 DEF CommitCancel, IInv, TypeOK, InvoiceRow
<1>5. ASSUME NEW q \in Receipts, CommitPay(p, q)
      PROVE  new = old \/ (new \in {"PARTIALLY_PAID", "PAID"} /\ old \in {"ISSUED", "PARTIALLY_PAID"})
  <2>1. PICK c \in Invoices, a \in Amounts, net \in Int, paid \in Nat,
             s \in {"PARTIALLY_PAID", "PAID"} : Pays(p, q, c, a, net, paid, s)
    BY <1>5, PayFacts
  <2>2. /\ invoices' = [invoices EXCEPT ![c].paid = paid, ![c].status = s]
        /\ invoices[c].status \in {"ISSUED", "PARTIALLY_PAID"}
    BY <2>1 DEF Pays
  <2> QED BY <2>2 DEF IInv, TypeOK, InvoiceRow
<1>6. CASE invoices' = invoices
  BY <1>6
<1> QED
  BY <1>1, <1>2, <1>3, <1>4, <1>5, <1>6
  DEF Begin, Advance, Abort, BeginOnInvoice, BeginOnNote, AdvanceOnInvoice, AdvanceOnNote,
      BeginUpdate, BeginGenerate, BeginIssue, BeginCancel, BeginPay,
      LocateReceipt, BeginCreateNote, BeginUpdateNote, BeginIssueNote, BeginCancelNote,
      CountNotes, LockForPay, LockForReversal, SumRemaining, CommitCreateNote,
      CommitUpdateNote, GuardCredit, CommitIssueNote, CommitCancelNote, Proceed,
      LockAndProceed, tables

\* Only reversing one of its live receipts takes an invoice back to an earlier
\* status, unless a write was based on what no longer held (issue and update
\* write without a lock).
THEOREM OnlyReversalGoesBack == Spec => BackwardOnlyByReversal
<1>1. ASSUME IInv, [Next]_vars, NEW i \in Invoices \ stale',
             Rank[invoices'[i].status] < Rank[invoices[i].status]
      PROVE  \E q \in LiveReceipts(i) : Reversed(q)
  <2>1. IInv'
    BY <1>1, StepPreserves
  <2>2. PICK old \in InvoiceStatus \cup {"ABSENT"} : old = invoices[i].status
    BY <1>1 DEF IInv, TypeOK, InvoiceRow
  <2>3. PICK new \in InvoiceStatus \cup {"ABSENT"} : new = invoices'[i].status
    BY <2>1 DEF IInv, TypeOK, InvoiceRow
  <2>4. Rank[new] < Rank[old]
    BY <1>1, <2>2, <2>3
  <2>5. /\ new # old /\ old # "ABSENT" /\ new # "CANCELLED"
        /\ ~ (new = "ISSUED" /\ old \in {"DRAFT", "ISSUED"})
        /\ ~ (new \in {"PARTIALLY_PAID", "PAID"} /\ old \in {"ISSUED", "PARTIALLY_PAID"})
    BY <2>4 DEF Rank, InvoiceStatus
  <2>6. PICK p \in Procs : CommitReversal(p)
    <3>1. PICK p \in Procs : Begin(p) \/ Advance(p) \/ Abort(p)
      BY <1>1, <2>2, <2>3, <2>5 DEF Next, vars
    <3>2. CommitReversal(p)
      BY <1>1, <2>2, <2>3, <2>5, <3>1, StatusMoves
    <3> QED BY <3>2
  <2>7. PICK c \in Invoices, q \in Receipts, paid \in Nat,
             s \in {"ISSUED", "PARTIALLY_PAID", "PAID"} : Reverses(p, q, c, paid, s)
    BY <1>1, <2>6, ReversalFacts
  <2>8. /\ q \in LiveReceipts(c) /\ receipts' = [receipts EXCEPT ![q].reversedBy = p]
        /\ invoices' = [invoices EXCEPT ![c].paid = paid, ![c].status = s]
    BY <2>7 DEF Reverses
  <2>9. c = i
    BY <1>1, <2>2, <2>3, <2>5, <2>8 DEF IInv, TypeOK
  <2>10. Reversed(q)
    BY <1>1, <2>8, ReceivablesNoneAssumption DEF LiveReceipts, Reversed, IInv, TypeOK, ReceiptRow
  <2> QED BY <2>8, <2>9, <2>10
<1>2. IInv /\ [Next]_vars =>
        [\A i \in Invoices \ stale' : Rank[invoices'[i].status] < Rank[invoices[i].status] =>
           \E q \in LiveReceipts(i) : Reversed(q)]_vars
  BY <1>1
<1> QED BY <1>2, InductiveInvariant, PTL DEF Spec, BackwardOnlyByReversal

\* A reversal never raises a running total.
LEMMA ReversalLowers ==
  ASSUME IInv, NEW p \in Procs, CommitReversal(p), NEW i \in Invoices
  PROVE  ~ (invoices'[i].paid > invoices[i].paid)
<1>1. PICK c \in Invoices, q \in Receipts, paid \in Nat,
           s \in {"ISSUED", "PARTIALLY_PAID", "PAID"} : Reverses(p, q, c, paid, s)
  BY ReversalFacts
<1>2. PICK L \in SUBSET Receipts : L = LiveReceipts(c)
  BY DEF LiveReceipts
<1>3. paid <= invoices[c].paid
  <2>1. HasAmounts(receipts, L) /\ L \ {q} \in SUBSET L
    BY ReceiptsHaveAmounts DEF IInv, TypeOK
  <2>2. SumOf(receipts, L \ {q}) <= SumOf(receipts, L)
    BY <2>1, SumMonotone
  <2> QED BY <1>1, <1>2, <2>2 DEF Reverses, IInv, PaidMatchesLedger
<1>4. invoices'[i].paid = IF i = c THEN paid ELSE invoices[i].paid
  BY <1>1 DEF Reverses, IInv, TypeOK, InvoiceRow
<1>5. invoices[i].paid \in Nat /\ invoices[c].paid \in Nat
  BY DEF IInv, TypeOK, InvoiceRow
<1> QED BY <1>3, <1>4, <1>5

\* A receipt takes an invoice no further than what its total and the notes
\* issued on it make collectible, provided those notes are still the ones
\* recordPayment read before it locked the invoice.
THEOREM ReceiptsFit == Spec => ReceiptWithinCollectible
<1>1. ASSUME IInv, [Next]_vars, NEW i \in Invoices \ stale',
             invoices'[i].paid > invoices[i].paid
      PROVE  invoices'[i].paid <= Collectible(i)
  <2>1. invoices[i].paid \in Nat
    BY <1>1 DEF IInv, TypeOK, InvoiceRow
  <2>2. invoices'[i].paid # invoices[i].paid
    BY <1>1, <2>1
  <2>3. PICK p \in Procs, q \in Receipts : CommitPay(p, q)
    <3>1. PICK p \in Procs : Begin(p) \/ Advance(p) \/ Abort(p)
      BY <1>1, <2>2 DEF Next, vars
    <3>2. ~ CommitReversal(p)
      BY <1>1, ReversalLowers
    <3> QED BY <1>1, <2>2, <3>1, <3>2, OtherStepsKeepCash
  <2>4. PICK c \in Invoices, a \in Amounts, net \in Int, paid \in Nat,
             s \in {"PARTIALLY_PAID", "PAID"} : Pays(p, q, c, a, net, paid, s)
    BY <1>1, <2>3, PayFacts
  <2>5. c = i /\ invoices'[i].paid = paid
    BY <1>1, <2>2, <2>4 DEF Pays, IInv, TypeOK, InvoiceRow
  <2>6. net = IssuedNoteNet(i)
    BY <1>1, <2>4, <2>5 DEF Pays
  <2> QED BY <2>4, <2>5, <2>6 DEF Pays, Collectible
<1>2. IInv /\ [Next]_vars =>
        [\A i \in Invoices \ stale' : invoices'[i].paid > invoices[i].paid =>
           invoices'[i].paid <= Collectible(i)]_vars
  BY <1>1
<1> QED BY <1>2, InductiveInvariant, PTL DEF Spec, ReceiptWithinCollectible

(* ---------------------------- over-crediting ---------------------------- *)

\* A note that becomes an issued credit note is issued by the request that holds
\* its invoice, with the note and the invoice it has in hand.
LEMMA IssueFacts ==
  ASSUME IInv, NEW p \in Procs, Begin(p) \/ Advance(p) \/ Abort(p),
         NEW n \in Notes, BecomesIssuedCredit(n)
  PROVE  /\ CommitIssueNote(p) /\ req[p].note = n /\ req[p].step = "noteIssueWrite"
         /\ notes' = [notes EXCEPT ![n].status = "ISSUED"]
         /\ notes[n].invoice \in Invoices /\ req[p].invoice = notes[n].invoice
<1>1. notes[n].type = "CREDIT" /\ notes[n].status # "ISSUED" /\ notes'[n].status = "ISSUED"
  BY DEF BecomesIssuedCredit
<1>2. ASSUME NEW m \in Notes, CommitCreateNote(p, m)
      PROVE  FALSE
  <2>1. req[p].noteRow.status = "DRAFT" /\ notes' = [notes EXCEPT ![m] = req[p].noteRow]
    BY <1>2 DEF CommitCreateNote, IInv, NotePromises
  <2> QED BY <1>1, <2>1 DEF IInv, TypeOK
<1>3. CASE CommitUpdateNote(p)
  BY <1>1, <1>3 DEF CommitUpdateNote, IInv, TypeOK, NoteRow
<1>4. CASE CommitCancelNote(p)
  BY <1>1, <1>4 DEF CommitCancelNote, IInv, TypeOK, NoteRow
<1>5. CASE notes' = notes
  BY <1>1, <1>5
<1>6. CommitIssueNote(p)
  BY <1>2, <1>3, <1>4, <1>5
  DEF Begin, Advance, Abort, BeginOnInvoice, BeginOnNote, AdvanceOnInvoice, AdvanceOnNote,
      CreateInvoice, BeginUpdate, BeginGenerate, BeginIssue, BeginCancel, BeginPay,
      LocateReceipt, BeginCreateNote, BeginUpdateNote, BeginIssueNote, BeginCancelNote,
      CommitGenerate, CommitUpdate, CommitIssue, CountNotes, CommitCancel, LockForPay,
      CommitPay, LockForReversal, SumRemaining, CommitReversal, GuardCredit, Proceed,
      LockAndProceed, tables
<1>7. notes' = [notes EXCEPT ![req[p].note].status = "ISSUED"]
  BY <1>6 DEF CommitIssueNote
<1>8. n = req[p].note
  BY <1>1, <1>7 DEF IInv, TypeOK
<1>9. req[p].step \in {"noteIssue", "noteIssueWrite"}
  BY <1>6 DEF CommitIssueNote
<1>10. /\ req[p].noteRow.type = "CREDIT" /\ req[p].invoice = notes[n].invoice
       /\ notes[n].invoice \in Invoices
  BY <1>1, <1>8, <1>9 DEF IInv, NotePromises, NotesHaveInvoices, Exists
<1>11. req[p].step = "noteIssueWrite"
  BY <1>6, <1>10, ReceivablesNoneAssumption DEF CommitIssueNote, Guarded
<1> QED BY <1>6, <1>7, <1>8, <1>10, <1>11

\* Whatever else is credited or received meanwhile, the step that issues a
\* credit note leaves credits and receipts within the invoice's total, unless
\* some note of the invoice was written from a read that no longer held
\* (assertWithinCreditable, evaluated under the invoice's lock).
THEOREM CreditsStayWithinTotal == Spec => CreditWithinUnpaid
<1>1. ASSUME IInv, [Next]_vars, NEW n \in Notes, BecomesIssuedCredit(n),
             \A m \in stale' \cap Notes : notes[m].invoice # notes[n].invoice
      PROVE  /\ notes'[n].invoice = notes[n].invoice
             /\ invoices'[notes[n].invoice].paid + SumOf(notes', IssuedNotes(notes[n].invoice, "CREDIT")' \ {None})
                  <= invoices'[notes[n].invoice].total
  <2>1. PICK p \in Procs : Begin(p) \/ Advance(p) \/ Abort(p)
    BY <1>1 DEF Next, vars, BecomesIssuedCredit
  <2>2. /\ CommitIssueNote(p) /\ req[p].note = n /\ req[p].step = "noteIssueWrite"
        /\ notes' = [notes EXCEPT ![n].status = "ISSUED"]
        /\ notes[n].invoice \in Invoices /\ req[p].invoice = notes[n].invoice
    BY <1>1, <2>1, IssueFacts
  <2>3. PICK i \in Invoices : i = notes[n].invoice
    BY <2>2
  <2>4. req[p].noteRow = notes[n] /\ stale' = stale /\ invoices' = invoices
    BY <1>1, <2>2 DEF CommitIssueNote, MarkStale
  <2>5. NotesHeld(i)
    BY <1>1, <2>3, <2>4 DEF NotesHeld
  <2>6. PICK amount \in Nat : amount = notes[n].amount
    BY <1>1 DEF IInv, TypeOK, NoteRow
  <2>7. WithinCreditable(amount, invoices[i].total, IssuedCreditTotal(i, n), invoices[i].paid)
    <3>1. req[p].row = invoices[i]
      BY <1>1, <2>2, <2>3 DEF IInv, RowFresh, LockedSteps
    <3>2. WithinCreditable(req[p].noteRow.amount, req[p].row.total,
                           IssuedCreditTotal(i, n), req[p].row.paid)
      BY <1>1, <2>2, <2>3, <2>5 DEF IInv, NotePromises
    <3> QED BY <2>4, <2>6, <3>1, <3>2
  <2>8. PICK others \in SUBSET Notes : others = IssuedNotes(i, "CREDIT") \ {n}
    BY DEF IssuedNotes
  <2>9. /\ notes'[n].status = "ISSUED" /\ notes'[n].type = "CREDIT"
        /\ notes'[n].invoice = i /\ notes'[n].amount = amount
        /\ \A x \in Notes \ {n} : notes'[x] = notes[x]
    BY <1>1, <2>2, <2>3, <2>6 DEF BecomesIssuedCredit, IInv, TypeOK, NoteRow
  <2>10. IssuedNotes(i, "CREDIT")' \ {None} = others \cup {n} /\ n \notin others
    BY <2>8, <2>9, ReceivablesNoneAssumption DEF IssuedNotes
  <2>11. PICK rows \in [Notes -> NoteRow] : rows = notes'
    BY <1>1, StepPreserves DEF IInv, TypeOK
  <2>12. PICK credited \in Nat : credited = SumOf(notes, others)
    BY <1>1, NotesHaveAmounts, SumType DEF IInv, TypeOK
  <2>13. SumOf(rows, others) = credited
    <3>1. \A x \in others : notes[x].amount = rows[x].amount
      BY <2>9, <2>10, <2>11
    <3>2. SumOf(notes, others) = SumOf(rows, others)
      BY ONLY <3>1, SumSame
    <3> QED BY <2>12, <3>2
  <2>14. SumOf(rows, others \cup {n}) = credited + amount
    <3>1. HasAmounts(rows, others) /\ rows[n].amount = amount
      BY <2>9, <2>11, NotesHaveAmounts
    <3>2. SumOf(rows, others \cup {n}) = SumOf(rows, others) + rows[n].amount
      BY <2>10, <3>1, SumAdd
    <3> QED BY <2>13, <3>1, <3>2
  <2>15. amount <= invoices[i].total - invoices[i].paid - credited
    BY <2>7, <2>8, <2>12 DEF WithinCreditable, IssuedCreditTotal
  <2>16. invoices[i].paid + (credited + amount) <= invoices[i].total
    <3>1. invoices[i].total \in Nat /\ invoices[i].paid \in Nat
      BY <1>1 DEF IInv, TypeOK, InvoiceRow
    <3> QED BY <2>15, <3>1
  <2>17. SumOf(notes', IssuedNotes(i, "CREDIT")' \ {None}) = credited + amount
    BY <2>10, <2>11, <2>14
  <2> QED BY <2>3, <2>4, <2>9, <2>16, <2>17
<1>2. ASSUME IInv, [Next]_vars, NEW n \in Notes, BecomesIssuedCredit(n)
      PROVE  LET i == notes[n].invoice
             IN CreditsFit(i)' \/ \E m \in stale' \cap Notes : notes[m].invoice = i
  <2>1. CASE \A m \in stale' \cap Notes : notes[m].invoice # notes[n].invoice
    BY <1>1, <1>2, <2>1 DEF CreditsFit, IssuedCreditTotal, IssuedNotes
  <2>2. CASE \E m \in stale' \cap Notes : notes[m].invoice = notes[n].invoice
    BY <2>2
  <2> QED BY <2>1, <2>2
<1>3. IInv /\ [Next]_vars =>
        [\A n \in Notes : BecomesIssuedCredit(n) =>
           LET i == notes[n].invoice
           IN CreditsFit(i)' \/ \E m \in stale' \cap Notes : notes[m].invoice = i]_vars
  BY <1>2
<1> QED BY <1>3, InductiveInvariant, PTL DEF Spec, CreditWithinUnpaid

(* ------------------------------ refinement ------------------------------ *)

\* recordPayment, seen as the ledger: a free entry takes the rounded amount and
\* the balance of its invoice grows by it.
LEMMA PayRecords ==
  ASSUME IInv, NEW p \in Procs, NEW q \in Receipts, CommitPay(p, q)
  PROVE  Ledger!Next
<1>1. PICK i \in Invoices, a \in Amounts, net \in Int, paid \in Nat,
           s \in {"PARTIALLY_PAID", "PAID"} : Pays(p, q, i, a, net, paid, s)
  BY PayFacts
<1>2. PICK cents : cents = Round2(a)
  OBVIOUS
<1>3. /\ receipts[q].invoice = None
      /\ receipts' = [receipts EXCEPT ![q] =
                        [invoice |-> i, amount |-> cents, reversedBy |-> None]]
      /\ invoices' = [invoices EXCEPT ![i].paid = invoices[i].paid + cents, ![i].status = s]
  BY <1>1, <1>2 DEF Pays
<1>4. cents \in {Round2(x) : x \in Amounts}
  BY <1>2
<1>5. Trail[q].doc = None
  BY <1>3 DEF Trail
<1>6. Trail' = [Trail EXCEPT ![q] = [doc |-> i, amount |-> cents, reversedBy |-> None]]
  BY <1>3 DEF Trail, IInv, TypeOK, ReceiptRow
<1>7. Balances' = [Balances EXCEPT ![i] = Balances[i] + cents]
  BY <1>3 DEF Balances, IInv, TypeOK, InvoiceRow
<1>8. Ledger!Record(q, i, cents)
  BY <1>5, <1>6, <1>7 DEF Ledger!Record
<1> QED BY <1>4, <1>8 DEF Ledger!Next

\* reversePayment, seen as the ledger: the sum of the receipts that remain is the
\* old balance less the entry that is reversed.
LEMMA ReversalReverses ==
  ASSUME IInv, NEW p \in Procs, CommitReversal(p)
  PROVE  Ledger!Next
<1>1. PICK i \in Invoices, q \in Receipts, paid \in Nat,
           s \in {"ISSUED", "PARTIALLY_PAID", "PAID"} : Reverses(p, q, i, paid, s)
  BY ReversalFacts
<1>2. PICK L \in SUBSET Receipts : L = LiveReceipts(i)
  BY DEF LiveReceipts
<1>3. q \in L /\ paid = SumOf(receipts, L \ {q})
  BY <1>1, <1>2 DEF Reverses
<1>4. receipts \in [Receipts -> ReceiptRow] /\ receipts[q].amount \in Nat
  BY DEF IInv, TypeOK, ReceiptRow
<1>5. invoices[i].paid - receipts[q].amount = paid
  <2>1. invoices[i].paid = SumOf(receipts, L)
    BY <1>2 DEF IInv, PaidMatchesLedger
  <2>2. HasAmounts(receipts, L)
    BY <1>4, ReceiptsHaveAmounts
  <2>3. SumOf(receipts, L \ {q}) = SumOf(receipts, L) - receipts[q].amount
    BY <1>3, <2>2, SumRemove
  <2> QED BY <1>3, <2>1, <2>3
<1>6. /\ receipts' = [receipts EXCEPT ![q].reversedBy = p]
      /\ invoices' = [invoices EXCEPT ![i].paid = paid, ![i].status = s]
      /\ receipts[q].invoice = i /\ receipts[q].reversedBy = None
  BY <1>1 DEF Reverses, LiveReceipts
<1>7. Trail[q].doc = i /\ Trail[q].reversedBy = None /\ Trail[q].amount = receipts[q].amount
  BY <1>6 DEF Trail
<1>8. Trail' = [Trail EXCEPT ![q].reversedBy = p]
  <2> DEFINE Entry(row) == [doc |-> row.invoice, amount |-> row.amount, reversedBy |-> row.reversedBy]
  <2>1. /\ \A x \in Receipts \ {q} : receipts'[x] = receipts[x]
        /\ receipts'[q] = [receipts[q] EXCEPT !.reversedBy = p]
    BY <1>4, <1>6
  <2>2. Entry(receipts'[q]) = [Entry(receipts[q]) EXCEPT !.reversedBy = p]
    BY <1>4, <2>1 DEF ReceiptRow
  <2>3. Trail = [x \in Receipts |-> Entry(receipts[x])]
    BY DEF Trail
  <2>4. Trail' = [x \in Receipts |-> Entry(receipts'[x])]
    BY DEF Trail
  <2> HIDE DEF Entry
  <2> QED BY <2>1, <2>2, <2>3, <2>4
<1>9. Balances' = [Balances EXCEPT ![i] = paid] /\ Balances[i] = invoices[i].paid
  BY <1>6 DEF Balances, IInv, TypeOK, InvoiceRow
<1>10. Ledger!Reverse(q, p)
  BY <1>5, <1>7, <1>8, <1>9, ReceivablesNoneAssumption DEF Ledger!Reverse
<1> QED BY <1>10 DEF Ledger!Next

\* The service implements the ledger: every step records one receipt, reverses
\* one receipt once, or leaves the cash alone, whatever happens to the notes.
THEOREM ImplementsLedger == Spec => KeepsLedger
<1>1. Init => Ledger!Init
  BY DEF Init, StoreInit, Ledger!Init, Ledger!NoEntry, Balances, Trail, NoInvoice, NoReceipt
<1>2. IInv /\ [Next]_vars => [Ledger!Next]_<<Balances, Trail>>
  <2>1. ASSUME IInv, UNCHANGED vars
        PROVE  UNCHANGED <<Balances, Trail>>
    BY <2>1 DEF vars, Balances, Trail
  <2>2. ASSUME IInv, NEW p \in Procs, Begin(p) \/ Advance(p) \/ Abort(p)
        PROVE  Ledger!Next \/ UNCHANGED <<Balances, Trail>>
    <3>1. CASE (\A q \in Receipts : ~ CommitPay(p, q)) /\ ~ CommitReversal(p)
      <4>1. receipts' = receipts /\ \A i \in Invoices : invoices'[i].paid = invoices[i].paid
        BY <2>2, <3>1, OtherStepsKeepCash
      <4> QED BY <4>1 DEF Balances, Trail
    <3>2. CASE CommitReversal(p) \/ \E q \in Receipts : CommitPay(p, q)
      BY <2>2, <3>2, PayRecords, ReversalReverses
    <3> QED BY <3>1, <3>2
  <2> QED BY <2>1, <2>2 DEF Next
<1> QED BY <1>1, <1>2, InductiveInvariant, PTL DEF Spec, KeepsLedger, Ledger!Spec
=============================================================================
