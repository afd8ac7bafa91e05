--------------------------- MODULE PayablesProofs ---------------------------
(***************************************************************************)
(* Proofs about Payables for any number of requests, bills, payments,      *)
(* vendors, numbers and amounts.                                           *)
(*                                                                         *)
(* IInv, the inductive invariant, says of every request between two of its *)
(* steps what it may still rely on: a request that holds a row lock has    *)
(* the current row in hand (RowFresh), and what it has checked or added up *)
(* since is still so (Promises), because every writer of that row or of    *)
(* its payments needs the same lock.                                       *)
(***************************************************************************)
EXTENDS Payables, SumLemmas

(* The facts about sums and settlement are in SumLemmas; this is what they ask
   of the payments. *)

\* The payments on a bill, or any others, have amounts that can be added up.
LEMMA PaymentsHaveAmounts ==
  ASSUME NEW rows \in [Payments -> PaymentRow], NEW S \in SUBSET Payments
  PROVE  HasAmounts(rows, S)
<1>1. IsFiniteSet(S)
  BY FinitenessAssumption, FS_Subset
<1> QED BY <1>1 DEF HasAmounts, PaymentRow

(* ------------------------------ frame lemmas ---------------------------- *)

\* A step that writes neither table keeps everything said about them.
LEMMA TablesFrame ==
  ASSUME TablesInv, UNCHANGED <<bills, payments, lateEdits>>
  PROVE  TablesInv'
BY DEF TablesInv, PaymentsHaveBills, PaidMatchesLedger, CashOnPostedBillsOnly,
       LiveNumbersUnique, StatusMatchesMoney, LivePayments, Live

Holds(p, b) == req[p].step \in LockedSteps /\ req[p].bill = b

\* What another request's step may not touch for request p to keep what it
\* relies on: p itself, the bill p has locked and its live payments.
Keeps(p) ==
  /\ req'[p] = req[p]
  /\ \A b \in Bills : Holds(p, b) =>
       /\ lock'[b] = p
       /\ bills'[b] = bills[b]
       /\ LivePayments(b)' = LivePayments(b)
  /\ \A b \in Bills : bills[b].status # "ABSENT" => bills'[b].status # "ABSENT"
  /\ \A q \in Payments : payments[q].bill # None =>
       /\ payments'[q].bill = payments[q].bill
       /\ payments'[q].amount = payments[q].amount

LEMMA RequestFrame ==
  ASSUME TypeOK, NEW p \in Procs, RowFresh(p), Promises(p), Keeps(p)
  PROVE  RowFresh(p)' /\ Promises(p)'
<1>1. req'[p] = req[p]
  BY DEF Keeps
<1>2. RowFresh(p)'
  BY <1>1 DEF Keeps, Holds, RowFresh
<1>3. ASSUME req[p].step \in LockedSteps
      PROVE  LivePayments(req[p].bill)' = LivePayments(req[p].bill)
  BY <1>1, <1>3 DEF Keeps, Holds, RowFresh
<1>4. ASSUME req[p].step \in {"located", "reverse", "reverseWrite"}
      PROVE  /\ req[p].payment \in Payments /\ req[p].bill \in Bills
             /\ payments'[req[p].payment].bill = req[p].bill
  <2>1. /\ req[p].payment \in Payments /\ req[p].bill \in Bills
        /\ payments[req[p].payment].bill = req[p].bill
    BY <1>4 DEF Promises
  <2>2. req[p].bill # None
    BY <2>1, NoneAssumption
  <2> QED BY <2>1, <2>2 DEF Keeps
<1>5. ASSUME req[p].step = "reverseWrite"
      PROVE  /\ payments'[req[p].payment].reversedBy = None
             /\ req[p].value = SumOf(payments', LivePayments(req[p].bill)' \ {req[p].payment})
  <2> DEFINE q == req[p].payment
             b == req[p].bill
             S == LivePayments(b) \ {q}
  <2>1. /\ q \in Payments /\ b \in Bills /\ payments[q].bill = b
        /\ payments[q].reversedBy = None
        /\ req[p].value = SumOf(payments, S)
    BY <1>5 DEF Promises
  <2>2. LivePayments(b)' = LivePayments(b)
    BY <1>3, <1>5 DEF LockedSteps
  <2>3. q \in LivePayments(b)
    BY <2>1 DEF LivePayments, Live
  <2>4. payments'[q].reversedBy = None
    <3>1. q \in {r \in Payments : payments'[r].bill = b /\ payments'[r].reversedBy = None}
      BY <1>1, <2>2, <2>3 DEF LivePayments, Live
    <3> QED BY <3>1
  <2>5. \A r \in S : payments[r].amount = payments'[r].amount
    <3>1. ASSUME NEW r \in S
          PROVE  payments[r].bill # None /\ r \in Payments
      BY <2>1, NoneAssumption DEF LivePayments, Live
    <3> QED BY <3>1 DEF Keeps
  <2>6. SumOf(payments, S) = SumOf(payments', S)
    <3> HIDE DEF S
    <3> QED BY <2>5, SumSame
  <2> QED BY <2>1, <2>2, <2>4, <2>6
<1>6. Promises(p)'
  BY <1>1, <1>3, <1>4, <1>5 DEF Promises, Keeps, LockedSteps
<1> QED BY <1>2, <1>6

(* --------------------- steps that write no table row -------------------- *)

\* The shape of every step of p that only reads, locks or unlocks.
Quiet(p) ==
  /\ UNCHANGED <<bills, payments, lateEdits>>
  /\ lock' \in [Bills -> Procs \cup {None}]
  /\ req' \in [Procs -> Request]
  /\ \A p2 \in Procs \ {p} :
       req'[p2] = req[p2] /\ \A b \in Bills : lock[b] = p2 => lock'[b] = p2

LEMMA QuietStep ==
  ASSUME IInv, NEW p \in Procs, Quiet(p), RowFresh(p)', Promises(p)'
  PROVE  IInv'
<1>1. TypeOK'
  BY DEF IInv, TypeOK, Quiet
<1>2. TablesInv'
  BY TablesFrame DEF IInv, Quiet
<1>3. ASSUME NEW p2 \in Procs
      PROVE  RowFresh(p2)' /\ Promises(p2)'
  <2>1. CASE p2 = p
    BY <2>1
  <2>2. CASE p2 # p
    <3>1. Keeps(p2)
      BY <2>2 DEF Keeps, Holds, Quiet, IInv, RowFresh, LivePayments, Live
    <3> QED BY <3>1, RequestFrame DEF IInv
  <2> QED BY <2>1, <2>2
<1> QED BY <1>1, <1>2, <1>3 DEF IInv

\* The record a request starts from is typed.
LEMMA IdleType == Idle \in Request
BY DEF Idle, Request, NoBill, BillRow, LockedSteps, UnlockedSteps

\* Ending a request, whatever it was doing, frees its lock and no other.
LEMMA FinishFrame ==
  ASSUME TypeOK, NEW p \in Procs, Finish(p)
  PROVE  /\ lock' \in [Bills -> Procs \cup {None}]
         /\ req' \in [Procs -> Request]
         /\ \A p2 \in Procs \ {p} :
              req'[p2] = req[p2] /\ \A b \in Bills : lock[b] = p2 => lock'[b] = p2
         /\ RowFresh(p)' /\ Promises(p)'
<1>1. req'[p] = Idle
  BY DEF Finish, TypeOK
<1>2. RowFresh(p)' /\ Promises(p)'
  BY <1>1 DEF RowFresh, Promises, Idle, LockedSteps
<1> QED BY <1>2, IdleType DEF Finish, TypeOK

\* SELECT ... FOR UPDATE gives p the current row and disturbs nobody.
LEMMA LockFrame ==
  ASSUME TypeOK, NEW p \in Procs, NEW b \in Bills, bills[b].status # "ABSENT",
         NEW s \in LockedSteps, NEW payment \in Payments \cup {None},
         NEW value \in Nat \cup {None},
         LockAndRead(p, b, s, payment, value),
         UNCHANGED <<bills, payments, lateEdits>>
  PROVE  /\ Quiet(p) /\ RowFresh(p)'
         /\ req'[p].step = s /\ req'[p].bill = b /\ req'[p].row = bills[b]
         /\ req'[p].payment = payment /\ req'[p].value = value
<1> DEFINE r == [Idle EXCEPT !.step = s, !.bill = b, !.row = bills[b],
                             !.payment = payment, !.value = value]
<1>1. r \in Request
  BY DEF Idle, Request, TypeOK, LockedSteps, UnlockedSteps
<1>2. /\ req' = [req EXCEPT ![p] = r] /\ lock' = [lock EXCEPT ![b] = p] /\ lock[b] = None
  BY DEF LockAndRead, Unlocked
<1>3. /\ r.step = s /\ r.bill = b /\ r.row = bills[b] /\ r.payment = payment /\ r.value = value
  BY DEF Idle
<1>4. req'[p] = r /\ req' \in [Procs -> Request]
  <2> HIDE DEF r
  <2> QED BY <1>1, <1>2 DEF TypeOK
<1>5. lock' \in [Bills -> Procs \cup {None}] /\ lock'[b] = p
  BY <1>2 DEF TypeOK
<1>6. \A p2 \in Procs \ {p} :
        req'[p2] = req[p2] /\ \A c \in Bills : lock[c] = p2 => lock'[c] = p2
  <2> HIDE DEF r
  <2> QED BY <1>2, NoneAssumption DEF TypeOK
<1>7. Quiet(p)
  BY <1>4, <1>5, <1>6 DEF Quiet
<1>8. RowFresh(p)'
  <2> HIDE DEF r
  <2> QED BY <1>3, <1>4, <1>5 DEF RowFresh
<1> QED
  <2> HIDE DEF r
  <2> QED BY <1>3, <1>4, <1>7, <1>8

(* ---------------------- begin, check and abort steps -------------------- *)

\* Whatever ends a request early keeps the invariant.
LEMMA AbortStep ==
  ASSUME IInv, NEW p \in Procs, Abort(p)
  PROVE  IInv'
<1>1. TypeOK /\ Finish(p)
  BY DEF IInv, Abort
<1>2. Quiet(p) /\ RowFresh(p)' /\ Promises(p)'
  BY <1>1, FinishFrame DEF Quiet, Abort
<1> QED BY <1>2, QuietStep

\* create's duplicate check promises a vendor, a number and a total.
LEMMA BeginCreateStep ==
  ASSUME IInv, NEW p \in Procs, NEW v \in Vendors, NEW n \in Numbers, NEW t \in Totals,
         BeginCreate(p, v, n, t)
  PROVE  IInv'
<1> DEFINE r == [Idle EXCEPT !.step = "create", !.vendor = v, !.number = n, !.value = t]
<1>1. t \in Nat
  BY MoneyAssumption
<1>2. r \in Request /\ req' = [req EXCEPT ![p] = r]
  BY <1>1 DEF BeginCreate, Idle, Request, NoBill, BillRow, LockedSteps, UnlockedSteps
<1>3. r.step = "create" /\ r.vendor = v /\ r.number = n /\ r.value = t
  BY DEF Idle
<1> HIDE DEF r
<1>4. req'[p] = r /\ Quiet(p)
  BY <1>2 DEF IInv, TypeOK, Quiet, BeginCreate
<1>5. RowFresh(p)' /\ Promises(p)'
  BY <1>1, <1>3, <1>4 DEF RowFresh, Promises, LockedSteps
<1> QED BY <1>4, <1>5, QuietStep

\* update's unlocked read promises only that the bill exists.
LEMMA BeginUpdateStep ==
  ASSUME IInv, NEW p \in Procs, NEW b \in Bills,
         NEW n \in Numbers \cup {None}, NEW t \in Totals \cup {None},
         BeginUpdate(p, b, n, t)
  PROVE  IInv'
<1> DEFINE s == IF n \in {None, bills[b].number} THEN "editWrite" ELSE "editCheck"
           r == [Idle EXCEPT !.step = s, !.bill = b, !.vendor = bills[b].vendor,
                             !.number = n, !.value = t]
<1>1. t \in Nat \cup {None} /\ s \in {"editWrite", "editCheck"}
  BY MoneyAssumption
<1>2. bills[b] \in BillRow /\ bills[b].status = "DRAFT"
  BY DEF IInv, TypeOK, BeginUpdate
<1>3. req' = [req EXCEPT ![p] = r]
  BY DEF BeginUpdate
<1> HIDE DEF s
<1>4. r \in Request
  BY <1>1, <1>2 DEF Idle, Request, NoBill, BillRow, LockedSteps, UnlockedSteps
<1>5. r.step = s /\ r.bill = b
  BY DEF Idle
<1> HIDE DEF r
<1>6. req'[p] = r /\ Quiet(p)
  BY <1>3, <1>4 DEF IInv, TypeOK, Quiet, BeginUpdate
<1>7. RowFresh(p)' /\ Promises(p)'
  BY <1>1, <1>2, <1>5, <1>6 DEF RowFresh, Promises, LockedSteps, Quiet
<1> QED BY <1>6, <1>7, QuietStep

\* approve, void and recordPayment start by locking the row they read.
LEMMA BeginApproveStep ==
  ASSUME IInv, NEW p \in Procs, NEW b \in Bills, BeginApprove(p, b)
  PROVE  IInv'
<1>1. bills[b].status \in {"DRAFT", "APPROVED"}
  BY DEF BeginApprove, CanMove, VendorBillEdges
<1>2. /\ Quiet(p) /\ RowFresh(p)'
      /\ req'[p].step = "approve" /\ req'[p].row = bills[b]
  BY <1>1, LockFrame DEF IInv, BeginApprove, LockedSteps
<1>3. Promises(p)'
  BY <1>1, <1>2 DEF Promises
<1> QED BY <1>2, <1>3, QuietStep

LEMMA BeginVoidStep ==
  ASSUME IInv, NEW p \in Procs, NEW b \in Bills, BeginVoid(p, b)
  PROVE  IInv'
<1>1. Quiet(p) /\ RowFresh(p)' /\ req'[p].step = "void"
  BY LockFrame DEF IInv, BeginVoid, LockedSteps
<1>2. Promises(p)'
  BY <1>1 DEF Promises
<1> QED BY <1>1, <1>2, QuietStep

LEMMA BeginPayStep ==
  ASSUME IInv, NEW p \in Procs, NEW b \in Bills, NEW a \in Amounts, BeginPay(p, b, a)
  PROVE  IInv'
<1>1. a \in Nat /\ Payable(bills[b]) /\ bills[b].status # "ABSENT"
  BY MoneyAssumption DEF BeginPay, Payable
<1>2. /\ Quiet(p) /\ RowFresh(p)'
      /\ req'[p].step = "pay" /\ req'[p].row = bills[b] /\ req'[p].value = a
  BY <1>1, LockFrame DEF IInv, BeginPay, LockedSteps
<1>3. Promises(p)'
  BY <1>1, <1>2 DEF Promises, BeginPay
<1> QED BY <1>2, <1>3, QuietStep

\* reversePayment finds the bill of its payment, then locks it.
LEMMA LocatePaymentStep ==
  ASSUME IInv, NEW p \in Procs, NEW q \in Payments, LocatePayment(p, q)
  PROVE  IInv'
<1> DEFINE r == [Idle EXCEPT !.step = "located", !.payment = q, !.bill = payments[q].bill]
<1>1. payments[q].bill \in Bills
  BY DEF IInv, TypeOK, PaymentRow, LocatePayment
<1>2. r \in Request /\ req' = [req EXCEPT ![p] = r]
  BY <1>1 DEF LocatePayment, Idle, Request, NoBill, BillRow, LockedSteps, UnlockedSteps
<1>3. r.step = "located" /\ r.payment = q /\ r.bill = payments[q].bill
  BY DEF Idle
<1> HIDE DEF r
<1>4. req'[p] = r /\ Quiet(p)
  BY <1>2 DEF IInv, TypeOK, Quiet, LocatePayment
<1>5. RowFresh(p)' /\ Promises(p)'
  BY <1>1, <1>3, <1>4 DEF RowFresh, Promises, LockedSteps, Quiet
<1> QED BY <1>4, <1>5, QuietStep

LEMMA LockForReversalStep ==
  ASSUME IInv, NEW p \in Procs, LockForReversal(p)
  PROVE  IInv'
<1>1. /\ req[p].payment \in Payments /\ req[p].bill \in Bills
      /\ payments[req[p].payment].bill = req[p].bill
  BY DEF IInv, Promises, LockForReversal
<1>2. PICK b \in Bills : b = req[p].bill
  BY <1>1
<1>3. PICK q \in Payments : q = req[p].payment
  BY <1>1
<1>4. bills[b].status # "ABSENT"
  BY <1>1, <1>2, <1>3, NoneAssumption DEF IInv, TablesInv, PaymentsHaveBills
<1>5. LockAndRead(p, b, "reverse", q, None) /\ UNCHANGED <<bills, payments, lateEdits>>
  BY <1>2, <1>3 DEF LockForReversal
<1>6. TypeOK /\ "reverse" \in LockedSteps /\ q \in Payments \cup {None} /\ None \in Nat \cup {None}
  BY DEF IInv, LockedSteps
<1>7. /\ Quiet(p) /\ RowFresh(p)'
      /\ req'[p].step = "reverse" /\ req'[p].bill = b /\ req'[p].payment = q
  BY <1>4, <1>5, <1>6, LockFrame
<1>8. Promises(p)'
  BY <1>1, <1>2, <1>3, <1>7 DEF Promises, Quiet
<1> QED BY <1>7, <1>8, QuietStep

\* A check that passes only moves its request on.
LEMMA GotoFrame ==
  ASSUME IInv, NEW p \in Procs, NEW s \in LockedSteps \cup UnlockedSteps, Goto(p, s),
         UNCHANGED <<bills, payments, lock, lateEdits>>
  PROVE  /\ Quiet(p)
         /\ req'[p].step = s /\ req'[p].bill = req[p].bill /\ req'[p].row = req[p].row
<1>1. req[p] \in Request
  BY DEF IInv, TypeOK
<1>2. [req[p] EXCEPT !.step = s] \in Request
  BY <1>1 DEF Request
<1>3. req'[p] = [req[p] EXCEPT !.step = s]
  BY DEF Goto, IInv, TypeOK
<1>4. req'[p].step = s /\ req'[p].bill = req[p].bill /\ req'[p].row = req[p].row
  BY <1>1, <1>3 DEF Request
<1> QED BY <1>2, <1>4 DEF Goto, Quiet, IInv, TypeOK

LEMMA CheckUpdateStep ==
  ASSUME IInv, NEW p \in Procs, CheckUpdate(p)
  PROVE  IInv'
<1>1. Quiet(p) /\ req'[p].step = "editWrite" /\ req'[p].bill = req[p].bill
  BY GotoFrame DEF CheckUpdate, UnlockedSteps
<1>2. req[p].bill \in Bills /\ bills[req[p].bill].status # "ABSENT"
  BY DEF CheckUpdate, IInv, Promises
<1>3. RowFresh(p)' /\ Promises(p)'
  BY <1>1, <1>2 DEF RowFresh, Promises, LockedSteps, Quiet
<1> QED BY <1>1, <1>3, QuietStep

LEMMA CheckApproveStep ==
  ASSUME IInv, NEW p \in Procs, CheckApprove(p)
  PROVE  IInv'
<1>1. /\ Quiet(p) /\ req'[p].step = "approveWrite"
      /\ req'[p].bill = req[p].bill /\ req'[p].row = req[p].row
      /\ UNCHANGED lock
  BY GotoFrame DEF CheckApprove, LockedSteps
<1>2. req[p].row.status \in {"DRAFT", "APPROVED"} /\ RowFresh(p)
  BY DEF CheckApprove, IInv, Promises
<1>3. RowFresh(p)'
  BY <1>1, <1>2 DEF CheckApprove, RowFresh, LockedSteps, Quiet
<1>4. Promises(p)'
  BY <1>1, <1>2 DEF Promises
<1> QED BY <1>1, <1>3, <1>4, QuietStep

\* void's count of live payments stays true because recording one needs the lock.
LEMMA CheckVoidStep ==
  ASSUME IInv, NEW p \in Procs, CheckVoid(p)
  PROVE  IInv'
<1>1. /\ Quiet(p) /\ req'[p].step = "voidWrite"
      /\ req'[p].bill = req[p].bill /\ req'[p].row = req[p].row
      /\ UNCHANGED lock
  BY GotoFrame DEF CheckVoid, LockedSteps
<1>2. req[p].row.status \in {"DRAFT", "APPROVED", "VOID"} /\ RowFresh(p)
  BY DEF CheckVoid, CanMove, VendorBillEdges, IInv
<1>3. RowFresh(p)'
  BY <1>1, <1>2 DEF CheckVoid, RowFresh, LockedSteps, Quiet
<1>4. \A q \in Payments : ~ Live(q, req[p].bill)
  BY DEF CheckVoid, LivePayments
<1>5. LivePayments(req[p].bill)' = {}
  BY <1>1, <1>4 DEF LivePayments, Live, Quiet
<1>6. Promises(p)'
  BY <1>1, <1>2, <1>5 DEF Promises
<1> QED BY <1>1, <1>3, <1>6, QuietStep

\* The payments that remain are added up under the lock that guards them.
LEMMA SumRemainingStep ==
  ASSUME IInv, NEW p \in Procs, SumRemaining(p)
  PROVE  IInv'
<1> DEFINE b == req[p].bill
           q == req[p].payment
           sum == SumOf(payments, LivePayments(b) \ {q})
           r == [req[p] EXCEPT !.step = "reverseWrite", !.value = sum]
<1>1. req[p] \in Request /\ req[p].step = "reverse" /\ payments[q].reversedBy = None
  BY DEF IInv, TypeOK, SumRemaining
<1>2. q \in Payments /\ b \in Bills /\ payments[q].bill = b
  BY <1>1 DEF IInv, Promises
<1>3. sum \in Nat
  <2>1. LivePayments(b) \ {q} \in SUBSET Payments
    BY DEF LivePayments
  <2> QED BY <2>1, PaymentsHaveAmounts, SumType DEF IInv, TypeOK
<1>4. UNCHANGED <<bills, payments, lock, lateEdits>>
  BY DEF SumRemaining
<1>5. LivePayments(b)' = LivePayments(b)
  <2>1. req'[p].bill = b
    BY <1>1 DEF SumRemaining, IInv, TypeOK, Request
  <2> QED BY <1>4, <2>1 DEF LivePayments, Live
<1>7. req'[p] = r
  BY <1>1 DEF SumRemaining, IInv, TypeOK
<1>8. req' = [req EXCEPT ![p] = r]
  BY <1>1 DEF SumRemaining, IInv, TypeOK
<1>9. /\ r.step = "reverseWrite" /\ r.bill = b /\ r.payment = q /\ r.row = req[p].row
      /\ r.value = sum
  BY <1>1 DEF Request
<1>10. r \in Request
  <2> HIDE DEF sum
  <2> QED BY <1>1, <1>3 DEF Request, LockedSteps
<1>11. Quiet(p)
  <2> HIDE DEF r
  <2> QED BY <1>4, <1>8, <1>10 DEF IInv, TypeOK, Quiet
<1>12. RowFresh(p)'
  <2> HIDE DEF r
  <2> QED BY <1>1, <1>4, <1>7, <1>9 DEF IInv, RowFresh, LockedSteps
<1>13. Promises(p)'
  <2>1. /\ req'[p].step = "reverseWrite" /\ req'[p].bill = b /\ req'[p].payment = q
        /\ req'[p].value = sum
    <3> HIDE DEF r
    <3> QED BY <1>7, <1>9
  <2>2. req'[p].value = SumOf(payments, LivePayments(req[p].bill)' \ {q})
    <3> HIDE DEF r
    <3> QED BY <1>5, <2>1
  <2> HIDE DEF r, sum
  <2> QED BY <1>1, <1>2, <1>4, <2>1, <2>2 DEF Promises
<1> QED BY <1>11, <1>12, <1>13, QuietStep

(* ------------------------------- commit steps --------------------------- *)

\* A commit on bill b by p leaves every other request what it relies on, since
\* none of them holds b.
LEMMA CommitFrame ==
  ASSUME IInv, NEW p \in Procs, NEW b \in Bills, Finish(p), TypeOK',
         \A p2 \in Procs \ {p} : ~ Holds(p2, b),
         \A c \in Bills \ {b} : bills'[c] = bills[c] /\ LivePayments(c)' = LivePayments(c),
         bills'[b].status # "ABSENT",
         \A q \in Payments : payments[q].bill # None =>
           payments'[q].bill = payments[q].bill /\ payments'[q].amount = payments[q].amount,
         TablesInv'
  PROVE  IInv'
<1>1. TypeOK
  BY DEF IInv
<1>2. /\ \A p2 \in Procs \ {p} :
           req'[p2] = req[p2] /\ \A c \in Bills : lock[c] = p2 => lock'[c] = p2
      /\ RowFresh(p)' /\ Promises(p)'
  BY <1>1, FinishFrame
<1>3. ASSUME NEW p2 \in Procs \ {p}
      PROVE  RowFresh(p2)' /\ Promises(p2)'
  <2>1. RowFresh(p2) /\ Promises(p2)
    BY DEF IInv
  <2>2. \A c \in Bills : Holds(p2, c) =>
          lock'[c] = p2 /\ bills'[c] = bills[c] /\ LivePayments(c)' = LivePayments(c)
    BY <1>2, <2>1 DEF RowFresh, Holds
  <2>3. Keeps(p2)
    BY <1>2, <2>2 DEF Keeps
  <2> QED BY <1>1, <2>1, <2>3, RequestFrame
<1> QED BY <1>2, <1>3 DEF IInv

\* Two requests never hold the same bill, and nobody holds an unlocked or an
\* absent one.
LEMMA OneHolder ==
  ASSUME IInv, NEW p \in Procs, NEW b \in Bills,
         Holds(p, b) \/ Unlocked(b) \/ bills[b].status = "ABSENT"
  PROVE  \A p2 \in Procs \ {p} : ~ Holds(p2, b)
BY NoneAssumption DEF IInv, RowFresh, Holds, Unlocked

\* The index keeps live numbers unique when a bill is inserted.
LEMMA CommitCreateStep ==
  ASSUME IInv, NEW p \in Procs, NEW b \in Bills, CommitCreate(p, b)
  PROVE  IInv'
<1> DEFINE row == [status |-> "DRAFT", vendor |-> req[p].vendor, number |-> req[p].number,
                   total |-> req[p].value, paid |-> 0]
<1>1. /\ req[p].vendor \in Vendors /\ req[p].number \in Numbers /\ req[p].value \in Nat
  BY DEF IInv, Promises, CommitCreate
<1>2. row \in BillRow
  BY <1>1 DEF BillRow, VendorBillStatus
<1>3. /\ bills' = [bills EXCEPT ![b] = row]
      /\ bills[b].status = "ABSENT" /\ NoDuplicate(b, req[p].vendor, req[p].number)
      /\ UNCHANGED <<payments, lateEdits>> /\ Finish(p)
  BY DEF CommitCreate, IndexAllows
<1>4. row.status = "DRAFT" /\ row.vendor = req[p].vendor /\ row.number = req[p].number /\ row.paid = 0 /\ row.total \in Nat
  BY <1>1
<1> HIDE DEF row
<1>5. bills'[b] = row /\ \A c \in Bills \ {b} : bills'[c] = bills[c]
  BY <1>3 DEF IInv, TypeOK
<1>6. TypeOK'
  BY <1>2, <1>3, FinishFrame DEF IInv, TypeOK
<1>7. \A c \in Bills : LivePayments(c)' = LivePayments(c)
  BY <1>3 DEF LivePayments, Live
<1>8. TablesInv'
  <2>1. PaymentsHaveBills'
    BY <1>3, <1>4, <1>5 DEF IInv, TablesInv, PaymentsHaveBills, TypeOK, PaymentRow
  <2>2. LivePayments(b) = {}
    BY <1>3 DEF IInv, TablesInv, CashOnPostedBillsOnly
  <2>3. PaidMatchesLedger'
    BY <1>3, <1>4, <1>5, <1>7, <2>2, SumEmpty DEF IInv, TablesInv, PaidMatchesLedger
  <2>4. CashOnPostedBillsOnly'
    BY <1>5, <1>7, <2>2 DEF IInv, TablesInv, CashOnPostedBillsOnly
  <2>5. LiveNumbersUnique'
    BY <1>3, <1>4, <1>5 DEF IInv, TablesInv, LiveNumbersUnique, NoDuplicate
  <2>6. StatusMatchesMoney'
    BY <1>3, <1>4, <1>5 DEF IInv, TablesInv, StatusMatchesMoney
  <2> QED BY <2>1, <2>3, <2>4, <2>5, <2>6 DEF TablesInv
<1>9. \A p2 \in Procs \ {p} : ~ Holds(p2, b)
  BY <1>3, OneHolder
<1> QED BY <1>3, <1>4, <1>5, <1>6, <1>7, <1>8, <1>9, CommitFrame

\* An edit can make a posted bill disagree with its money (lateEdits records
\* which), but neither its ledger nor the uniqueness of its number.
LEMMA CommitUpdateStep ==
  ASSUME IInv, NEW p \in Procs, CommitUpdate(p)
  PROVE  IInv'
<1>1. /\ req[p].step = "editWrite" /\ req[p].bill \in Bills
      /\ bills[req[p].bill].status # "ABSENT"
  BY DEF IInv, Promises, CommitUpdate
<1>2. PICK b \in Bills : b = req[p].bill
  BY <1>1
<1> DEFINE number == IF req[p].number = None THEN bills[b].number ELSE req[p].number
           total == IF req[p].value = None THEN bills[b].total ELSE req[p].value
           row == [bills[b] EXCEPT !.number = number, !.total = total]
<1>3. bills[b] \in BillRow /\ req[p] \in Request
  BY DEF IInv, TypeOK
<1>4. row \in BillRow
  BY <1>3 DEF BillRow, Request
<1>5. /\ row.status = bills[b].status /\ row.vendor = bills[b].vendor /\ row.paid = bills[b].paid
      /\ row.number = number
  BY <1>3 DEF BillRow
<1>6. /\ bills' = [bills EXCEPT ![b] = row]
      /\ lateEdits' = IF bills[b].status = "DRAFT" THEN lateEdits ELSE lateEdits \cup {b}
      /\ bills[b].status = "VOID" \/ NoDuplicate(b, bills[b].vendor, number)
      /\ Unlocked(b) /\ Finish(p) /\ UNCHANGED payments
  <2>1. bills' = [bills EXCEPT ![b].number = number, ![b].total = total]
    BY <1>2 DEF CommitUpdate
  <2>2. bills' = [bills EXCEPT ![b] = row]
    BY <1>3, <2>1 DEF IInv, TypeOK, BillRow
  <2> QED BY <1>2, <2>2 DEF CommitUpdate, IndexAllows
<1> HIDE DEF row, number, total
<1>7. bills'[b] = row /\ \A c \in Bills \ {b} : bills'[c] = bills[c]
  BY <1>6 DEF IInv, TypeOK
<1>8. TypeOK'
  BY <1>4, <1>6, FinishFrame DEF IInv, TypeOK
<1>9. \A c \in Bills : LivePayments(c)' = LivePayments(c)
  BY <1>6 DEF LivePayments, Live
<1>10. TablesInv'
  <2>1. PaymentsHaveBills'
    BY <1>1, <1>2, <1>5, <1>6, <1>7 DEF IInv, TablesInv, PaymentsHaveBills, TypeOK, PaymentRow
  <2>2. PaidMatchesLedger'
    BY <1>5, <1>6, <1>7, <1>9 DEF IInv, TablesInv, PaidMatchesLedger
  <2>3. CashOnPostedBillsOnly'
    BY <1>5, <1>7, <1>9 DEF IInv, TablesInv, CashOnPostedBillsOnly
  <2>4. LiveNumbersUnique'
    BY <1>5, <1>6, <1>7 DEF IInv, TablesInv, LiveNumbersUnique, NoDuplicate
  <2>5. StatusMatchesMoney'
    <3>1. ASSUME NEW c \in Bills \ lateEdits', c # b
          PROVE  /\ bills'[c].paid <= bills'[c].total
                 /\ bills'[c].status = "PAID" => bills'[c].paid = bills'[c].total
                 /\ bills'[c].status = "PARTIALLY_PAID" => bills'[c].paid < bills'[c].total
                 /\ bills'[c].status \notin {"PARTIALLY_PAID", "PAID"} => bills'[c].paid = 0
      BY <1>6, <1>7, <3>1 DEF IInv, TablesInv, StatusMatchesMoney
    <3>2. ASSUME b \notin lateEdits'
          PROVE  row.status = "DRAFT" /\ row.paid = 0 /\ row.total \in Nat
      <4>1. bills[b].status = "DRAFT" /\ b \notin lateEdits
        BY <1>6, <3>2
      <4>2. bills[b].paid = 0
        BY <4>1 DEF IInv, TablesInv, StatusMatchesMoney
      <4> QED BY <1>4, <1>5, <4>1, <4>2 DEF BillRow
    <3> QED BY <1>7, <3>1, <3>2 DEF StatusMatchesMoney
  <2> QED BY <2>1, <2>2, <2>3, <2>4, <2>5 DEF TablesInv
<1>11. \A p2 \in Procs \ {p} : ~ Holds(p2, b)
  BY <1>6, OneHolder
<1>12. bills'[b].status # "ABSENT"
  BY <1>1, <1>2, <1>5, <1>7
<1> QED BY <1>6, <1>7, <1>8, <1>9, <1>10, <1>11, <1>12, CommitFrame

\* approve and void write a status on a bill whose row they hold; void's bill
\* carries no live payment.
LEMMA StatusWrite ==
  ASSUME IInv, NEW p \in Procs, NEW b \in Bills, NEW s \in {"APPROVED", "VOID"},
         Holds(p, b), s = "VOID" => LivePayments(b) = {},
         bills[b].status \in {"DRAFT", "APPROVED", "VOID"},
         s = "APPROVED" => bills[b].status \in {"DRAFT", "APPROVED"},
         bills' = [bills EXCEPT ![b].status = s],
         Finish(p), UNCHANGED <<payments, lateEdits>>
  PROVE  IInv'
<1> DEFINE row == [bills[b] EXCEPT !.status = s]
<1>1. bills[b] \in BillRow
  BY DEF IInv, TypeOK
<1>2. row \in BillRow
  BY <1>1 DEF BillRow, VendorBillStatus
<1>3. /\ row.status = s /\ row.vendor = bills[b].vendor /\ row.number = bills[b].number
      /\ row.paid = bills[b].paid /\ row.total = bills[b].total
  BY <1>1 DEF BillRow
<1>4. bills' = [bills EXCEPT ![b] = row]
  BY <1>1 DEF IInv, TypeOK, BillRow
<1> HIDE DEF row
<1>5. bills'[b] = row /\ \A c \in Bills \ {b} : bills'[c] = bills[c]
  BY <1>4 DEF IInv, TypeOK
<1>6. TypeOK'
  BY <1>2, <1>4, FinishFrame DEF IInv, TypeOK
<1>7. \A c \in Bills : LivePayments(c)' = LivePayments(c)
  BY DEF LivePayments, Live
<1>8. TablesInv'
  <2>1. PaymentsHaveBills'
    BY <1>3, <1>5 DEF IInv, TablesInv, PaymentsHaveBills, TypeOK, PaymentRow
  <2>2. PaidMatchesLedger'
    BY <1>3, <1>5, <1>7 DEF IInv, TablesInv, PaidMatchesLedger
  <2>3. CashOnPostedBillsOnly'
    BY <1>5, <1>7 DEF IInv, TablesInv, CashOnPostedBillsOnly
  <2>4. LiveNumbersUnique'
    BY <1>3, <1>5 DEF IInv, TablesInv, LiveNumbersUnique
  <2>5. StatusMatchesMoney'
    BY <1>3, <1>5 DEF IInv, TablesInv, StatusMatchesMoney
  <2> QED BY <2>1, <2>2, <2>3, <2>4, <2>5 DEF TablesInv
<1>9. \A p2 \in Procs \ {p} : ~ Holds(p2, b)
  BY OneHolder
<1> QED BY <1>3, <1>5, <1>6, <1>7, <1>8, <1>9, CommitFrame

LEMMA CommitVoidStep ==
  ASSUME IInv, NEW p \in Procs, CommitVoid(p)
  PROVE  IInv'
<1>1. /\ req[p].step = "voidWrite" /\ req[p].bill \in Bills
      /\ req[p].row = bills[req[p].bill]
      /\ req[p].row.status \in {"DRAFT", "APPROVED", "VOID"}
      /\ LivePayments(req[p].bill) = {}
  BY DEF IInv, RowFresh, Promises, CommitVoid, LockedSteps
<1>2. PICK b \in Bills : b = req[p].bill
  BY <1>1
<1>3. Holds(p, b) /\ LivePayments(b) = {}
  BY <1>1, <1>2 DEF Holds, LockedSteps
<1> QED BY <1>1, <1>2, <1>3, StatusWrite DEF CommitVoid

LEMMA CommitApproveStep ==
  ASSUME IInv, NEW p \in Procs, CommitApprove(p)
  PROVE  IInv'
<1>1. /\ req[p].step = "approveWrite" /\ req[p].bill \in Bills
      /\ req[p].row = bills[req[p].bill]
      /\ req[p].row.status \in {"DRAFT", "APPROVED"}
  BY DEF IInv, RowFresh, Promises, CommitApprove, LockedSteps
<1>2. PICK b \in Bills : b = req[p].bill
  BY <1>1
<1>3. Holds(p, b)
  BY <1>1, <1>2 DEF Holds, LockedSteps
<1> QED BY <1>1, <1>2, <1>3, StatusWrite DEF CommitApprove

\* A write of one bill's settlement (paid and status) under its lock, together
\* with the payments that justify it, keeps the invariant.
LEMMA SettlementWrite ==
  ASSUME IInv, NEW p \in Procs, NEW b \in Bills, Holds(p, b),
         bills[b].status # "ABSENT",
         NEW paid \in Nat, NEW s \in {"APPROVED", "PARTIALLY_PAID", "PAID"},
         bills[b].status # "VOID",
         bills' = [bills EXCEPT ![b].paid = paid, ![b].status = s],
         payments' \in [Payments -> PaymentRow],
         \A q \in Payments :
           payments'[q] = payments[q] \/ (payments'[q].bill = b /\ payments[q].bill \in {b, None}),
         \A q \in Payments : payments[q].bill # None =>
           payments'[q].bill = payments[q].bill /\ payments'[q].amount = payments[q].amount,
         paid = SumOf(payments', LivePayments(b)'),
         b \notin lateEdits =>
           /\ paid <= bills[b].total
           /\ s = "PAID" => paid = bills[b].total
           /\ s = "PARTIALLY_PAID" => paid < bills[b].total
           /\ s = "APPROVED" => paid = 0,
         Finish(p), UNCHANGED lateEdits
  PROVE  IInv'
<1> DEFINE row == [bills[b] EXCEPT !.paid = paid, !.status = s]
<1>1. bills[b] \in BillRow
  BY DEF IInv, TypeOK
<1>2. row \in BillRow
  BY <1>1 DEF BillRow, VendorBillStatus
<1>3. /\ row.status = s /\ row.vendor = bills[b].vendor /\ row.number = bills[b].number
      /\ row.paid = paid /\ row.total = bills[b].total
  BY <1>1 DEF BillRow
<1>4. bills' = [bills EXCEPT ![b] = row]
  BY <1>1 DEF IInv, TypeOK, BillRow
<1> HIDE DEF row
<1>5. bills'[b] = row /\ \A c \in Bills \ {b} : bills'[c] = bills[c]
  BY <1>4 DEF IInv, TypeOK
<1>6. TypeOK'
  <2>1. TypeOK
    BY DEF IInv
  <2>2. lock' \in [Bills -> Procs \cup {None}] /\ req' \in [Procs -> Request]
    BY <2>1, FinishFrame
  <2>3. bills' \in [Bills -> BillRow]
    BY <2>1, <1>2, <1>4 DEF TypeOK
  <2>4. payments' \in [Payments -> PaymentRow] /\ lateEdits' \subseteq Bills
    BY <2>1 DEF TypeOK
  <2> QED BY <2>2, <2>3, <2>4 DEF TypeOK
<1>7. \A c \in Bills \ {b} : LivePayments(c)' = LivePayments(c)
  <2>1. ASSUME NEW c \in Bills \ {b}, NEW q \in Payments
        PROVE  Live(q, c)' <=> Live(q, c)
    BY NoneAssumption DEF Live
  <2> QED BY <2>1 DEF LivePayments
<1>8. ASSUME NEW c \in Bills \ {b}
      PROVE  SumOf(payments', LivePayments(c)') = SumOf(payments, LivePayments(c))
  <2>1. \A q \in LivePayments(c) : payments[q].amount = payments'[q].amount
    BY NoneAssumption DEF LivePayments, Live
  <2>2. SumOf(payments, LivePayments(c)) = SumOf(payments', LivePayments(c))
    BY <2>1, SumSame
  <2> QED BY <2>2, <1>7
<1>9. TablesInv'
  <2>1. PaymentsHaveBills'
    <3>1. ASSUME NEW q \in Payments, payments'[q].bill # None
          PROVE  bills'[payments'[q].bill].status # "ABSENT"
      <4>1. CASE payments'[q].bill = b
        BY <4>1, <1>3, <1>5
      <4>2. CASE payments'[q].bill # b
        <5>1. payments'[q] = payments[q]
          BY <4>2
        <5>2. payments[q].bill \in Bills \ {b}
          BY <3>1, <4>2, <5>1 DEF IInv, TypeOK, PaymentRow
        <5> QED BY <3>1, <5>1, <5>2, <1>5 DEF IInv, TablesInv, PaymentsHaveBills
      <4> QED BY <4>1, <4>2
    <3> QED BY <3>1 DEF PaymentsHaveBills
  <2>2. PaidMatchesLedger'
    BY <1>3, <1>5, <1>8 DEF IInv, TablesInv, PaidMatchesLedger
  <2>3. CashOnPostedBillsOnly'
    BY <1>3, <1>5, <1>7 DEF IInv, TablesInv, CashOnPostedBillsOnly
  <2>4. LiveNumbersUnique'
    <3>1. \A c \in Bills :
            /\ bills'[c].vendor = bills[c].vendor /\ bills'[c].number = bills[c].number
            /\ bills'[c].status \notin {"ABSENT", "VOID"} => bills[c].status \notin {"ABSENT", "VOID"}
      BY <1>3, <1>5
    <3>2. LiveNumbersUnique
      BY DEF IInv, TablesInv
    <3> QED BY ONLY <3>1, <3>2 DEF LiveNumbersUnique
  <2>5. StatusMatchesMoney'
    <3> DEFINE Right(r) == /\ r.paid <= r.total
                           /\ r.status = "PAID" => r.paid = r.total
                           /\ r.status = "PARTIALLY_PAID" => r.paid < r.total
                           /\ r.status \notin {"PARTIALLY_PAID", "PAID"} => r.paid = 0
    <3>1. \A c \in Bills \ lateEdits : Right(bills[c])
      BY DEF IInv, TablesInv, StatusMatchesMoney
    <3>2. b \notin lateEdits => Right(row)
      BY ONLY <1>3, s \in {"APPROVED", "PARTIALLY_PAID", "PAID"},
         b \notin lateEdits =>
           /\ paid <= bills[b].total
           /\ s = "PAID" => paid = bills[b].total
           /\ s = "PARTIALLY_PAID" => paid < bills[b].total
           /\ s = "APPROVED" => paid = 0
    <3>3. lateEdits' = lateEdits
      OBVIOUS
    <3>4. \A c \in Bills \ lateEdits' : Right(bills'[c])
      <4> HIDE DEF Right
      <4> QED BY ONLY <1>5, <3>1, <3>2, <3>3
    <3> QED BY ONLY <3>4 DEF StatusMatchesMoney
  <2> QED BY <2>1, <2>2, <2>3, <2>4, <2>5 DEF TablesInv
<1>10. \A p2 \in Procs \ {p} : ~ Holds(p2, b)
  BY OneHolder
<1> QED BY <1>3, <1>5, <1>6, <1>7, <1>9, <1>10, CommitFrame

\* recordPayment: the new row and the new running total agree.
LEMMA CommitPayStep ==
  ASSUME IInv, NEW p \in Procs, NEW q \in Payments, CommitPay(p, q)
  PROVE  IInv'
<1>1. /\ req[p].step = "pay" /\ req[p].bill \in Bills /\ lock[req[p].bill] = p
      /\ req[p].row = bills[req[p].bill]
      /\ req[p].value \in Amounts /\ Payable(req[p].row)
      /\ PaymentAccepted(req[p].row.total, req[p].row.paid, req[p].value)
  BY DEF IInv, RowFresh, Promises, CommitPay, LockedSteps
<1>2. PICK b \in Bills : b = req[p].bill
  BY <1>1
<1>3. PICK a \in Nat : a = req[p].value
  BY <1>1, MoneyAssumption
<1> DEFINE paid == PaidAfter(bills[b].paid, a)
           s == StatusAfterPayment(bills[b].total, paid)
           row == [bill |-> b, amount |-> Round2(a), reversedBy |-> None]
<1>4. bills[b] \in BillRow /\ bills[b].total \in Nat /\ bills[b].paid \in Nat
  BY DEF IInv, TypeOK, BillRow
<1>5. Round2(a) \in Nat /\ paid \in Nat /\ paid <= bills[b].total
  BY <1>1, <1>2, <1>3, <1>4, PaymentFits
<1>6. /\ payments[q].bill = None
      /\ payments' = [payments EXCEPT ![q] = row]
      /\ bills' = [bills EXCEPT ![b].paid = paid, ![b].status = s]
      /\ Finish(p) /\ UNCHANGED lateEdits
  BY <1>1, <1>2, <1>3 DEF CommitPay
<1>7. /\ s \in {"PARTIALLY_PAID", "PAID"}
      /\ s = "PAID" => paid = bills[b].total
      /\ s = "PARTIALLY_PAID" => paid < bills[b].total
  BY <1>4, <1>5 DEF StatusAfterPayment
<1>8. paid = bills[b].paid + Round2(a)
  BY DEF PaidAfter
<1> HIDE DEF paid, s
<1>9. row \in PaymentRow /\ row.bill = b /\ row.amount = Round2(a) /\ row.reversedBy = None
  BY <1>5 DEF PaymentRow
<1> HIDE DEF row
<1>10. /\ payments \in [Payments -> PaymentRow] /\ payments' \in [Payments -> PaymentRow]
       /\ payments'[q] = row /\ \A r \in Payments \ {q} : payments'[r] = payments[r]
  BY <1>6, <1>9 DEF IInv, TypeOK
<1>11. q \notin LivePayments(b) /\ LivePayments(b)' = LivePayments(b) \cup {q}
  BY <1>6, <1>9, <1>10, NoneAssumption DEF LivePayments, Live
<1>12. paid = SumOf(payments', LivePayments(b)')
  <2>1. bills[b].paid = SumOf(payments, LivePayments(b))
    BY DEF IInv, TablesInv, PaidMatchesLedger
  <2>2. LivePayments(b) \in SUBSET Payments
    BY DEF LivePayments
  <2>3. \A r \in LivePayments(b) : payments[r].amount = payments'[r].amount
    BY <1>10, <1>11, <2>2
  <2>4. SumOf(payments, LivePayments(b)) = SumOf(payments', LivePayments(b))
    BY <2>3, SumSame
  <2>5. PICK L \in SUBSET Payments : L = LivePayments(b)
    BY <2>2
  <2>6. PICK rows \in [Payments -> PaymentRow] : rows = payments'
    BY <1>10
  <2>7. SumOf(rows, L \cup {q}) = SumOf(rows, L) + rows[q].amount
    <3>1. HasAmounts(rows, L) /\ rows[q].amount \in Nat
      BY PaymentsHaveAmounts DEF PaymentRow
    <3> QED BY <2>5, <1>11, <3>1, SumAdd
  <2> QED BY <1>8, <1>9, <1>10, <1>11, <2>1, <2>4, <2>5, <2>6, <2>7
<1>13. Holds(p, b)
  BY <1>1, <1>2 DEF Holds, LockedSteps
<1>14. bills[b].status \notin {"ABSENT", "VOID"}
  BY <1>1, <1>2 DEF Payable
<1>15. \A r \in Payments :
         payments'[r] = payments[r] \/ (payments'[r].bill = b /\ payments[r].bill \in {b, None})
  BY <1>6, <1>9, <1>10
<1>16. \A r \in Payments : payments[r].bill # None =>
         payments'[r].bill = payments[r].bill /\ payments'[r].amount = payments[r].amount
  BY <1>6, <1>10
<1>17. s \in {"APPROVED", "PARTIALLY_PAID", "PAID"} /\ (s = "APPROVED" => paid = 0)
  BY <1>7
<1> QED BY <1>5, <1>6, <1>7, <1>10, <1>12, <1>13, <1>14, <1>15, <1>16, <1>17, SettlementWrite

\* reversePayment: the total becomes the sum of the payments that remain.
LEMMA CommitReversalStep ==
  ASSUME IInv, NEW p \in Procs, CommitReversal(p)
  PROVE  IInv'
<1>1. /\ req[p].step = "reverseWrite" /\ req[p].bill \in Bills /\ lock[req[p].bill] = p
      /\ req[p].row = bills[req[p].bill]
      /\ req[p].payment \in Payments /\ payments[req[p].payment].bill = req[p].bill
      /\ payments[req[p].payment].reversedBy = None
      /\ req[p].value = SumOf(payments, LivePayments(req[p].bill) \ {req[p].payment})
  BY DEF IInv, RowFresh, Promises, CommitReversal, LockedSteps
<1>2. PICK b \in Bills : b = req[p].bill
  BY <1>1
<1>3. PICK q \in Payments : q = req[p].payment
  BY <1>1
<1>4. PICK L \in SUBSET Payments : L = LivePayments(b)
  BY DEF LivePayments
<1>5. PICK rest \in SUBSET L : rest = L \ {q}
  OBVIOUS
<1>6. PICK paid \in Nat : paid = SumOf(payments, rest)
  BY <1>5, PaymentsHaveAmounts, SumType DEF IInv, TypeOK
<1>7. paid = req[p].value /\ bills[b].status # "ABSENT"
  BY <1>1, <1>2, <1>3, <1>4, <1>5, <1>6 DEF IInv, RowFresh, CommitReversal, LockedSteps
<1>8. bills[b] \in BillRow /\ bills[b].total \in Nat /\ bills[b].paid \in Nat
  BY DEF IInv, TypeOK, BillRow
<1>9. paid <= bills[b].paid
  <2>1. HasAmounts(payments, L)
    BY PaymentsHaveAmounts DEF IInv, TypeOK
  <2>2. SumOf(payments, rest) <= SumOf(payments, L)
    BY <2>1, SumMonotone
  <2> QED BY <1>4, <1>6, <2>2 DEF IInv, TablesInv, PaidMatchesLedger
<1> DEFINE s == StatusAfterReversal("APPROVED", bills[b].total, paid)
           row == [payments[q] EXCEPT !.reversedBy = p]
<1>10. /\ payments' = [payments EXCEPT ![q].reversedBy = p]
       /\ bills' = [bills EXCEPT ![b].paid = paid, ![b].status = s]
       /\ CanMove(VendorBillReversalEdges, bills[b].status, s)
       /\ Finish(p) /\ UNCHANGED lateEdits
  BY <1>1, <1>2, <1>3, <1>7 DEF CommitReversal
<1>11. /\ s \in {"APPROVED", "PARTIALLY_PAID", "PAID"}
       /\ paid <= bills[b].total =>
            /\ s = "PAID" => paid = bills[b].total
            /\ s = "PARTIALLY_PAID" => paid < bills[b].total
            /\ s = "APPROVED" => paid = 0
  BY <1>8 DEF StatusAfterReversal, StatusAfterPayment
<1>12. bills[b].status # "VOID"
  BY <1>10 DEF CanMove, VendorBillReversalEdges
<1> HIDE DEF s
<1>13. payments \in [Payments -> PaymentRow] /\ payments[q] \in PaymentRow
  BY DEF IInv, TypeOK
<1>14. /\ row \in PaymentRow /\ row.bill = payments[q].bill /\ row.amount = payments[q].amount
       /\ row.reversedBy = p
  BY <1>13 DEF PaymentRow
<1>15. payments' = [payments EXCEPT ![q] = row]
  BY <1>10, <1>13
<1> HIDE DEF row
<1>16. /\ payments' \in [Payments -> PaymentRow]
       /\ payments'[q] = row /\ \A r \in Payments \ {q} : payments'[r] = payments[r]
  BY <1>13, <1>14, <1>15
<1>17. LivePayments(b)' = rest
  BY <1>4, <1>5, <1>14, <1>16, NoneAssumption DEF LivePayments, Live
<1>18. paid = SumOf(payments', LivePayments(b)')
  <2>1. \A r \in rest : payments[r].amount = payments'[r].amount
    BY <1>4, <1>5, <1>16
  <2>2. SumOf(payments, rest) = SumOf(payments', rest)
    BY <2>1, SumSame
  <2> QED BY <1>6, <1>17, <2>2
<1>19. b \notin lateEdits => paid <= bills[b].total
  BY <1>8, <1>9 DEF IInv, TablesInv, StatusMatchesMoney
<1>20. Holds(p, b)
  BY <1>1, <1>2 DEF Holds, LockedSteps
<1>21. payments[q].bill = b
  BY <1>1, <1>2, <1>3
<1>22. \A r \in Payments :
         payments'[r] = payments[r] \/ (payments'[r].bill = b /\ payments[r].bill \in {b, None})
  BY <1>14, <1>16, <1>21
<1>23. \A r \in Payments : payments[r].bill # None =>
         payments'[r].bill = payments[r].bill /\ payments'[r].amount = payments[r].amount
  BY <1>14, <1>16
<1>24. b \notin lateEdits =>
         /\ paid <= bills[b].total
         /\ s = "PAID" => paid = bills[b].total
         /\ s = "PARTIALLY_PAID" => paid < bills[b].total
         /\ s = "APPROVED" => paid = 0
  BY <1>11, <1>19
<1> QED BY <1>7, <1>10, <1>11, <1>12, <1>16, <1>18, <1>20, <1>22, <1>23, <1>24, SettlementWrite

(* -------------------------------- theorems ------------------------------ *)

LEMMA InitEstablishes == Init => IInv
<1> SUFFICES ASSUME Init PROVE IInv
  OBVIOUS
<1>1. TypeOK
  BY IdleType DEF Init, TypeOK, NoBill, BillRow, NoPayment, PaymentRow
<1>2. \A b \in Bills : LivePayments(b) = {} /\ bills[b].paid = 0 /\ bills[b].status = "ABSENT"
                       /\ bills[b].total = 0
  BY NoneAssumption DEF Init, LivePayments, Live, NoPayment, NoBill
<1>3. TablesInv
  <2>1. PaymentsHaveBills
    BY DEF Init, PaymentsHaveBills, NoPayment
  <2>2. PaidMatchesLedger
    BY <1>2, SumEmpty DEF PaidMatchesLedger
  <2> QED BY <1>2, <2>1, <2>2 DEF TablesInv, CashOnPostedBillsOnly, LiveNumbersUnique, StatusMatchesMoney
<1>4. \A p \in Procs : RowFresh(p) /\ Promises(p)
  BY DEF Init, Idle, RowFresh, Promises, LockedSteps
<1> QED BY <1>1, <1>3, <1>4 DEF IInv

LEMMA StepPreserves == IInv /\ [Next]_vars => IInv'
<1> SUFFICES ASSUME IInv, [Next]_vars PROVE IInv'
  OBVIOUS
<1>1. ASSUME NEW p \in Procs, Begin(p)
      PROVE  IInv'
  BY <1>1, BeginCreateStep, BeginUpdateStep, BeginApproveStep, BeginVoidStep, BeginPayStep,
     LocatePaymentStep DEF Begin
<1>2. ASSUME NEW p \in Procs, Advance(p)
      PROVE  IInv'
  BY <1>2, CommitCreateStep, CheckUpdateStep, CommitUpdateStep, CheckApproveStep,
     CommitApproveStep, CheckVoidStep, CommitVoidStep, CommitPayStep, LockForReversalStep,
     SumRemainingStep, CommitReversalStep DEF Advance
<1>3. CASE UNCHANGED vars
  <2>1. /\ bills' = bills /\ payments' = payments /\ lock' = lock /\ req' = req
        /\ lateEdits' = lateEdits
    BY <1>3 DEF vars
  <2>2. \A b : LivePayments(b)' = LivePayments(b)
    BY <2>1 DEF LivePayments, Live
  <2>3. TablesInv'
    BY <2>1, TablesFrame DEF IInv
  <2>4. TypeOK'
    BY <2>1 DEF IInv, TypeOK
  <2>5. \A p \in Procs : RowFresh(p)' /\ Promises(p)'
    <3> SUFFICES ASSUME NEW p \in Procs PROVE RowFresh(p)' /\ Promises(p)'
      OBVIOUS
    <3>1. RowFresh(p) /\ Promises(p) /\ TypeOK
      BY DEF IInv
    <3>2. Keeps(p)
      BY <2>1, <2>2, <3>1 DEF Keeps, Holds, RowFresh
    <3> QED BY <3>1, <3>2, RequestFrame
  <2> QED BY <2>3, <2>4, <2>5 DEF IInv
<1> QED BY <1>1, <1>2, <1>3, AbortStep DEF Next

\* Every reachable state of any number of requests satisfies the invariant.
THEOREM InductiveInvariant == Spec => []IInv
<1>1. Init => IInv
  BY InitEstablishes
<1>2. IInv /\ [Next]_vars => IInv'
  BY StepPreserves
<1> QED BY <1>1, <1>2, PTL DEF Spec

\* The tables and requests only ever hold values of their types.
THEOREM TypeCorrect == Spec => []TypeOK
<1>1. IInv => TypeOK
  BY DEF IInv
<1> QED BY <1>1, InductiveInvariant, PTL

\* Whatever payments and reversals run concurrently, a bill's running total is
\* the sum of its payments that are not reversed (recordPayment, reversePayment).
THEOREM LedgerCorrect == Spec => []PaidMatchesLedger
<1>1. IInv => PaidMatchesLedger
  BY DEF IInv, TablesInv
<1> QED BY <1>1, InductiveInvariant, PTL

\* Voiding a bill never strands a live payment (void, recordPayment).
THEOREM NoStrandedCash == Spec => []CashOnPostedBillsOnly
<1>1. IInv => CashOnPostedBillsOnly
  BY DEF IInv, TablesInv
<1> QED BY <1>1, InductiveInvariant, PTL

\* The partial unique index makes good what the duplicate checks of create,
\* update and approve cannot promise.
THEOREM NumbersUnique == Spec => []LiveNumbersUnique
<1>1. IInv => LiveNumbersUnique
  BY DEF IInv, TablesInv
<1> QED BY <1>1, InductiveInvariant, PTL

\* A bill's status is the one its money implies and it is never overpaid,
\* unless an edit reached it after it was posted.
THEOREM StatusCorrect == Spec => []StatusMatchesMoney
<1>1. IInv => StatusMatchesMoney
  BY DEF IInv, TablesInv
<1> QED BY <1>1, InductiveInvariant, PTL

(* ----------------------------- action properties ------------------------ *)

\* Which statuses each step can write, given the row it holds is the current one.
LEMMA ForwardStep ==
  ASSUME IInv, NEW p \in Procs, Begin(p) \/ Advance(p) \/ Abort(p), ~ CommitReversal(p),
         NEW b \in Bills
  PROVE  Rank[bills'[b].status] >= Rank[bills[b].status]
<1> DEFINE old == bills[b].status
           new == bills'[b].status
<1>1. old \in VendorBillStatus \cup {"ABSENT"}
  BY DEF IInv, TypeOK, BillRow
<1>2. \/ new = old
      \/ old = "ABSENT"
      \/ new = "APPROVED" /\ old \in {"DRAFT", "APPROVED"}
      \/ new = "VOID"
      \/ new \in {"PARTIALLY_PAID", "PAID"} /\ old \in {"APPROVED", "PARTIALLY_PAID"}
  <2>1. ASSUME NEW c \in Bills, CommitCreate(p, c)
        PROVE  new = old \/ old = "ABSENT"
    BY <2>1 DEF CommitCreate, IInv, TypeOK
  <2>2. CASE CommitUpdate(p)
    <3>1. req[p].bill \in Bills
      BY <2>2 DEF CommitUpdate, IInv, Promises
    <3>2. new = old
      BY <2>2, <3>1 DEF CommitUpdate, IInv, TypeOK, BillRow
    <3> QED BY <3>2
  <2>3. CASE CommitApprove(p)
    <3>1. req[p].bill \in Bills /\ bills[req[p].bill].status \in {"DRAFT", "APPROVED"}
      BY <2>3 DEF CommitApprove, IInv, RowFresh, Promises, LockedSteps
    <3>2. bills' = [bills EXCEPT ![req[p].bill].status = "APPROVED"]
      BY <2>3 DEF CommitApprove
    <3> QED BY <3>1, <3>2 DEF IInv, TypeOK, BillRow
  <2>4. CASE CommitVoid(p)
    BY <2>4 DEF CommitVoid, IInv, TypeOK, BillRow
  <2>5. ASSUME NEW q \in Payments, CommitPay(p, q)
        PROVE  new = old \/ (/\ new \in {"PARTIALLY_PAID", "PAID"}
                             /\ old \in {"APPROVED", "PARTIALLY_PAID"})
    <3>1. req[p].bill \in Bills /\ bills[req[p].bill].status \in {"APPROVED", "PARTIALLY_PAID"}
      BY <2>5 DEF CommitPay, IInv, RowFresh, Promises, LockedSteps, Payable
    <3> DEFINE paid == PaidAfter(req[p].row.paid, req[p].value)
               settled == StatusAfterPayment(req[p].row.total, paid)
    <3>2. bills' = [bills EXCEPT ![req[p].bill].paid = paid, ![req[p].bill].status = settled]
      BY <2>5 DEF CommitPay
    <3>3. settled \in {"PARTIALLY_PAID", "PAID"}
      BY DEF StatusAfterPayment
    <3> HIDE DEF paid, settled
    <3> QED BY <3>1, <3>2, <3>3 DEF IInv, TypeOK, BillRow
  <2>6. CASE UNCHANGED bills
    BY <2>6
  <2> QED BY <2>1, <2>2, <2>3, <2>4, <2>5, <2>6
          DEF Begin, Advance, Abort, BeginCreate, BeginUpdate, BeginApprove, BeginVoid, BeginPay,
              LocatePayment, LockForReversal, CheckUpdate, CheckApprove, CheckVoid, SumRemaining
<1>3. /\ Rank["ABSENT"] = 0 /\ Rank["DRAFT"] = 1 /\ Rank["APPROVED"] = 2
      /\ Rank["PARTIALLY_PAID"] = 3 /\ Rank["PAID"] = 4 /\ Rank["VOID"] = 5
  BY DEF Rank
<1>4. new \in VendorBillStatus \cup {"ABSENT"}
  BY StepPreserves DEF IInv, TypeOK, BillRow, Next
<1> HIDE DEF old, new
<1>5. Rank[new] >= Rank[old]
  BY <1>1, <1>2, <1>3, <1>4 DEF VendorBillStatus
<1> QED BY <1>5 DEF old, new

\* Only reversing one of its live payments takes a bill back to an earlier
\* status: no approval, payment or void writes over a newer one.
THEOREM OnlyReversalGoesBack == Spec => BackwardOnlyByReversal
<1>1. ASSUME IInv, [Next]_vars, NEW b \in Bills,
             Rank[bills'[b].status] < Rank[bills[b].status]
      PROVE  \E q \in LivePayments(b) : payments'[q].reversedBy # None
  <2>1. bills[b].status \in VendorBillStatus \cup {"ABSENT"}
    BY <1>1 DEF IInv, TypeOK, BillRow
  <2>2. Rank[bills[b].status] \in Int
    BY <2>1 DEF Rank, VendorBillStatus
  <2>3. bills' # bills
    BY <1>1, <2>2
  <2>4. IInv'
    BY <1>1, StepPreserves
  <2>5. bills'[b].status \in VendorBillStatus \cup {"ABSENT"}
    BY <1>1, <2>4 DEF IInv, TypeOK, BillRow
  <2>6. Rank[bills'[b].status] \in Int
    BY <2>5 DEF Rank, VendorBillStatus
  <2>7. PICK p \in Procs : CommitReversal(p)
    BY <1>1, <2>2, <2>3, <2>6, ForwardStep DEF Next, vars
  <2>8. /\ req[p].bill \in Bills /\ req[p].payment \in Payments
        /\ payments[req[p].payment].bill = req[p].bill
        /\ payments[req[p].payment].reversedBy = None
    BY <1>1, <2>7 DEF CommitReversal, IInv, Promises
  <2>9. b = req[p].bill
    BY <1>1, <2>2, <2>7, <2>8 DEF CommitReversal, IInv, TypeOK
  <2>10. req[p].payment \in LivePayments(b)
    BY <2>8, <2>9 DEF LivePayments, Live
  <2>11. payments'[req[p].payment].reversedBy = p
    BY <1>1, <2>7, <2>8 DEF CommitReversal, IInv, TypeOK, PaymentRow
  <2> QED BY <2>10, <2>11, NoneAssumption
<1>2. IInv /\ [Next]_vars =>
        [\A b \in Bills : Rank[bills'[b].status] < Rank[bills[b].status] =>
           \E q \in LivePayments(b) : payments'[q].reversedBy # None]_vars
  BY <1>1
<1> QED BY <1>2, InductiveInvariant, PTL DEF Spec, BackwardOnlyByReversal

\* A payment keeps its bill and amount, and is reversed by one request only,
\* even when two reversals of it race.
THEOREM TrailKept == Spec => CashTrailKept
<1>1. ASSUME IInv, [Next]_vars, NEW q \in Payments, payments[q].bill # None
      PROVE  /\ payments'[q].bill = payments[q].bill
             /\ payments'[q].amount = payments[q].amount
             /\ payments[q].reversedBy # None =>
                  payments'[q].reversedBy = payments[q].reversedBy
  <2>1. ASSUME NEW p \in Procs, NEW r \in Payments, CommitPay(p, r)
        PROVE  payments'[q] = payments[q]
    BY <1>1, <2>1 DEF CommitPay, IInv, TypeOK
  <2>2. ASSUME NEW p \in Procs, CommitReversal(p)
        PROVE  /\ payments'[q].bill = payments[q].bill
               /\ payments'[q].amount = payments[q].amount
               /\ payments[q].reversedBy # None => payments'[q] = payments[q]
    <3>1. req[p].payment \in Payments /\ payments[req[p].payment].reversedBy = None
      BY <1>1, <2>2 DEF CommitReversal, IInv, Promises
    <3>2. payments' = [payments EXCEPT ![req[p].payment].reversedBy = p]
      BY <2>2 DEF CommitReversal
    <3> QED BY <1>1, <3>1, <3>2 DEF IInv, TypeOK, PaymentRow
  <2>3. CASE UNCHANGED payments
    BY <2>3
  <2> QED BY <1>1, <2>1, <2>2, <2>3
          DEF Next, vars, Begin, Advance, Abort, BeginCreate, BeginUpdate, BeginApprove, BeginVoid,
              BeginPay, LocatePayment, LockForReversal, CheckUpdate, CheckApprove, CheckVoid,
              SumRemaining, CommitCreate, CommitUpdate, CommitApprove, CommitVoid
<1>2. IInv /\ [Next]_vars =>
        [\A q \in Payments : payments[q].bill # None =>
           /\ payments'[q].bill = payments[q].bill
           /\ payments'[q].amount = payments[q].amount
           /\ payments[q].reversedBy # None =>
                payments'[q].reversedBy = payments[q].reversedBy]_vars
  BY <1>1
<1> QED BY <1>2, InductiveInvariant, PTL DEF Spec, CashTrailKept

(* ------------------------------ refinement ------------------------------ *)

\* recordPayment, seen as the ledger: a free entry takes the rounded amount
\* and the balance of its bill grows by it.
LEMMA PayRecords ==
  ASSUME IInv, NEW p \in Procs, NEW q \in Payments, CommitPay(p, q)
  PROVE  Ledger!Next
<1>1. /\ req[p].bill \in Bills /\ req[p].row = bills[req[p].bill]
      /\ req[p].value \in Amounts
  BY DEF IInv, RowFresh, Promises, CommitPay, LockedSteps
<1>2. PICK b \in Bills : b = req[p].bill
  BY <1>1
<1>3. PICK a \in Amounts : a = req[p].value
  BY <1>1
<1> DEFINE cents == Round2(a)
           s == StatusAfterPayment(bills[b].total, bills[b].paid + cents)
           row == [bill |-> b, amount |-> cents, reversedBy |-> None]
<1>4. /\ payments[q].bill = None
      /\ payments' = [payments EXCEPT ![q] = row]
      /\ bills' = [bills EXCEPT ![b].paid = bills[b].paid + cents, ![b].status = s]
  BY <1>1, <1>2, <1>3 DEF CommitPay, PaidAfter
<1>5. cents \in {Round2(x) : x \in Amounts}
  OBVIOUS
<1> HIDE DEF cents, s
<1>6. Trail[q].doc = None
  BY <1>4 DEF Trail
<1>7. Trail' = [Trail EXCEPT ![q] = [doc |-> b, amount |-> cents, reversedBy |-> None]]
  BY <1>4 DEF Trail, IInv, TypeOK, PaymentRow
<1>8. Balances' = [Balances EXCEPT ![b] = Balances[b] + cents]
  BY <1>4 DEF Balances, IInv, TypeOK, BillRow
<1>9. Ledger!Record(q, b, cents)
  BY <1>6, <1>7, <1>8 DEF Ledger!Record
<1> QED BY <1>5, <1>9 DEF Ledger!Next

\* reversePayment, seen as the ledger: the sum of the payments that remain is
\* the old balance less the entry that is reversed.
LEMMA ReversalReverses ==
  ASSUME IInv, NEW p \in Procs, CommitReversal(p)
  PROVE  Ledger!Next
<1>1. /\ req[p].bill \in Bills /\ req[p].payment \in Payments
      /\ payments[req[p].payment].bill = req[p].bill
      /\ payments[req[p].payment].reversedBy = None
      /\ req[p].value = SumOf(payments, LivePayments(req[p].bill) \ {req[p].payment})
  BY DEF IInv, Promises, RowFresh, CommitReversal, LockedSteps
<1>2. PICK b \in Bills : b = req[p].bill
  BY <1>1
<1>3. PICK q \in Payments : q = req[p].payment
  BY <1>1
<1>4. PICK L \in SUBSET Payments : L = LivePayments(b)
  BY DEF LivePayments
<1>5. PICK rest \in SUBSET Payments : rest = L \ {q}
  OBVIOUS
<1>6. q \in L /\ L = rest \cup {q} /\ q \notin rest
  BY <1>1, <1>2, <1>3, <1>4, <1>5 DEF LivePayments, Live
<1>7. PICK rows \in [Payments -> PaymentRow] : rows = payments
  BY DEF IInv, TypeOK
<1>8. PICK remaining \in Nat : remaining = SumOf(rows, rest)
  BY PaymentsHaveAmounts, SumType
<1>9. bills[b].paid = remaining + payments[q].amount
  <2>1. bills[b].paid = SumOf(rows, L)
    BY <1>4, <1>7 DEF IInv, TablesInv, PaidMatchesLedger
  <2>2. SumOf(rows, rest \cup {q}) = SumOf(rows, rest) + rows[q].amount
    <3>1. HasAmounts(rows, rest) /\ rows[q].amount \in Nat
      BY PaymentsHaveAmounts DEF PaymentRow
    <3> QED BY <1>6, <3>1, SumAdd
  <2> QED BY <1>6, <1>7, <1>8, <2>1, <2>2
<1>10. PICK s : /\ payments' = [payments EXCEPT ![q].reversedBy = p]
                /\ bills' = [bills EXCEPT ![b].paid = remaining, ![b].status = s]
  <2>1. req[p].value = remaining
    BY <1>1, <1>2, <1>3, <1>4, <1>5, <1>7, <1>8
  <2> QED BY <1>2, <1>3, <2>1 DEF CommitReversal
<1>11. Trail[q].doc = b /\ Trail[q].reversedBy = None /\ Trail[q].amount = payments[q].amount
  BY <1>1, <1>2, <1>3 DEF Trail
<1>12. Trail' = [Trail EXCEPT ![q].reversedBy = p]
  <2> DEFINE Entry(row) == [doc |-> row.bill, amount |-> row.amount, reversedBy |-> row.reversedBy]
  <2>1. payments \in [Payments -> PaymentRow]
    BY DEF IInv, TypeOK
  <2>2. /\ \A r \in Payments \ {q} : payments'[r] = payments[r]
        /\ payments'[q] = [payments[q] EXCEPT !.reversedBy = p]
    BY <1>10, <2>1
  <2>3. Entry(payments'[q]) = [Entry(payments[q]) EXCEPT !.reversedBy = p]
    BY <2>1, <2>2 DEF PaymentRow
  <2>4. Trail = [r \in Payments |-> Entry(payments[r])]
    BY DEF Trail
  <2>5. Trail' = [r \in Payments |-> Entry(payments'[r])]
    BY DEF Trail
  <2> HIDE DEF Entry
  <2> QED BY <2>2, <2>3, <2>4, <2>5
<1>13. Balances' = [Balances EXCEPT ![b] = remaining]
  BY <1>10 DEF Balances, IInv, TypeOK, BillRow
<1>14. Balances[b] - Trail[q].amount = remaining
  <2>1. Balances[b] = bills[b].paid
    BY DEF Balances
  <2>2. payments[q].amount \in Int
    BY DEF IInv, TypeOK, PaymentRow
  <2> QED BY <1>9, <1>11, <2>1, <2>2
<1>15. Ledger!Reverse(q, p)
  BY <1>11, <1>12, <1>13, <1>14, NoneAssumption DEF Ledger!Reverse
<1> QED BY <1>15 DEF Ledger!Next

\* No other step touches a payment or a running total: a bill is inserted with
\* nothing paid, and while it does not exist nothing is paid on it either.
LEMMA OtherStepsStutter ==
  ASSUME IInv, NEW p \in Procs, Begin(p) \/ Advance(p) \/ Abort(p),
         \A q \in Payments : ~ CommitPay(p, q), ~ CommitReversal(p)
  PROVE  Balances' = Balances /\ Trail' = Trail
<1>1. payments' = payments
  BY DEF Begin, Advance, Abort, BeginCreate, BeginUpdate, BeginApprove, BeginVoid, BeginPay,
         LocatePayment, LockForReversal, CheckUpdate, CheckApprove, CheckVoid, SumRemaining,
         CommitCreate, CommitUpdate, CommitApprove, CommitVoid
<1>2. \A b \in Bills : bills'[b].paid = bills[b].paid
  <2>1. ASSUME NEW b \in Bills, CommitCreate(p, b)
        PROVE  \A c \in Bills : bills'[c].paid = bills[c].paid
    <3>1. bills[b].status = "ABSENT" /\ bills'[b].paid = 0
      BY <2>1 DEF CommitCreate, IInv, TypeOK
    <3>2. bills[b].paid = SumOf(payments, LivePayments(b)) /\ LivePayments(b) = {}
      BY <3>1 DEF IInv, TablesInv, PaidMatchesLedger, CashOnPostedBillsOnly
    <3>3. bills[b].paid = 0
      BY <3>2, SumEmpty
    <3> QED BY <2>1, <3>1, <3>3 DEF CommitCreate, IInv, TypeOK
  <2>2. CASE CommitUpdate(p)
    BY <2>2 DEF CommitUpdate, IInv, TypeOK, BillRow
  <2>3. CASE CommitApprove(p)
    BY <2>3 DEF CommitApprove, IInv, TypeOK, BillRow
  <2>4. CASE CommitVoid(p)
    BY <2>4 DEF CommitVoid, IInv, TypeOK, BillRow
  <2>5. CASE bills' = bills
    BY <2>5
  <2> QED BY <2>1, <2>2, <2>3, <2>4, <2>5
          DEF Begin, Advance, Abort, BeginCreate, BeginUpdate, BeginApprove, BeginVoid, BeginPay,
              LocatePayment, LockForReversal, CheckUpdate, CheckApprove, CheckVoid, SumRemaining
<1> QED BY <1>1, <1>2 DEF Balances, Trail

\* The service implements the ledger: every step records one payment, reverses
\* one payment once, or leaves the cash alone.
THEOREM ImplementsLedger == Spec => KeepsLedger
<1>1. Init => Ledger!Init
  BY DEF Init, Ledger!Init, Ledger!NoEntry, Balances, Trail, NoBill, NoPayment
<1>2. IInv /\ [Next]_vars => [Ledger!Next]_<<Balances, Trail>>
  <2>1. ASSUME IInv, UNCHANGED vars
        PROVE  UNCHANGED <<Balances, Trail>>
    BY <2>1 DEF vars, Balances, Trail
  <2>2. ASSUME IInv, NEW p \in Procs, Begin(p) \/ Advance(p) \/ Abort(p)
        PROVE  Ledger!Next \/ UNCHANGED <<Balances, Trail>>
    BY <2>2, PayRecords, ReversalReverses, OtherStepsStutter
  <2> QED BY <2>1, <2>2 DEF Next
<1> QED BY <1>1, <1>2, InductiveInvariant, PTL DEF Spec, KeepsLedger, Ledger!Spec
=============================================================================
