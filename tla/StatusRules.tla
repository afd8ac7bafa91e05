---------------------------- MODULE StatusRules ----------------------------
(***************************************************************************)
(* The pure rules of the back end: which status may follow which           *)
(* (common/state-machine.ts), when a quotation needs a review              *)
(* (approval.logic.ts), and the arithmetic that derives a status from      *)
(* money (invoice.calc.ts, vendor-bill.calc.ts,                            *)
(* credit-debit-note.calc.ts).  No state: the services extend this module. *)
(*                                                                         *)
(* Money.  Documents store whole cents (DECIMAL(14,2)), so totals, paid    *)
(* amounts and note totals are numbers of cents.  An amount in a request   *)
(* has any number of decimals, so it is a number of quarter cents: fine    *)
(* enough to tell "rounds to nothing" (1/4), "rounds up" (1/2, 3/4) and    *)
(* "exact" (4/4) apart.  Sums and rounding are exact here; the binary      *)
(* floating point of the code is not modelled.                             *)
(***************************************************************************)
EXTENDS Integers, FiniteSets

(* ------------------------------ status tables --------------------------- *)

VendorBillStatus == {"DRAFT", "APPROVED", "PARTIALLY_PAID", "PAID", "VOID"}
InvoiceStatus == {"DRAFT", "ISSUED", "PARTIALLY_PAID", "PAID", "CANCELLED"}
AdjustmentStatus == {"DRAFT", "ISSUED", "CANCELLED"}
QuotationStatus == {"DRAFT", "SENT", "WON", "LOST", "CANCELLED"}
ApprovalStatus == {"NOT_REQUIRED", "PENDING", "APPROVED", "REJECTED"}
BookingStatus == {"DRAFT", "CONFIRMED", "CANCELLED"}
JobStatus == {"OPEN", "IN_PROGRESS", "ON_HOLD", "COMPLETED", "CANCELLED"}
MilestoneStatus == {"BOOKED", "GATED_IN", "LOADED", "DEPARTED", "ARRIVED", "DELIVERED"}

VendorBillEdges ==
  [DRAFT          |-> {"DRAFT", "APPROVED", "VOID"},
   APPROVED       |-> {"APPROVED", "PARTIALLY_PAID", "PAID", "VOID"},
   PARTIALLY_PAID |-> {"PARTIALLY_PAID", "PAID"},
   PAID           |-> {"PAID"},
   VOID           |-> {"VOID"}]

\* Consulted by payment reversal only.
VendorBillReversalEdges ==
  [PAID           |-> {"PAID", "PARTIALLY_PAID", "APPROVED"},
   PARTIALLY_PAID |-> {"PARTIALLY_PAID", "APPROVED"},
   APPROVED       |-> {"APPROVED"}]

InvoiceEdges ==
  [DRAFT          |-> {"DRAFT", "ISSUED", "CANCELLED"},
   ISSUED         |-> {"ISSUED", "PARTIALLY_PAID", "PAID", "CANCELLED"},
   PARTIALLY_PAID |-> {"PARTIALLY_PAID", "PAID", "CANCELLED"},
   PAID           |-> {"PAID"},
   CANCELLED      |-> {"CANCELLED"}]

\* Consulted by receipt reversal only.
InvoiceReversalEdges ==
  [PAID           |-> {"PAID", "PARTIALLY_PAID", "ISSUED"},
   PARTIALLY_PAID |-> {"PARTIALLY_PAID", "ISSUED"},
   ISSUED         |-> {"ISSUED"}]

AdjustmentEdges ==
  [DRAFT     |-> {"DRAFT", "ISSUED", "CANCELLED"},
   ISSUED    |-> {"ISSUED", "CANCELLED"},
   CANCELLED |-> {"CANCELLED"}]

QuotationEdges ==
  [DRAFT     |-> {"DRAFT", "SENT", "WON", "LOST", "CANCELLED"},
   SENT      |-> {"SENT", "DRAFT", "WON", "LOST", "CANCELLED"},
   WON       |-> {"WON", "CANCELLED"},
   LOST      |-> {"LOST", "DRAFT"},
   CANCELLED |-> {"CANCELLED"}]

BookingEdges ==
  [DRAFT     |-> {"DRAFT", "CONFIRMED", "CANCELLED"},
   CONFIRMED |-> {"CONFIRMED", "CANCELLED"},
   CANCELLED |-> {"CANCELLED"}]

JobEdges ==
  [OPEN        |-> {"OPEN", "IN_PROGRESS", "ON_HOLD", "CANCELLED"},
   IN_PROGRESS |-> {"IN_PROGRESS", "ON_HOLD", "COMPLETED", "CANCELLED"},
   ON_HOLD     |-> {"ON_HOLD", "OPEN", "IN_PROGRESS", "CANCELLED"},
   COMPLETED   |-> {"COMPLETED", "CANCELLED"},
   CANCELLED   |-> {"CANCELLED"}]

\* NOT_BOOKED stands for the null of a job without a milestone.
MilestoneEdges ==
  [NOT_BOOKED |-> {"BOOKED"},
   BOOKED     |-> {"BOOKED", "GATED_IN"},
   GATED_IN   |-> {"GATED_IN", "LOADED"},
   LOADED     |-> {"LOADED", "DEPARTED"},
   DEPARTED   |-> {"DEPARTED", "ARRIVED"},
   ARRIVED    |-> {"ARRIVED", "DELIVERED"},
   DELIVERED  |-> {"DELIVERED"}]

\* assert*Transition / assert*Reversal: a status without a row allows nothing.
CanMove(edges, from, to) == from \in DOMAIN edges /\ to \in edges[from]

(* -------------------------- quotation approval -------------------------- *)

\* Variant: a price at the threshold passes.
RequiredApprovalAbove(price, threshold) ==
  IF threshold > 0 /\ price > threshold THEN "PENDING" ELSE "NOT_REQUIRED"

\* requiredApprovalStatus: a threshold of 0 disables approvals.
RequiredApproval(price, threshold) ==
  IF threshold > 0 /\ price >= threshold THEN "PENDING" ELSE "NOT_REQUIRED"

\* assertApprovalAllows: what sending and winning a quotation ask for.
ApprovalAllows(approval) == approval \notin {"PENDING", "REJECTED"}

(* --------------------------- money arithmetic --------------------------- *)

QuartersPerCent == 4

\* round2 of a non-negative amount of quarter cents, in cents (half rounds up,
\* which is also what storing it in a DECIMAL(14,2) column does).
Round2(quarters) == (quarters + 2) \div QuartersPerCent

\* applyPayment: the request is acceptable ...
PaymentAccepted(collectible, paid, quarters) ==
  /\ quarters > 0
  /\ quarters <= QuartersPerCent * (collectible - paid)

\* Variant: the payment is subtracted.
PaidAfterSubtracted(paid, quarters) == paid - Round2(quarters)

\* Variant: an exactly settled document stays partially paid.
StatusAfterPaymentStrict(collectible, newPaid) ==
  IF newPaid > collectible THEN "PAID" ELSE "PARTIALLY_PAID"

\* ... and what it leaves behind.
PaidAfter(paid, quarters) == paid + Round2(quarters)
StatusAfterPayment(collectible, newPaid) ==
  IF newPaid >= collectible THEN "PAID" ELSE "PARTIALLY_PAID"

\* recomputeAfterReversal / recomputeInvoiceAfterReversal: "open" is the
\* status of the document without any payment (APPROVED, ISSUED).
StatusAfterReversal(open, collectible, remaining) ==
  IF remaining <= 0 THEN open ELSE StatusAfterPayment(collectible, remaining)

\* assertWithinCreditable: a credit note fits in what is neither paid nor
\* already credited.
WithinCreditable(noteTotal, invoiceTotal, credited, paid) ==
  noteTotal <= invoiceTotal - paid - credited

\* SUM(amount) over the rows with ids in S, by counting their cents one by one:
\* <<x, i>> is the i-th cent of row x.
CentsOf(rows, S) == UNION {{x} \X (1 .. rows[x].amount) : x \in S}
SumOf(rows, S) == Cardinality(CentsOf(rows, S))
============================================================================
