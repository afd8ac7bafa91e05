----------------------------- MODULE MCPayables -----------------------------
(* Payables for TLC: one of the questions is liveness, so nothing is symmetric. *)
EXTENDS Payables

CONSTANT n2   \* the second of the vendor's invoice numbers

\* Bound: once money has moved, the second number is on no bill and in no
\* request.  Numbers matter to the duplicate checks only, which read no payment.
PaidWithOneNumber ==
  (\E q \in Payments : payments[q].bill # None) =>
    /\ \A b \in Bills : bills[b].number # n2
    /\ \A p \in Procs : req[p].number # n2
=============================================================================
