---------------------------- MODULE MCReceivables ---------------------------
(* Receivables for TLC: requests, invoices, receipts, notes are interchangeable. *)
EXTENDS Receivables, TLC

Symmetry == Permutations(Procs) \cup Permutations(Invoices) \cup Permutations(Receipts)
              \cup Permutations(Notes)

\* Two receipts and a note, or two notes; a job is billed while there is one of them at most.
FewRows ==
  LET r == Cardinality({q \in Receipts : receipts[q].invoice # None})
      n == Cardinality({x \in Notes : notes[x].status # "ABSENT"})
      j == Cardinality({x \in Jobs : \E i \in Invoices : invoices[i].job = x})
  IN r + n + j <= 3 /\ (j > 0 => r + n <= 1) /\ (n = 2 => r = 0)
=============================================================================
