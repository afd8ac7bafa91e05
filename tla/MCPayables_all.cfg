CONSTANTS
  Procs = {p1, p2}
  Bills = {b1, b2}
  Payments = {q1, q2}
  Vendors = {v1}
  n2 = n2
  Numbers = {n1, n2}
  Totals = {2}
  Amounts = {1, 4, 8}
  None = None
SPECIFICATION FairSpec
CONSTRAINT PaidWithOneNumber
INVARIANTS PaidMatchesLedger CashOnPostedBillsOnly StatusMatchesMoney LiveNumbersUnique
PROPERTIES BackwardOnlyByReversal KeepsLedger LocksReleased
