CONSTANTS
  Procs = {p1, p2}
  Invoices = {i1}
  Receipts = {q1, q2}
  Notes = {n1, n2}
  Jobs = {j1}
  InvoiceTotals = {2}
  NoteTotals = {1}
  Amounts = {4, 8}
  None = None
SPECIFICATION Spec
CONSTRAINT FewRows
SYMMETRY Symmetry
INVARIANTS IInv StatusMatchesCash
PROPERTIES BackwardOnlyByReversal KeepsLedger ReceiptWithinCollectible 
