\* A credit note is issued after a receipt has read the note net.
CONSTANTS
  Procs = {p1, p2}
  Invoices = {i1}
  Receipts = {q1}
  Notes = {n1}
  Jobs = {}
  InvoiceTotals = {2}
  NoteTotals = {1}
  Amounts = {8}
  None = None
SPECIFICATION Spec
PROPERTIES NeverOverCollected
