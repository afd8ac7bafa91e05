\* A job names a quotation that is waiting for approval.
CONSTANTS
  Procs = {p1}
  Quotes = {k1}
  Bookings = {b1}
  Jobs = {j1}
  Worths = {2}
  Threshold = 2
  Revisions = {}
  Costs = {}
  Revenues = {}
  Decisions = {}
  Statuses = {}
  Milestones = {}
  Remarks = {}
  None = None
SPECIFICATION Spec
PROPERTIES ConvertedQuotesApproved
