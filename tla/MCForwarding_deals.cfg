\* One quotation: priced, revised, reviewed and decided by two requests at a time; or under
\* review, edited, cancelled and booked through two bookings at a time.
CONSTANTS
  Procs = {p1, p2}
  Quotes = {k1}
  Bookings = {b1, b2}
  Jobs = {}
  Worths = {1, 2}
  Threshold = 2
  Revisions = {1}
  Costs = {}
  Revenues = {}
  Decisions = {"DRAFT", "SENT", "WON", "CANCELLED"}
  Statuses = {}
  Milestones = {}
  Remarks = {}
  None = None
SPECIFICATION Spec
CONSTRAINT OneTopic
SYMMETRY Symmetry
INVARIANTS PriceMatchesLines  BookedOnce
PROPERTIES GateKept  ClosedDealsKeepPrice
