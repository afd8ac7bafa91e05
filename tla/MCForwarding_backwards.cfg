\* Two requests advance one shipment.
CONSTANTS
  Procs = {p1, p2}
  Quotes = {}
  Bookings = {}
  Jobs = {j1}
  Worths = {}
  Threshold = 0
  Revisions = {}
  Costs = {}
  Revenues = {}
  Decisions = {}
  Statuses = {}
  Milestones = {"BOOKED", "GATED_IN"}
  Remarks = {}
  None = None
SPECIFICATION Spec
PROPERTIES MilestonesForwardOnly
