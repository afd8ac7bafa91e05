\* A booking confirmed and cancelled with two shipment files; one shipment file updated, moved
\* along its milestones and commented on.
CONSTANTS
  Procs = {p1, p2}
  Quotes = {}
  Bookings = {b1}
  Jobs = {j1, j2}
  Worths = {}
  Threshold = 0
  Revisions = {}
  Costs = {}
  Revenues = {1}
  Decisions = {}
  Statuses = {"IN_PROGRESS", "CANCELLED"}
  Milestones = {"BOOKED", "GATED_IN"}
  Remarks = {"GATED_IN"}
  None = None
SPECIFICATION Spec
CONSTRAINT OneStage
SYMMETRY Symmetry
INVARIANTS TypeOK  CancelledBookingsHaveNoLiveFile NoInventedMilestones ProfitMatches
PROPERTIES LifecyclesRespected
