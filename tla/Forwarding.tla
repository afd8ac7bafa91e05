----------------------------- MODULE Forwarding -----------------------------
(***************************************************************************)
(* The operational flow as one system: quotations, bookings and shipment   *)
(* files, any number of requests at a time.                                *)
(***************************************************************************)
EXTENDS Quotations, Bookings, JobFiles

Init == StoreInit

Next ==
  \E p \in Procs :
    \/ BeginOnQuote(p) \/ AdvanceOnQuote(p)
    \/ BeginOnBooking(p) \/ AdvanceOnBooking(p)
    \/ BeginOnJob(p) \/ AdvanceOnJob(p)
    \/ Abort(p)

Spec == Init /\ [][Next]_vars

(* ------------------------------ quotations ------------------------------ *)

\* A price is the price of the lines under it: two updates that interleave can
\* leave the lines of both behind, or price lines that are gone, so this holds
\* of the quotations no such pair has written.
PriceMatchesLines == \A q \in Quotes \ stale : quotes[q].price = Price(lines[q])

\* A price at the threshold has been put up for review, whatever interleaved:
\* no update, approval or rejection leaves it in the state "no review needed".
LargePricesReviewed ==
  \A q \in Quotes :
    Threshold > 0 /\ quotes[q].price >= Threshold => quotes[q].approval # "NOT_REQUIRED"

\* A quotation is sent or won, by setStatus or by a booking, only when it needs no
\* review or passed it, unless it changed between that check and the write.
GateKept ==
  [][\A q \in Quotes \ stale' :
       /\ quotes'[q].status # quotes[q].status
       /\ quotes'[q].status \in {"SENT", "WON"}
       => ApprovalAllows(quotes[q].approval)]_vars

\* A price that a customer has seen is in the revisions before it changes.
SeenTermsKept ==
  [][\A q \in Quotes \ stale' :
       quotes[q].status = "SENT" /\ quotes'[q].price # quotes[q].price =>
         \E k \in DOMAIN revisions'[q] : revisions'[q][k].price = quotes[q].price]_vars

\* A deal that is won, lost or cancelled keeps its price: no edit that began while
\* it was open reprices what was booked, unless the two overlapped.
ClosedDealsKeepPrice ==
  [][\A q \in Quotes \ stale' :
       quotes[q].status \in {"WON", "LOST", "CANCELLED"} => quotes'[q].price = quotes[q].price]_vars

(* -------------------------- bookings and jobs --------------------------- *)

\* One quotation books at most once, whether it was booked, named in the body of
\* a new booking, or linked by an edit.
BookedOnce ==
  \A q \in Quotes : Cardinality({b \in Bookings : bookings[b].quote = q}) <= 1

\* A confirmed booking has opened exactly one shipment file, however many
\* confirmations of it ran at once; a booking never confirmed has none.
ConfirmedOpensOneFile ==
  \A b \in Bookings :
    LET files == {j \in Jobs : jobs[j].booking = b}
    IN /\ Cardinality(files) <= 1
       /\ bookings[b].status = "CONFIRMED" => files # {}
       /\ files # {} => bookings[b].status \notin {"ABSENT", "DRAFT"}

\* No live shipment file hangs on a cancelled booking, unless one of them was
\* written from a read that no longer held.
CancelledBookingsHaveNoLiveFile ==
  \A b \in Bookings \ stale :
    bookings[b].status = "CANCELLED" => LiveJobs(b) \subseteq stale

\* Where milestones come in their sequence.
Order == [NOT_BOOKED |-> 0, BOOKED |-> 1, GATED_IN |-> 2, LOADED |-> 3, DEPARTED |-> 4,
          ARRIVED |-> 5, DELIVERED |-> 6]

\* The timeline is the full record of how a shipment got where it is: every
\* milestone up to the current one has its SYSTEM event, whatever raced.
NoInventedMilestones ==
  \A j \in Jobs : \A m \in MilestoneStatus :
    Order[m] <= Order[jobs[j].milestone] => SystemEvent(m) \in trail[j]

\* Profit is revenue less cost, unless an update computed it from a row that
\* another had changed.
ProfitMatches == \A j \in Jobs \ stale : jobs[j].profit = jobs[j].revenue - jobs[j].cost

Follows(edges, old, new) == new = old \/ old = "ABSENT" \/ CanMove(edges, old, new)

\* Quotations, bookings, jobs and milestones move along their tables, unless the
\* row changed between the check and the write.
LifecyclesRespected ==
  [][/\ \A q \in Quotes \ stale' : Follows(QuotationEdges, quotes[q].status, quotes'[q].status)
     /\ \A b \in Bookings \ stale' : Follows(BookingEdges, bookings[b].status, bookings'[b].status)
     /\ \A j \in Jobs \ stale' :
          /\ Follows(JobEdges, jobs[j].status, jobs'[j].status)
          /\ jobs[j].status # "ABSENT" =>
               Follows(MilestoneEdges, jobs[j].milestone, jobs'[j].milestone)]_vars

(* ------------- what the code's comments promise and do not get ---------- *)

\* "needs a manager's approval before it can be sent to the customer or converted
\* to a job": a booking or a job that names the quotation in its body asks nobody.
ConvertedQuotesApproved ==
  [][\A j \in Jobs : jobs[j].status = "ABSENT" /\ jobs'[j].quote # None =>
       ApprovalAllows(quotes[jobs'[j].quote].approval)]_vars

\* "strictly forward-only": an advance that read an earlier milestone writes over a
\* later one.
MilestonesForwardOnly ==
  [][\A j \in Jobs : Order[jobs'[j].milestone] >= Order[jobs[j].milestone]]_vars

(* -------------------------- inductive invariant ------------------------- *)

\* What is stored of a quotation: nothing before it is created, then finitely many
\* lines, its price and approval.
QuotesInv ==
  /\ \A q \in Quotes :
       IsFiniteSet(lines[q]) /\ (quotes[q].status = "ABSENT" => quotes[q] = NoQuote)
  /\ PriceMatchesLines
  /\ LargePricesReviewed

\* A quotation is named by one booking, a booking by one shipment file, which is
\* there as soon as the booking is confirmed and not before.
LinksInv ==
  /\ \A b, c \in Bookings :
       bookings[b].quote # None /\ bookings[b].quote = bookings[c].quote => b = c
  /\ \A j, k \in Jobs : jobs[j].booking # None /\ jobs[j].booking = jobs[k].booking => j = k
  /\ \A j \in Jobs : jobs[j].booking # None =>
       /\ jobs[j].status # "ABSENT"
       /\ bookings[jobs[j].booking].status \notin {"ABSENT", "DRAFT"}
  /\ \A b \in Bookings : bookings[b].status = "CONFIRMED" => \E j \in Jobs : jobs[j].booking = b

FilesInv == CancelledBookingsHaveNoLiveFile /\ NoInventedMilestones /\ ProfitMatches

\* What request p is about exists, and what it is to write is of the right kind.
\* A milestone it is to set has all earlier ones in the timeline, even when the
\* job has been written since.
WellFormed(p) ==
  LET r == req[p]
  IN /\ IsFiniteSet(r.seen)
     /\ r.step \in {"lines", "write", "status", "verdict", "book"} =>
          r.quote \in Quotes /\ quotes[r.quote].status # "ABSENT"
     /\ r.step \in {"bookingEdit", "confirm", "bookingCancel"} =>
          r.booking \in Bookings /\ bookings[r.booking].status # "ABSENT"
     /\ r.step \in {"jobEdit", "milestone"} =>
          r.job \in Jobs /\ jobs[r.job].status # "ABSENT"
     /\ r.step = "status" => r.target \in QuotationStatus
     /\ r.step = "verdict" => r.target \in {"APPROVED", "REJECTED"}
     /\ r.step = "book" => r.target \in {"WON", None}
     /\ r.step = "confirm" => r.link \in Quotes \cup {None} /\ r.price \in Nat
     /\ r.step = "jobEdit" => r.target \in JobStatus \cup {None}
     /\ r.step = "milestone" =>
          /\ r.target \in MilestoneStatus
          /\ \A m \in MilestoneStatus : Order[m] < Order[r.target] => SystemEvent(m) \in trail[r.job]

\* What request p has checked still holds, as long as no row it is about was
\* written by another.
StillHolds(p) ==
  LET r == req[p]
  IN r.held =>
     /\ r.step = "lines" =>
          /\ quotes[r.quote].status \in {"DRAFT", "SENT"}
          /\ quotes[r.quote].status = "SENT" => r.price = quotes[r.quote].price
     /\ r.step = "write" =>
          /\ quotes[r.quote].status \in {"DRAFT", "SENT"}
          /\ quotes[r.quote].status = "SENT" =>
               r.terms # <<>> /\ r.terms[1].price = quotes[r.quote].price
          /\ r.seen = lines[r.quote]
     /\ r.step = "status" =>
          /\ CanMove(QuotationEdges, quotes[r.quote].status, r.target)
          /\ r.target \in {"SENT", "WON"} => ApprovalAllows(quotes[r.quote].approval)
     /\ r.step = "book" =>
          /\ CanMove(QuotationEdges, quotes[r.quote].status, "WON")
          /\ ApprovalAllows(quotes[r.quote].approval)
     /\ r.step = "confirm" => CanMove(BookingEdges, bookings[r.booking].status, "CONFIRMED")
     /\ r.step = "bookingCancel" =>
          /\ LiveJobs(r.booking) = {}
          /\ CanMove(BookingEdges, bookings[r.booking].status, "CANCELLED")
     /\ r.step = "jobEdit" =>
          /\ r.target # None => CanMove(JobEdges, jobs[r.job].status, r.target)
          /\ r.profit = NewProfit(jobs[r.job], r.cost, r.revenue)
     /\ r.step = "milestone" => CanMove(MilestoneEdges, jobs[r.job].milestone, r.target)

\* The inductive invariant: the tables are right, and every request between two
\* of its steps can rely on what it has read until the row is written.
IInv ==
  /\ TypeOK
  /\ QuotesInv
  /\ LinksInv
  /\ FilesInv
  /\ \A p \in Procs : WellFormed(p) /\ StillHolds(p)
=============================================================================
