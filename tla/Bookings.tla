------------------------------ MODULE Bookings ------------------------------
(***************************************************************************)
(* BookingsService (modules/bookings/bookings.service.ts): raising a       *)
(* booking off a quotation or on its own, confirming it into a job, and    *)
(* cancelling it.  The friendly checks for an existing booking or job are  *)
(* not steps of their own: whoever passes them meets the unique index.     *)
(***************************************************************************)
EXTENDS ForwardingStore

(* ---------------------- create, createFromQuotation --------------------- *)

\* One INSERT; a quotation in the body is taken as it is.
CreateBooking(b, q) ==
  /\ bookings[b].status = "ABSENT"
  /\ QuoteExists(q)
  /\ BookingIndexAllows(b, q)
  /\ bookings' = [bookings EXCEPT ![b] = [status |-> "DRAFT", quote |-> q]]
  /\ UNCHANGED <<quotes, lines, revisions, jobs, trail, req, stale>>

\* Variant: a quotation under review can be booked.
BeginBookUngated(p, q) ==
  /\ req[p].step = "idle"
  /\ ~ quotes[q].deleted
  /\ CanMove(QuotationEdges, quotes[q].status, "WON")
  /\ Proceed(p, [Idle EXCEPT !.step = "book", !.quote = q,
                             !.target = IF quotes[q].status = "WON" THEN None ELSE "WON"])

\* createFromQuotation reads a quotation that may be won.
BeginBook(p, q) ==
  /\ req[p].step = "idle"
  /\ ~ quotes[q].deleted
  /\ CanMove(QuotationEdges, quotes[q].status, "WON")
  /\ ApprovalAllows(quotes[q].approval)
  /\ Proceed(p, [Idle EXCEPT !.step = "book", !.quote = q,
                             !.target = IF quotes[q].status = "WON" THEN None ELSE "WON"])

\* The booking, and WON unless that is what was read.
CommitBook(p, b) ==
  LET r == req[p]
  IN /\ r.step = "book"
     /\ bookings[b].status = "ABSENT"
     /\ BookingIndexAllows(b, r.quote)
     /\ bookings' = [bookings EXCEPT ![b] = [status |-> "DRAFT", quote |-> r.quote]]
     /\ quotes' = [quotes EXCEPT ![r.quote].status = Given(r.target, @)]
     /\ Commit(p, {r.quote}, {})
     /\ UNCHANGED <<lines, revisions, jobs, trail>>

(* -------------------------------- update -------------------------------- *)

\* Only a DRAFT is editable; the body may point it at a quotation, or at none.
BeginUpdateBooking(p, b, link) ==
  /\ req[p].step = "idle"
  /\ bookings[b].status = "DRAFT"
  /\ Proceed(p, [Idle EXCEPT !.step = "bookingEdit", !.booking = b, !.link = link])

CommitUpdateBooking(p) ==
  LET r == req[p]
      q == IF r.link = "KEEP" THEN bookings[r.booking].quote ELSE r.link
  IN /\ r.step = "bookingEdit"
     /\ QuoteExists(q)
     /\ BookingIndexAllows(r.booking, q)
     /\ bookings' = [bookings EXCEPT ![r.booking].quote = q]
     /\ Commit(p, {r.booking}, {})
     /\ UNCHANGED <<quotes, lines, revisions, jobs, trail>>

(* ---------------------------- confirm, cancel --------------------------- *)

\* Variant: any booking can be confirmed.
BeginConfirmUnasked(p, b) ==
  /\ req[p].step = "idle"
  /\ bookings[b].status # "ABSENT"
  /\ Proceed(p, [Idle EXCEPT !.step = "confirm", !.booking = b, !.link = bookings[b].quote,
                   !.price = IF bookings[b].quote = None THEN 0
                             ELSE quotes[bookings[b].quote].price])

\* Reads the booking and its quotation's price, which becomes the job's revenue.
BeginConfirm(p, b) ==
  /\ req[p].step = "idle"
  /\ CanMove(BookingEdges, bookings[b].status, "CONFIRMED")
  /\ Proceed(p, [Idle EXCEPT !.step = "confirm", !.booking = b, !.link = bookings[b].quote,
                   !.price = IF bookings[b].quote = None THEN 0
                             ELSE quotes[bookings[b].quote].price])

\* Opens the shipment file, records its first event, confirms the booking.
CommitConfirm(p, j) ==
  LET r == req[p]
  IN /\ r.step = "confirm"
     /\ jobs[j].status = "ABSENT"
     /\ JobBookingIndexAllows(r.booking)
     /\ JobQuoteIndexAllows(j, r.link)
     /\ jobs' = [jobs EXCEPT ![j] =
                   [status |-> "OPEN", booking |-> r.booking, quote |-> r.link,
                    milestone |-> "BOOKED", cost |-> 0, revenue |-> r.price, profit |-> r.price,
                    deleted |-> FALSE]]
     /\ trail' = [trail EXCEPT ![j] = {SystemEvent("BOOKED")}]
     /\ bookings' = [bookings EXCEPT ![r.booking].status = "CONFIRMED"]
     /\ Commit(p, {r.booking}, {})
     /\ UNCHANGED <<quotes, lines, revisions>>

\* Variant: the shipment files of the booking are not looked at.
BeginCancelBookingBlind(p, b) ==
  /\ req[p].step = "idle"
  /\ CanMove(BookingEdges, bookings[b].status, "CANCELLED")
  /\ Proceed(p, [Idle EXCEPT !.step = "bookingCancel", !.booking = b])

\* Reads the booking with its jobs: none may be live.
BeginCancelBooking(p, b) ==
  /\ req[p].step = "idle"
  /\ LiveJobs(b) = {}
  /\ CanMove(BookingEdges, bookings[b].status, "CANCELLED")
  /\ Proceed(p, [Idle EXCEPT !.step = "bookingCancel", !.booking = b])

CommitCancelBooking(p) ==
  LET r == req[p]
  IN /\ r.step = "bookingCancel"
     /\ bookings' = [bookings EXCEPT ![r.booking].status = "CANCELLED"]
     /\ Commit(p, {r.booking}, {})
     /\ UNCHANGED <<quotes, lines, revisions, jobs, trail>>

(* ------------------------------ next steps ------------------------------ *)

BeginOnBooking(p) ==
  \/ \E b \in Bookings, q \in Quotes \cup {None} : CreateBooking(b, q)
  \/ \E q \in Quotes : BeginBook(p, q)
  \/ \E b \in Bookings, link \in Quotes \cup {None, "KEEP"} : BeginUpdateBooking(p, b, link)
  \/ \E b \in Bookings : BeginConfirm(p, b) \/ BeginCancelBooking(p, b)

AdvanceOnBooking(p) ==
  \/ \E b \in Bookings : CommitBook(p, b)
  \/ CommitUpdateBooking(p)
  \/ \E j \in Jobs : CommitConfirm(p, j)
  \/ CommitCancelBooking(p)
=============================================================================
