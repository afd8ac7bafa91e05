--------------------------- MODULE ForwardingStore ---------------------------
(***************************************************************************)
(* The tables behind the operational flow: a quotation with its lines and  *)
(* revisions is won and booked, a confirmed booking opens a job, the job   *)
(* moves along its milestones.  The operations are in Quotations, Bookings *)
(* and JobFiles; Forwarding puts them together.                            *)
(*                                                                         *)
(* None of these services locks a row.  A handler reads, decides and later *)
(* writes by id; only unique indexes are checked when it commits.  `stale' *)
(* remembers the rows that were written after what the request had read    *)
(* changed.  A quotation's selling price is the worth of its lines: taxes, *)
(* discounts and charges are left out, and its cost is taken to be 0.      *)
(***************************************************************************)
EXTENDS StatusRules, Sequences

CONSTANTS
  Procs,      \* requests that can be in flight together
  Quotes,     \* ids of quotations rows
  Bookings,   \* ids of bookings rows
  Jobs,       \* ids of jobs rows
  Worths,     \* what the lines of one quotation body can be worth
  Threshold,  \* setting approval.quotation.thresholdBase
  Revisions,  \* bound: revision numbers a behaviour can use
  Costs,      \* costs a job body can carry
  Revenues,   \* revenues a job body can carry
  Decisions,  \* quotation statuses a body can carry
  Statuses,   \* job statuses a body can carry
  Milestones, \* milestones a body can carry
  Remarks,    \* labels of manual tracking events
  None        \* SQL NULL, "not in the body", "no row"

ASSUME ForwardingNoneAssumption == None \notin Procs \cup Quotes \cup Bookings \cup Jobs \cup Int
ASSUME ForwardingMoneyAssumption ==
  Worths \subseteq Nat /\ Costs \cup Revenues \subseteq Nat /\ Threshold \in Nat /\ Revisions \subseteq Nat
ASSUME ForwardingStatusAssumption ==
  Decisions \subseteq QuotationStatus /\ Statuses \subseteq JobStatus /\ Milestones \subseteq MilestoneStatus

VARIABLES
  quotes,     \* quotations
  lines,      \* lines[q]: quotation_items of q, one element per body they came from
  revisions,  \* revisions[q]: quotation_revisions of q, as they were inserted
  bookings,   \* bookings
  jobs,       \* jobs
  trail,      \* trail[j]: job_tracking_events of j
  req,        \* req[p]: where request p is and what it has read
  stale       \* history: rows written from a read that no longer held

tables == <<quotes, lines, revisions, bookings, jobs, trail>>
vars == <<quotes, lines, revisions, bookings, jobs, trail, req, stale>>

(* ------------------------------- the tables ----------------------------- *)

QuoteRow ==
  [status : QuotationStatus \cup {"ABSENT"}, approval : ApprovalStatus, price : Nat,
   deleted : BOOLEAN]

NoQuote == [status |-> "ABSENT", approval |-> "NOT_REQUIRED", price |-> 0, deleted |-> FALSE]

\* The lines one request wrote in one go.
Batch == [by : Procs, worth : Nat]

Price(L) == SumOf([b \in L |-> [amount |-> b.worth]], L)

\* A snapshot before an edit, as far as it is told by its price.
Revision == [number : Nat, price : Nat]

BookingRow == [status : BookingStatus \cup {"ABSENT"}, quote : Quotes \cup {None}]
NoBooking == [status |-> "ABSENT", quote |-> None]

JobRow ==
  [status : JobStatus \cup {"ABSENT"}, booking : Bookings \cup {None}, quote : Quotes \cup {None},
   milestone : DOMAIN MilestoneEdges, cost : Nat, revenue : Nat, profit : Int,
   deleted : BOOLEAN]

NoJob == [status |-> "ABSENT", booking |-> None, quote |-> None, milestone |-> "NOT_BOOKED",
          cost |-> 0, revenue |-> 0, profit |-> 0, deleted |-> FALSE]

\* Tracking events: SYSTEM ones are written by the services, MANUAL ones by hand.
Event == [source : {"SYSTEM", "MANUAL"}, label : JobStatus \cup MilestoneStatus \cup Remarks]
SystemEvent(label) == [source |-> "SYSTEM", label |-> label]

\* Variants: a unique index is missing.
NoBookingIndex(b, q) == TRUE
NoJobBookingIndex(b) == TRUE

\* The unique indexes, none of which counts NULL: bookings(quotationId),
\* jobs(bookingId), jobs(quotationId), quotation_revisions(quotationId, revision).
BookingIndexAllows(b, q) == q # None => \A c \in Bookings \ {b} : bookings[c].quote # q
JobBookingIndexAllows(b) == \A j \in Jobs : jobs[j].booking # b
JobQuoteIndexAllows(j, q) == q # None => \A k \in Jobs \ {j} : jobs[k].quote # q
RevisionIndexAllows(q, n) == \A k \in DOMAIN revisions[q] : revisions[q][k].number # n

\* Foreign keys point at rows, soft-deleted ones included.
QuoteExists(q) == q # None => quotes[q].status # "ABSENT"

LiveJobs(b) == {j \in Jobs : jobs[j].booking = b /\ jobs[j].status # "CANCELLED"}

(* ------------------------------- requests ------------------------------- *)

Steps == {"idle", "lines", "write", "status", "verdict", "book",
          "bookingEdit", "confirm", "bookingCancel", "jobEdit", "milestone"}

Request ==
  [step    : Steps,
   quote   : Quotes \cup {None},
   booking : Bookings \cup {None},
   job     : Jobs \cup {None},
   held    : BOOLEAN,                      \* history: none of those rows was written since
   target  : QuotationStatus \cup ApprovalStatus \cup JobStatus \cup MilestoneStatus \cup {None},
   event   : JobStatus \cup {None},        \* the status change to record, if any
   link    : Quotes \cup {None, "KEEP"},   \* quotationId, of the body or as read
   worth   : Nat \cup {None},              \* of the lines in the body, if any
   price   : Nat \cup {None},              \* of the quotation, as it was read
   cost    : Nat \cup {None},
   revenue : Nat \cup {None},
   profit  : Int,
   seen    : SUBSET Batch,                 \* the lines a statement has read or deleted
   terms   : Seq(Revision)]                \* the revision to insert, if any

Idle == [step |-> "idle", quote |-> None, booking |-> None, job |-> None, held |-> TRUE,
         target |-> None, event |-> None, link |-> None, worth |-> None, price |-> None,
         cost |-> None, revenue |-> None, profit |-> 0, seen |-> {}, terms |-> <<>>]

\* body.x ?? row.x
Given(new, old) == IF new = None THEN old ELSE new

\* Request p goes on as r, having only read.
Proceed(p, r) ==
  /\ req' = [req EXCEPT ![p] = r]
  /\ UNCHANGED <<tables, stale>>

\* History: the requests that have read a row of D are overtaken by a write of it.
Overtaken(D) ==
  [x \in Procs |-> IF D \cap {req[x].quote, req[x].booking, req[x].job} \subseteq {None}
                   THEN req[x] ELSE [req[x] EXCEPT !.held = FALSE]]

\* A statement outside any request in flight has written the rows of D.
Written(D) == req' = Overtaken(D) /\ UNCHANGED stale

\* Request p commits, having written the rows of D; watched rows are those whose
\* readers have looked at D as well.
Commit(p, D, watched) ==
  /\ req' = [Overtaken(D \cup watched) EXCEPT ![p] = Idle]
  /\ stale' = IF req[p].held THEN stale ELSE stale \cup D

\* Rejected, failed or lost: nothing of the request remains.
Abort(p) ==
  /\ req[p].step # "idle"
  /\ req' = [req EXCEPT ![p] = Idle]
  /\ UNCHANGED <<tables, stale>>

StoreInit ==
  /\ quotes = [q \in Quotes |-> NoQuote]
  /\ lines = [q \in Quotes |-> {}]
  /\ revisions = [q \in Quotes |-> <<>>]
  /\ bookings = [b \in Bookings |-> NoBooking]
  /\ jobs = [j \in Jobs |-> NoJob]
  /\ trail = [j \in Jobs |-> {}]
  /\ req = [p \in Procs |-> Idle]
  /\ stale = {}

TypeOK ==
  /\ quotes \in [Quotes -> QuoteRow]
  /\ lines \in [Quotes -> SUBSET Batch]
  /\ revisions \in [Quotes -> Seq(Revision)]
  /\ bookings \in [Bookings -> BookingRow]
  /\ jobs \in [Jobs -> JobRow]
  /\ trail \in [Jobs -> SUBSET Event]
  /\ req \in [Procs -> Request]
  /\ stale \subseteq Quotes \cup Bookings \cup Jobs
==============================================================================
