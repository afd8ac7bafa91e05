------------------------------ MODULE JobFiles ------------------------------
(***************************************************************************)
(* JobsService (modules/jobs/jobs.service.ts): shipment files, their       *)
(* status, commercials and milestones, and the tracking events of both.    *)
(***************************************************************************)
EXTENDS ForwardingStore

(* ------------------------ create, remove, tracking ---------------------- *)

\* A job without a booking, in any status, possibly of a quotation; one
\* transaction inserts it and its first event.
CreateJob(j, q, status, cost, revenue) ==
  /\ jobs[j].status = "ABSENT"
  /\ QuoteExists(q)
  /\ JobQuoteIndexAllows(j, q)
  /\ jobs' = [jobs EXCEPT ![j] =
                [NoJob EXCEPT !.status = Given(status, "OPEN"), !.quote = q, !.cost = Given(cost, 0),
                              !.revenue = Given(revenue, 0),
                              !.profit = Given(revenue, 0) - Given(cost, 0)]]
  /\ trail' = [trail EXCEPT ![j] = {SystemEvent(Given(status, "OPEN"))}]
  /\ UNCHANGED <<quotes, lines, revisions, bookings, req, stale>>

\* Soft delete and restore, each one step as for quotations.
RemoveJob(j) ==
  /\ jobs[j].status # "ABSENT"
  /\ ~ jobs[j].deleted
  /\ jobs' = [jobs EXCEPT ![j].deleted = TRUE]
  /\ Written({j})
  /\ UNCHANGED <<quotes, lines, revisions, bookings, trail>>

RestoreJob(j) ==
  /\ jobs[j].deleted
  /\ jobs' = [jobs EXCEPT ![j].deleted = FALSE]
  /\ Written({j})
  /\ UNCHANGED <<quotes, lines, revisions, bookings, trail>>

\* A free-text event, which moves nothing.
AddTrackingEvent(j, label) ==
  /\ jobs[j].status # "ABSENT"
  /\ trail' = [trail EXCEPT ![j] = @ \cup {[source |-> "MANUAL", label |-> label]}]
  /\ UNCHANGED <<quotes, lines, revisions, bookings, jobs, req, stale>>

(* -------------------------------- update -------------------------------- *)

\* Variant: the profit is worked out from the body alone.
NewProfitOfBody(old, cost, revenue) == Given(revenue, 0) - Given(cost, 0)

\* What is not in the body comes from the row that was read.
NewProfit(old, cost, revenue) == Given(revenue, old.revenue) - Given(cost, old.cost)

\* Reads the row; a status in the body must be reachable from it.
BeginUpdateJob(p, j, status, link, cost, revenue) ==
  /\ req[p].step = "idle"
  /\ jobs[j].status # "ABSENT"
  /\ status # None => CanMove(JobEdges, jobs[j].status, status)
  /\ Proceed(p, [Idle EXCEPT !.step = "jobEdit", !.job = j, !.target = status, !.link = link,
                   !.event = IF status = jobs[j].status THEN None ELSE status,
                   !.cost = cost, !.revenue = revenue, !.profit = NewProfit(jobs[j], cost, revenue)])

\* Variant: a status that is not in the body becomes NULL.
ColumnsNulled(old, r, q) ==
  [old EXCEPT !.status = r.target, !.quote = q, !.profit = r.profit,
              !.cost = Given(r.cost, @), !.revenue = Given(r.revenue, @)]

\* Columns that are not in the body keep what they hold by now; profit is always
\* written.
Columns(old, r, q) ==
  [old EXCEPT !.status = Given(r.target, @), !.quote = q, !.profit = r.profit,
              !.cost = Given(r.cost, @), !.revenue = Given(r.revenue, @)]

\* Writes the row; a change of status gets its event.
CommitUpdateJob(p) ==
  LET r == req[p]
      old == jobs[r.job]
      q == IF r.link = "KEEP" THEN old.quote ELSE r.link
  IN /\ r.step = "jobEdit"
     /\ QuoteExists(q)
     /\ JobQuoteIndexAllows(r.job, q)
     /\ jobs' = [jobs EXCEPT ![r.job] = Columns(old, r, q)]
     /\ trail' = IF r.event = None THEN trail
                 ELSE [trail EXCEPT ![r.job] = @ \cup {SystemEvent(r.event)}]
     /\ Commit(p, {r.job}, {old.booking})
     /\ UNCHANGED <<quotes, lines, revisions, bookings>>

(* --------------------------- advanceMilestone --------------------------- *)

\* Variant: any milestone of the sequence can be reached.
BeginAdvanceAny(p, j, milestone) ==
  /\ req[p].step = "idle"
  /\ jobs[j].status \notin {"ABSENT", "CANCELLED"}
  /\ ~ jobs[j].deleted
  /\ Proceed(p, [Idle EXCEPT !.step = "milestone", !.job = j, !.target = milestone])

BeginAdvance(p, j, milestone) ==
  /\ req[p].step = "idle"
  /\ jobs[j].status \notin {"ABSENT", "CANCELLED"}
  /\ ~ jobs[j].deleted
  /\ CanMove(MilestoneEdges, jobs[j].milestone, milestone)
  /\ Proceed(p, [Idle EXCEPT !.step = "milestone", !.job = j, !.target = milestone])

CommitAdvance(p) ==
  LET r == req[p]
  IN /\ r.step = "milestone"
     /\ jobs' = [jobs EXCEPT ![r.job].milestone = r.target]
     /\ trail' = [trail EXCEPT ![r.job] = @ \cup {SystemEvent(r.target)}]
     /\ Commit(p, {r.job}, {})
     /\ UNCHANGED <<quotes, lines, revisions, bookings>>

(* ------------------------------ next steps ------------------------------ *)

BeginOnJob(p) ==
  \E j \in Jobs :
    \/ \E q \in Quotes \cup {None}, s \in Statuses \cup {None},
          c \in Costs \cup {None}, r \in Revenues \cup {None} : CreateJob(j, q, s, c, r)
    \/ \E s \in Statuses \cup {None}, link \in Quotes \cup {None, "KEEP"},
          c \in Costs \cup {None}, r \in Revenues \cup {None} : BeginUpdateJob(p, j, s, link, c, r)
    \/ \E m \in Milestones : BeginAdvance(p, j, m)
    \/ \E label \in Remarks : AddTrackingEvent(j, label)
    \/ RemoveJob(j)
    \/ RestoreJob(j)

AdvanceOnJob(p) ==
  \/ CommitUpdateJob(p)
  \/ CommitAdvance(p)
=============================================================================
