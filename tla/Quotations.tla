----------------------------- MODULE Quotations -----------------------------
(***************************************************************************)
(* QuotationsService (modules/quotations/quotations.service.ts): creating, *)
(* pricing, revising, approving and deciding a quotation.  Converting      *)
(* currencies and reading the threshold are not steps of their own: what   *)
(* they return does not depend on these tables.                            *)
(***************************************************************************)
EXTENDS ForwardingStore

(* ----------------------------- create, remove --------------------------- *)

\* One nested INSERT of header and lines.
CreateQuote(p, q, worth) ==
  /\ req[p].step = "idle"
  /\ quotes[q].status = "ABSENT"
  /\ quotes' = [quotes EXCEPT ![q] =
                  [status |-> "DRAFT", approval |-> RequiredApproval(worth, Threshold),
                   price |-> worth, deleted |-> FALSE]]
  /\ lines' = [lines EXCEPT ![q] = {[by |-> p, worth |-> worth]}]
  /\ UNCHANGED <<revisions, bookings, jobs, trail, req, stale>>

\* Soft delete and restore from the recycle bin.  Read and write are one step:
\* whatever comes between them, the write does what it would do alone.
RemoveQuote(q) ==
  /\ quotes[q].status # "ABSENT"
  /\ ~ quotes[q].deleted
  /\ quotes' = [quotes EXCEPT ![q].deleted = TRUE]
  /\ Written({q})
  /\ UNCHANGED <<lines, revisions, bookings, jobs, trail>>

RestoreQuote(q) ==
  /\ quotes[q].deleted
  /\ quotes' = [quotes EXCEPT ![q].deleted = FALSE]
  /\ Written({q})
  /\ UNCHANGED <<lines, revisions, bookings, jobs, trail>>

(* -------------------------------- update -------------------------------- *)

\* Variant: what the customer has seen is forgotten.
StartUpdateUnseen(p, q, worth) ==
  Proceed(p, [Idle EXCEPT !.step = "lines", !.quote = q, !.worth = worth])

\* The price of a SENT quotation is kept for a snapshot: the customer has seen it.
StartUpdate(p, q, worth) ==
  Proceed(p, [Idle EXCEPT !.step = "lines", !.quote = q, !.worth = worth,
                          !.price = IF quotes[q].status = "SENT" THEN quotes[q].price ELSE None])

\* Variant: a quotation is editable whatever became of it.
BeginUpdateQuoteAny(p, q, worth) ==
  /\ req[p].step = "idle"
  /\ quotes[q].status # "ABSENT"
  /\ StartUpdate(p, q, worth)

\* Reads the row; the body carries new lines of some worth, or none.
BeginUpdateQuote(p, q, worth) ==
  /\ req[p].step = "idle"
  /\ quotes[q].status \in {"DRAFT", "SENT"}
  /\ StartUpdate(p, q, worth)

\* One more than the last number.
NextNumber(q) ==
  LET used == {0} \cup {revisions[q][k].number : k \in DOMAIN revisions[q]}
  IN 1 + CHOOSE n \in used : \A m \in used : m <= n

\* Numbers and inserts the snapshot of the row read, if any; deletes the lines it can
\* see or, when the body has none, reads them.  Lines inserted meanwhile escape both.
ReadLines(p) ==
  LET r == req[p]
      number == NextNumber(r.quote)
  IN /\ r.step = "lines"
     /\ r.price # None => number \in Revisions
     /\ Proceed(p, [r EXCEPT !.step = "write", !.seen = lines[r.quote], !.price = None,
                      !.terms = IF r.price = None THEN <<>>
                                ELSE <<[number |-> number, price |-> r.price]>>])

\* Variant: new lines are added to the old ones.
LinesAddedTo(p, r) == IF r.worth = None THEN lines[r.quote]
                      ELSE lines[r.quote] \cup {[by |-> p, worth |-> r.worth]}

\* The lines of request r's quotation once p has replaced those it could see.
LinesAfter(p, r) == IF r.worth = None THEN lines[r.quote]
                    ELSE (lines[r.quote] \ r.seen) \cup {[by |-> p, worth |-> r.worth]}

\* Header, lines and revision become visible; the price is that of the lines in
\* the body or of those read, and approval starts again from it.
CommitUpdateQuote(p) ==
  LET r == req[p]
      q == r.quote
      price == IF r.worth = None THEN Price(r.seen) ELSE r.worth
  IN /\ r.step = "write"
     /\ r.terms # <<>> => RevisionIndexAllows(q, r.terms[1].number)
     /\ quotes' = [quotes EXCEPT ![q].price = price,
                                 ![q].approval = RequiredApproval(price, Threshold)]
     /\ lines' = [lines EXCEPT ![q] = LinesAfter(p, r)]
     /\ revisions' = [revisions EXCEPT ![q] = @ \o r.terms]
     /\ Commit(p, {q}, {})
     /\ UNCHANGED <<bookings, jobs, trail>>

(* ----------------------- setStatus, approve, reject --------------------- *)

\* Variant: a pending quotation may be sent or won.
BeginSetStatusUngated(p, q, status) ==
  /\ req[p].step = "idle"
  /\ CanMove(QuotationEdges, quotes[q].status, status)
  /\ Proceed(p, [Idle EXCEPT !.step = "status", !.quote = q, !.target = status])

BeginSetStatus(p, q, status) ==
  /\ req[p].step = "idle"
  /\ CanMove(QuotationEdges, quotes[q].status, status)
  /\ status \in {"SENT", "WON"} => ApprovalAllows(quotes[q].approval)
  /\ Proceed(p, [Idle EXCEPT !.step = "status", !.quote = q, !.target = status])

CommitSetStatus(p) ==
  LET r == req[p]
  IN /\ r.step = "status"
     /\ quotes' = [quotes EXCEPT ![r.quote].status = r.target]
     /\ Commit(p, {r.quote}, {})
     /\ UNCHANGED <<lines, revisions, bookings, jobs, trail>>

\* approve and reject: only PENDING is decided.
BeginVerdict(p, q, verdict) ==
  /\ req[p].step = "idle"
  /\ quotes[q].approval = "PENDING"
  /\ ~ quotes[q].deleted
  /\ Proceed(p, [Idle EXCEPT !.step = "verdict", !.quote = q, !.target = verdict])

CommitVerdict(p) ==
  LET r == req[p]
  IN /\ r.step = "verdict"
     /\ quotes' = [quotes EXCEPT ![r.quote].approval = r.target]
     /\ Commit(p, {r.quote}, {})
     /\ UNCHANGED <<lines, revisions, bookings, jobs, trail>>

(* ------------------------------ next steps ------------------------------ *)

BeginOnQuote(p) ==
  \E q \in Quotes :
    \/ \E w \in Worths : CreateQuote(p, q, w)
    \/ \E w \in Worths \cup {None} : BeginUpdateQuote(p, q, w)
    \/ \E s \in Decisions : BeginSetStatus(p, q, s)
    \/ \E v \in {"APPROVED", "REJECTED"} : BeginVerdict(p, q, v)
    \/ RemoveQuote(q)
    \/ RestoreQuote(q)

AdvanceOnQuote(p) ==
  \/ ReadLines(p)
  \/ CommitUpdateQuote(p)
  \/ CommitSetStatus(p)
  \/ CommitVerdict(p)
=============================================================================
