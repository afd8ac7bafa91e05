-------------------------- MODULE ForwardingProofs --------------------------
(***************************************************************************)
(* Proofs about Forwarding for any number of requests, quotations,         *)
(* bookings, jobs, prices and bodies.                                      *)
(*                                                                         *)
(* Nothing is locked here, so a request that has read a row can be         *)
(* overtaken by a write of it at any time.  IInv therefore says two things *)
(* of every request between two of its steps: what stays true even then    *)
(* (WellFormed: its rows exist, the milestones before its own are in the   *)
(* timeline), and what stays true until then (StillHolds).  The history    *)
(* variables tie the two to the tables: a request that was overtaken adds  *)
(* the rows it writes to `stale', and one that was not overtaken writes    *)
(* what it checked.                                                        *)
(***************************************************************************)
EXTENDS Forwarding, SumLemmas, SequenceTheorems

\* Everything IInv says about request p.
Sound(p) == WellFormed(p) /\ StillHolds(p)

(* ------------------------------ frame lemmas ---------------------------- *)

\* Quotations, bookings and jobs outside E keep what their readers rely on, and no
\* row or event goes away.
SparesQuotes(E) ==
  \A q \in Quotes : quotes[q].status # "ABSENT" =>
    /\ quotes'[q].status # "ABSENT"
    /\ q \notin E => quotes'[q] = quotes[q] /\ lines'[q] = lines[q]

SparesBookings(E) ==
  \A b \in Bookings : bookings[b].status # "ABSENT" =>
    /\ bookings'[b].status # "ABSENT"
    /\ b \notin E => bookings'[b] = bookings[b] /\ LiveJobs(b)' = LiveJobs(b)

SparesJobs(E) ==
  \A j \in Jobs : jobs[j].status # "ABSENT" =>
    /\ jobs'[j].status # "ABSENT"
    /\ trail[j] \subseteq trail'[j]
    /\ j \notin E => jobs'[j] = jobs[j]

\* A step that writes the rows of E and disturbs no reader of another row.
Spares(E) == SparesQuotes(E) /\ SparesBookings(E) /\ SparesJobs(E)

\* A request after a step that has written the rows of E: it is where it was and
\* has read what it had read, and it still holds only if it had read none of them.
LEMMA OvertakenIs ==
  ASSUME TypeOK, NEW E, NEW p \in Procs, NEW r \in Request, r = req[p],
         NEW s, s = Overtaken(E)[p]
  PROVE  /\ s \in Request
         /\ s.step = r.step /\ s.quote = r.quote /\ s.booking = r.booking /\ s.job = r.job
         /\ s.target = r.target /\ s.event = r.event /\ s.link = r.link
         /\ s.worth = r.worth /\ s.price = r.price /\ s.cost = r.cost
         /\ s.revenue = r.revenue /\ s.profit = r.profit /\ s.seen = r.seen /\ s.terms = r.terms
         /\ s.held => r.held /\ r.quote \notin E \ {None} /\ r.booking \notin E \ {None}
                             /\ r.job \notin E \ {None}
<1>1. CASE E \cap {r.quote, r.booking, r.job} \subseteq {None}
  <2>1. s = r
    BY <1>1 DEF Overtaken
  <2> QED BY <1>1, <2>1
<1>2. CASE ~ (E \cap {r.quote, r.booking, r.job} \subseteq {None})
  <2>1. s = [r EXCEPT !.held = FALSE]
    BY <1>2 DEF Overtaken
  <2>2. s.held = FALSE
    BY <2>1 DEF Request
  <2>3. s \in Request
    BY ONLY <2>1, r \in Request DEF Request
  <2>4. /\ s.step = r.step /\ s.quote = r.quote /\ s.booking = r.booking /\ s.job = r.job
        /\ s.target = r.target /\ s.event = r.event /\ s.link = r.link
        /\ s.worth = r.worth /\ s.price = r.price /\ s.cost = r.cost
        /\ s.revenue = r.revenue /\ s.profit = r.profit /\ s.seen = r.seen /\ s.terms = r.terms
    BY ONLY <2>1, r \in Request DEF Request
  <2> QED BY <2>2, <2>3, <2>4
<1> QED BY <1>1, <1>2

\* Where nothing is written, nobody is overtaken.
LEMMA NobodyOvertaken ==
  ASSUME TypeOK
  PROVE  Overtaken({}) = req
BY DEF TypeOK, Overtaken
\* A request that only another's writes can disturb keeps what it relies on.
LEMMA OthersKeep ==
  ASSUME TypeOK, NEW E, Spares(E), NEW p \in Procs, Sound(p),
         req'[p] = Overtaken(E)[p]
  PROVE  Sound(p)'
<1>1. PICK r \in Request : r = req[p]
  BY DEF TypeOK
<1>2. PICK s \in Request : s = req'[p]
  BY <1>1, OvertakenIs
<1>3. /\ s.step = r.step /\ s.quote = r.quote /\ s.booking = r.booking /\ s.job = r.job
      /\ s.target = r.target /\ s.event = r.event /\ s.link = r.link
      /\ s.worth = r.worth /\ s.price = r.price /\ s.cost = r.cost
      /\ s.revenue = r.revenue /\ s.profit = r.profit /\ s.seen = r.seen /\ s.terms = r.terms
      /\ s.held => r.held /\ r.quote \notin E \ {None} /\ r.booking \notin E \ {None}
                          /\ r.job \notin E \ {None}
  BY <1>1, <1>2, OvertakenIs
<1>4. IsFiniteSet(s.seen)
  BY <1>1, <1>3 DEF Sound, WellFormed
<1>5. ASSUME s.step \in {"lines", "write", "status", "verdict", "book"}
      PROVE  /\ s.quote \in Quotes /\ quotes'[s.quote].status # "ABSENT"
             /\ s.held => /\ r.held
                          /\ quotes'[s.quote] = quotes[r.quote]
                          /\ lines'[s.quote] = lines[r.quote]
  <2>1. r.quote \in Quotes /\ quotes[r.quote].status # "ABSENT"
    BY <1>1, <1>3, <1>5 DEF Sound, WellFormed
  <2>2. s.held => r.held /\ r.quote \notin E
    BY <1>3, <2>1, ForwardingNoneAssumption
  <2> QED BY <1>3, <2>1, <2>2 DEF Spares, SparesQuotes, SparesBookings, SparesJobs
<1>6. ASSUME s.step \in {"bookingEdit", "confirm", "bookingCancel"}
      PROVE  /\ s.booking \in Bookings /\ bookings'[s.booking].status # "ABSENT"
             /\ s.held => /\ r.held
                          /\ bookings'[s.booking] = bookings[r.booking]
                          /\ LiveJobs(s.booking)' = LiveJobs(r.booking)
  <2>1. PICK b \in Bookings : b = r.booking /\ bookings[b].status # "ABSENT"
    BY <1>1, <1>3, <1>6 DEF Sound, WellFormed
  <2>2. s.held => r.held /\ b \notin E
    BY <1>3, <2>1, ForwardingNoneAssumption
  <2>3. s.held => bookings'[b] = bookings[b] /\ LiveJobs(b)' = LiveJobs(b)
    BY <2>1, <2>2 DEF Spares, SparesQuotes, SparesBookings, SparesJobs
  <2>4. LiveJobs(s.booking)' = LiveJobs(b)'
    BY <1>3, <2>1 DEF LiveJobs
  <2>5. LiveJobs(r.booking) = LiveJobs(b)
    BY <2>1 DEF LiveJobs
  <2> QED BY <1>3, <2>1, <2>2, <2>3, <2>4, <2>5 DEF Spares, SparesQuotes, SparesBookings, SparesJobs
<1>7. ASSUME s.step \in {"jobEdit", "milestone"}
      PROVE  /\ s.job \in Jobs /\ jobs'[s.job].status # "ABSENT"
             /\ trail[r.job] \subseteq trail'[s.job]
             /\ s.held => r.held /\ jobs'[s.job] = jobs[r.job]
  <2>1. r.job \in Jobs /\ jobs[r.job].status # "ABSENT"
    BY <1>1, <1>3, <1>7 DEF Sound, WellFormed
  <2>2. s.held => r.held /\ r.job \notin E
    BY <1>3, <2>1, ForwardingNoneAssumption
  <2> QED BY <1>3, <2>1, <2>2 DEF Spares, SparesQuotes, SparesBookings, SparesJobs
<1>8. WellFormed(p)'
  <2>1. WellFormed(p)
    BY DEF Sound
  <2>2. s.step = "milestone" =>
          /\ s.target \in MilestoneStatus
          /\ \A m \in MilestoneStatus : Order[m] < Order[s.target] => SystemEvent(m) \in trail'[s.job]
    BY <1>1, <1>3, <1>7, <2>1 DEF WellFormed
  <2> QED BY <1>1, <1>2, <1>3, <1>4, <1>5, <1>6, <1>7, <2>1, <2>2 DEF WellFormed
<1>9. StillHolds(p)'
  <2> SUFFICES ASSUME s.held
               PROVE  StillHolds(p)'
    BY <1>2 DEF StillHolds
  <2>1. r.held
    BY <1>3
  <2>2. StillHolds(p)
    BY DEF Sound
  <2>3. s.step \in {"lines", "write", "status", "book"} =>
          quotes'[s.quote] = quotes[r.quote] /\ lines'[s.quote] = lines[r.quote]
    BY <1>5
  <2>4. s.step \in {"confirm", "bookingCancel"} =>
          bookings'[s.booking] = bookings[r.booking] /\ LiveJobs(s.booking)' = LiveJobs(r.booking)
    BY <1>6
  <2>5. s.step \in {"jobEdit", "milestone"} => jobs'[s.job] = jobs[r.job]
    BY <1>7
  <2>6. s.step = "lines" =>
          /\ quotes'[s.quote].status \in {"DRAFT", "SENT"}
          /\ quotes'[s.quote].status = "SENT" => s.price = quotes'[s.quote].price
    BY <1>1, <1>3, <2>1, <2>2, <2>3 DEF StillHolds
  <2>7. s.step = "write" =>
          /\ quotes'[s.quote].status \in {"DRAFT", "SENT"}
          /\ quotes'[s.quote].status = "SENT" =>
               s.terms # <<>> /\ s.terms[1].price = quotes'[s.quote].price
          /\ s.seen = lines'[s.quote]
    BY <1>1, <1>3, <2>1, <2>2, <2>3 DEF StillHolds
  <2>8. s.step = "status" =>
          /\ CanMove(QuotationEdges, quotes'[s.quote].status, s.target)
          /\ s.target \in {"SENT", "WON"} => ApprovalAllows(quotes'[s.quote].approval)
    BY <1>1, <1>3, <2>1, <2>2, <2>3 DEF StillHolds
  <2>9. s.step = "book" =>
          /\ CanMove(QuotationEdges, quotes'[s.quote].status, "WON")
          /\ ApprovalAllows(quotes'[s.quote].approval)
    BY <1>1, <1>3, <2>1, <2>2, <2>3 DEF StillHolds
  <2>10. s.step = "confirm" => CanMove(BookingEdges, bookings'[s.booking].status, "CONFIRMED")
    BY <1>1, <1>3, <2>1, <2>2, <2>4 DEF StillHolds
  <2>11. s.step = "bookingCancel" =>
           /\ LiveJobs(s.booking)' = {}
           /\ CanMove(BookingEdges, bookings'[s.booking].status, "CANCELLED")
    BY <1>1, <1>3, <2>1, <2>2, <2>4 DEF StillHolds
  <2>12. s.step = "jobEdit" =>
           /\ s.target # None => CanMove(JobEdges, jobs'[s.job].status, s.target)
           /\ s.profit = NewProfit(jobs'[s.job], s.cost, s.revenue)
    BY <1>1, <1>3, <2>1, <2>2, <2>5 DEF StillHolds
  <2>13. s.step = "milestone" => CanMove(MilestoneEdges, jobs'[s.job].milestone, s.target)
    BY <1>1, <1>3, <2>1, <2>2, <2>5 DEF StillHolds
  <2> QED BY <1>2, <2>6, <2>7, <2>8, <2>9, <2>10, <2>11, <2>12, <2>13 DEF StillHolds, LiveJobs
<1> QED BY <1>8, <1>9 DEF Sound

(* --------------------------- parts left alone --------------------------- *)

\* The quotations' part asks only for the quotations and their lines.
LEMMA QuotesFrame ==
  ASSUME QuotesInv, UNCHANGED <<quotes, lines>>, stale \subseteq stale'
  PROVE  QuotesInv'
BY DEF QuotesInv, PriceMatchesLines, LargePricesReviewed

\* The links ask for the bookings and for the status and booking of jobs.
LEMMA LinksFrame ==
  ASSUME LinksInv, UNCHANGED bookings,
         \A j \in Jobs : /\ jobs'[j].booking = jobs[j].booking
                         /\ jobs[j].status # "ABSENT" => jobs'[j].status # "ABSENT"
  PROVE  LinksInv'
BY DEF LinksInv

\* The files ask for the bookings, the jobs and their timelines.
LEMMA FilesFrame ==
  ASSUME FilesInv, UNCHANGED <<bookings, jobs, trail>>, stale \subseteq stale'
  PROVE  FilesInv'
<1>1. \A b : LiveJobs(b)' = LiveJobs(b)
  BY DEF LiveJobs
<1> QED BY <1>1 DEF FilesInv, CancelledBookingsHaveNoLiveFile, NoInventedMilestones, ProfitMatches

(* ----------------------------- shapes of steps -------------------------- *)

\* Every request but p is where it was, overtaken if it had read a row of E.
OthersOvertaken(p, E) == \A p2 \in Procs \ {p} : req'[p2] = Overtaken(E)[p2]

\* A step of p keeps the invariant if it keeps the tables' parts and p's own.
LEMMA StepFrame ==
  ASSUME IInv, TypeOK', NEW p \in Procs, NEW E, Spares(E), OthersOvertaken(p, E), Sound(p)',
         QuotesInv', LinksInv', FilesInv'
  PROVE  IInv'
<1>1. ASSUME NEW p2 \in Procs
      PROVE  Sound(p2)'
  <2>1. CASE p2 = p
    BY <2>1
  <2>2. CASE p2 # p
    BY <2>2, OthersKeep DEF IInv, Sound, OthersOvertaken
  <2> QED BY <2>1, <2>2
<1> QED BY <1>1 DEF IInv, Sound

\* A statement outside any request keeps it if it keeps the tables' parts.
LEMMA StatementFrame ==
  ASSUME IInv, TypeOK', NEW p \in Procs, NEW E, Spares(E), req' = Overtaken(E),
         QuotesInv', LinksInv', FilesInv'
  PROVE  IInv'
<1>1. Sound(p)'
  BY OthersKeep DEF IInv, Sound
<1>2. OthersOvertaken(p, E)
  BY DEF OthersOvertaken
<1> QED BY <1>1, <1>2, StepFrame

\* A request that holds nothing promises nothing.
LEMMA IdleType == Idle \in Request
BY DEF Idle, Request, Steps

LEMMA IdleSound ==
  ASSUME NEW p \in Procs, req'[p] = Idle
  PROVE  Sound(p)'
BY FS_EmptySet DEF Idle, Sound, WellFormed, StillHolds

\* A step of p that only reads keeps the invariant if what p goes on with is sound.
LEMMA ReadFrame ==
  ASSUME IInv, NEW p \in Procs, NEW r \in Request, Proceed(p, r), Sound(p)'
  PROVE  IInv'
<1>1. UNCHANGED <<quotes, lines, revisions, bookings, jobs, trail, stale>>
  BY DEF Proceed, tables
<1>2. TypeOK'
  BY <1>1 DEF IInv, TypeOK, Proceed
<1>3. Spares({})
  BY <1>1 DEF Spares, SparesQuotes, SparesBookings, SparesJobs, LiveJobs
<1>4. OthersOvertaken(p, {})
  BY NobodyOvertaken DEF OthersOvertaken, Proceed, IInv, TypeOK
<1>5. QuotesInv' /\ LinksInv' /\ FilesInv'
  BY <1>1, QuotesFrame, LinksFrame, FilesFrame DEF IInv
<1> QED BY <1>2, <1>3, <1>4, <1>5, StepFrame

\* Rejecting or losing a request keeps it.
LEMMA AbortStep ==
  ASSUME IInv, NEW p \in Procs, Abort(p)
  PROVE  IInv'
<1>1. Proceed(p, Idle)
  BY DEF Abort, Proceed
<1>2. Sound(p)'
  BY IdleSound DEF Abort, IInv, TypeOK
<1> QED BY <1>1, <1>2, IdleType, ReadFrame

\* After Overtaken, requests are still requests.
LEMMA OvertakenType ==
  ASSUME TypeOK, NEW E
  PROVE  Overtaken(E) \in [Procs -> Request]
<1>1. ASSUME NEW p \in Procs
      PROVE  Overtaken(E)[p] \in Request
  <2>1. PICK r \in Request : r = req[p]
    BY DEF TypeOK
  <2> QED BY <2>1, OvertakenIs
<1>2. Overtaken(E) = [p \in Procs |-> Overtaken(E)[p]]
  BY DEF Overtaken
<1> HIDE DEF Overtaken
<1> QED BY <1>1, <1>2

\* Committing ends the request, and the rows written from a read that no longer
\* held are remembered.
LEMMA CommitFrame ==
  ASSUME TypeOK, NEW p \in Procs, NEW D, D \subseteq Quotes \cup Bookings \cup Jobs,
         NEW W, Commit(p, D, W)
  PROVE  /\ req' \in [Procs -> Request]
         /\ stale \subseteq stale' /\ stale' \subseteq Quotes \cup Bookings \cup Jobs
         /\ req[p].held \/ D \subseteq stale'
         /\ OthersOvertaken(p, D \cup W)
         /\ Sound(p)'
<1>1. Overtaken(D \cup W) \in [Procs -> Request]
  BY OvertakenType
<1>2. req' = [Overtaken(D \cup W) EXCEPT ![p] = Idle]
  BY DEF Commit
<1> DEFINE O == Overtaken(D \cup W)
<1>3. O \in [Procs -> Request] /\ req' = [O EXCEPT ![p] = Idle]
  BY <1>1, <1>2
<1> HIDE DEF O
<1>4. req' \in [Procs -> Request] /\ req'[p] = Idle /\ \A p2 \in Procs \ {p} : req'[p2] = O[p2]
  BY <1>3, IdleType
<1>5. OthersOvertaken(p, D \cup W)
  BY <1>4 DEF OthersOvertaken, O
<1>6. Sound(p)'
  BY <1>4, IdleSound
<1> QED BY <1>4, <1>5, <1>6 DEF Commit, TypeOK

\* A statement outside any request ends none, and is never stale.
LEMMA WrittenFrame ==
  ASSUME TypeOK, NEW D, Written(D)
  PROVE  req' \in [Procs -> Request] /\ req' = Overtaken(D) /\ stale' = stale
BY OvertakenType DEF Written

(* -------------------------- prices and status tables -------------------- *)

\* Lines are worth whole cents.
LEMMA PriceType ==
  ASSUME NEW L \in SUBSET Batch, IsFiniteSet(L)
  PROVE  Price(L) \in Nat
<1> DEFINE rows == [b \in L |-> [amount |-> b.worth]]
<1>1. HasAmounts(rows, L)
  BY DEF HasAmounts, Batch
<1>2. Price(L) = SumOf(rows, L)
  BY DEF Price
<1> HIDE DEF rows
<1> QED BY <1>1, <1>2, SumType

\* The lines of one body are worth what the body says.
LEMMA PriceOfOne ==
  ASSUME NEW b \in Batch
  PROVE  Price({b}) = b.worth
<1> DEFINE rows == [x \in {b} |-> [amount |-> x.worth]]
<1>1. rows[b].amount = b.worth /\ rows[b].amount \in Nat
  BY DEF Batch
<1>2. Price({b}) = SumOf(rows, {b})
  BY DEF Price
<1> HIDE DEF rows
<1> QED BY <1>1, <1>2, SumSingle

\* Whatever the price, the approval it asks for is one, and a large price asks
\* for a review.
LEMMA RequiredApprovalGates ==
  ASSUME NEW price \in Nat
  PROVE  /\ RequiredApproval(price, Threshold) \in ApprovalStatus
         /\ Threshold > 0 /\ price >= Threshold =>
              RequiredApproval(price, Threshold) # "NOT_REQUIRED"
BY ForwardingMoneyAssumption DEF RequiredApproval, ApprovalStatus

\* What the tables allow leads from a status to a status.
LEMMA QuotationMoves ==
  ASSUME NEW old, NEW new, CanMove(QuotationEdges, old, new)
  PROVE  /\ old \in QuotationStatus /\ new \in QuotationStatus
         /\ new = "WON" => old \in {"DRAFT", "SENT", "WON"}
BY DEF CanMove, QuotationEdges, QuotationStatus

LEMMA BookingMoves ==
  ASSUME NEW old, NEW new, CanMove(BookingEdges, old, new)
  PROVE  /\ old \in BookingStatus /\ new \in BookingStatus
         /\ new = "CONFIRMED" => old # "CANCELLED"
BY DEF CanMove, BookingEdges, BookingStatus

LEMMA JobMoves ==
  ASSUME NEW old, NEW new, CanMove(JobEdges, old, new)
  PROVE  /\ old \in JobStatus /\ new \in JobStatus
         /\ old = "CANCELLED" => new = "CANCELLED"
BY DEF CanMove, JobEdges, JobStatus

LEMMA MilestonesOrdered ==
  /\ DOMAIN MilestoneEdges = MilestoneStatus \cup {"NOT_BOOKED"}
  /\ \A m \in DOMAIN MilestoneEdges : Order[m] \in 0 .. 6
  /\ \A m, n \in DOMAIN MilestoneEdges : Order[m] = Order[n] => m = n
  /\ Order["NOT_BOOKED"] = 0 /\ Order["BOOKED"] = 1
  /\ \A m \in MilestoneStatus : Order[m] >= 1
BY DEF MilestoneEdges, MilestoneStatus, Order

\* A milestone follows the one before it.
LEMMA MilestoneMoves ==
  ASSUME NEW old, NEW new, CanMove(MilestoneEdges, old, new)
  PROVE  /\ old \in DOMAIN MilestoneEdges /\ new \in MilestoneStatus
         /\ Order[new] <= Order[old] + 1
BY DEF CanMove, MilestoneEdges, MilestoneStatus, Order

(* ------------------------------- quotations ----------------------------- *)

\* A write of quotation q, new or among the rows of E, that leaves its price and
\* approval right; and what the tables are after it when it is all a step writes.
LEMMA QuoteRows ==
  ASSUME IInv, NEW q \in Quotes, NEW E, stale \subseteq stale',
         \A q2 \in Quotes \ {q} : quotes'[q2] = quotes[q2] /\ lines'[q2] = lines[q2],
         quotes[q].status = "ABSENT" \/ q \in E, quotes'[q].status # "ABSENT",
         IsFiniteSet(lines'[q]),
         q \notin stale' => quotes'[q].price = Price(lines'[q]),
         Threshold > 0 /\ quotes'[q].price >= Threshold => quotes'[q].approval # "NOT_REQUIRED"
  PROVE  SparesQuotes(E) /\ QuotesInv'
<1>1. SparesQuotes(E)
  BY DEF SparesQuotes
<1>2. QuotesInv
  BY DEF IInv
<1>3. \A q2 \in Quotes :
        IsFiniteSet(lines'[q2]) /\ (quotes'[q2].status = "ABSENT" => quotes'[q2] = NoQuote)
  BY <1>2 DEF QuotesInv
<1>4. PriceMatchesLines'
  <2>1. ASSUME NEW q2 \in Quotes, q2 \notin stale'
        PROVE  quotes'[q2].price = Price(lines'[q2])
    BY <1>2, <2>1 DEF QuotesInv, PriceMatchesLines
  <2> QED BY <2>1 DEF PriceMatchesLines, Price
<1>5. LargePricesReviewed'
  <2>1. ASSUME NEW q2 \in Quotes, Threshold > 0, quotes'[q2].price >= Threshold
        PROVE  quotes'[q2].approval # "NOT_REQUIRED"
    BY <1>2, <2>1 DEF QuotesInv, LargePricesReviewed
  <2> QED BY <2>1 DEF LargePricesReviewed
<1> QED BY <1>1, <1>3, <1>4, <1>5 DEF QuotesInv

LEMMA QuoteWrite ==
  ASSUME IInv, NEW E, SparesQuotes(E), QuotesInv',
         UNCHANGED <<bookings, jobs, trail>>, stale \subseteq stale'
  PROVE  Spares(E) /\ QuotesInv' /\ LinksInv' /\ FilesInv'
<1>1. Spares(E)
  BY DEF Spares, SparesBookings, SparesJobs, LiveJobs
<1> QED BY <1>1, LinksFrame, FilesFrame DEF IInv

LEMMA CreateQuoteStep ==
  ASSUME IInv, NEW p \in Procs, NEW q \in Quotes, NEW w \in Worths, CreateQuote(p, q, w)
  PROVE  IInv'
<1> DEFINE row == [status |-> "DRAFT", approval |-> RequiredApproval(w, Threshold),
                   price |-> w, deleted |-> FALSE]
           b == [by |-> p, worth |-> w]
<1>1. w \in Nat
  BY ForwardingMoneyAssumption
<1>2. row \in QuoteRow
  BY <1>1, RequiredApprovalGates DEF QuoteRow, QuotationStatus
<1>3. b \in Batch /\ b.worth = w
  BY <1>1 DEF Batch
<1>4. row.price = w /\ row.approval = RequiredApproval(w, Threshold) /\ row.status # "ABSENT"
  OBVIOUS
<1>5. /\ quotes[q].status = "ABSENT" /\ quotes' = [quotes EXCEPT ![q] = row]
      /\ lines' = [lines EXCEPT ![q] = {b}]
      /\ UNCHANGED <<revisions, bookings, jobs, trail, req, stale>>
  BY DEF CreateQuote
<1> HIDE DEF row, b
<1>6. TypeOK'
  BY <1>2, <1>3, <1>5 DEF IInv, TypeOK
<1>7. quotes'[q] = row /\ lines'[q] = {b}
  BY <1>5 DEF IInv, TypeOK
<1>8. IsFiniteSet({b}) /\ Price({b}) = w
  BY <1>3, PriceOfOne, FS_Singleton
<1>9. Threshold > 0 /\ w >= Threshold => RequiredApproval(w, Threshold) # "NOT_REQUIRED"
  BY <1>1, RequiredApprovalGates
<1>10. Spares({}) /\ QuotesInv' /\ LinksInv' /\ FilesInv'
  BY <1>4, <1>5, <1>7, <1>8, <1>9, QuoteRows, QuoteWrite DEF IInv, TypeOK
<1> QED BY <1>5, <1>6, <1>10, NobodyOvertaken, StatementFrame DEF IInv

\* Soft delete and restore, which differ in one column.
LEMMA MarkQuoteStep ==
  ASSUME IInv, NEW p \in Procs, NEW q \in Quotes, RemoveQuote(q) \/ RestoreQuote(q)
  PROVE  IInv'
<1>1. PICK d \in BOOLEAN : quotes' = [quotes EXCEPT ![q].deleted = d]
  BY DEF RemoveQuote, RestoreQuote
<1>2. Written({q}) /\ UNCHANGED <<lines, revisions, bookings, jobs, trail>>
  BY DEF RemoveQuote, RestoreQuote
<1>3. PICK old \in QuoteRow : old = quotes[q]
  BY DEF IInv, TypeOK
<1>4. PICK new \in QuoteRow : new = [old EXCEPT !.deleted = d]
  BY DEF QuoteRow
<1>5. new.status = old.status /\ new.price = old.price /\ new.approval = old.approval
  BY <1>4 DEF QuoteRow
<1>6. quotes' = [quotes EXCEPT ![q] = new]
  BY <1>1, <1>3, <1>4
<1>7. /\ req' \in [Procs -> Request] /\ req' = Overtaken({q}) /\ stale' = stale
  BY <1>2, WrittenFrame DEF IInv
<1>8. TypeOK'
  BY <1>2, <1>6, <1>7 DEF IInv, TypeOK
<1>9. quotes'[q] = new /\ \A q2 \in Quotes \ {q} : quotes'[q2] = quotes[q2]
  BY <1>6 DEF IInv, TypeOK
<1>10. /\ IsFiniteSet(lines[q])
       /\ q \notin stale => quotes[q].price = Price(lines[q])
       /\ Threshold > 0 /\ quotes[q].price >= Threshold => quotes[q].approval # "NOT_REQUIRED"
  BY DEF IInv, QuotesInv, PriceMatchesLines, LargePricesReviewed
<1>11. Spares({q}) /\ QuotesInv' /\ LinksInv' /\ FilesInv'
  <2>1. quotes'[q].status # "ABSENT"
    <3>1. quotes[q].status # "ABSENT"
      BY DEF RemoveQuote, RestoreQuote, IInv, QuotesInv, NoQuote
    <3> QED BY <1>3, <1>5, <1>9, <3>1
  <2>2. q \notin stale' => quotes'[q].price = Price(lines'[q])
    BY <1>2, <1>3, <1>5, <1>7, <1>9, <1>10
  <2>3. Threshold > 0 /\ quotes'[q].price >= Threshold => quotes'[q].approval # "NOT_REQUIRED"
    BY <1>3, <1>5, <1>9, <1>10
  <2>4. IsFiniteSet(lines'[q])
    BY <1>2, <1>10
  <2> QED BY <1>2, <1>7, <1>9, <2>1, <2>2, <2>3, <2>4, QuoteRows, QuoteWrite
<1> QED BY <1>7, <1>8, <1>11, StatementFrame

LEMMA BeginUpdateQuoteStep ==
  ASSUME IInv, NEW p \in Procs, NEW q \in Quotes, NEW w \in Worths \cup {None},
         BeginUpdateQuote(p, q, w)
  PROVE  IInv'
<1> DEFINE seen == IF quotes[q].status = "SENT" THEN quotes[q].price ELSE None
           r == [Idle EXCEPT !.step = "lines", !.quote = q, !.worth = w, !.price = seen]
<1>1. quotes[q].status \in {"DRAFT", "SENT"} /\ Proceed(p, r)
  BY DEF BeginUpdateQuote, StartUpdate
<1>2. seen \in Nat \cup {None} /\ (quotes[q].status = "SENT" => seen = quotes[q].price)
  BY DEF IInv, TypeOK, QuoteRow
<1> HIDE DEF seen
<1>3. /\ r = [Idle EXCEPT !.step = "lines", !.quote = q, !.worth = w, !.price = seen]
      /\ r.step = "lines" /\ r.quote = q /\ r.price = seen /\ r.seen = {}
  BY DEF Idle
<1> HIDE DEF r
<1>4. r \in Request
  <2>1. w \in Nat \cup {None}
    BY ForwardingMoneyAssumption
  <2> QED BY <1>2, <1>3, <2>1, IdleType DEF Request, Steps
<1>5. req'[p] = r /\ quotes' = quotes
  BY <1>1 DEF Proceed, tables, IInv, TypeOK
<1>6. Sound(p)'
  BY <1>1, <1>2, <1>3, <1>5, FS_EmptySet DEF Sound, WellFormed, StillHolds
<1> QED BY <1>1, <1>4, <1>6, ReadFrame

LEMMA ReadLinesStep ==
  ASSUME IInv, NEW p \in Procs, ReadLines(p)
  PROVE  IInv'
<1>1. PICK old \in Request : old = req[p]
  BY DEF IInv, TypeOK
<1>2. old.step = "lines"
  BY <1>1 DEF ReadLines
<1>3. PICK q \in Quotes : q = old.quote /\ quotes[q].status # "ABSENT"
  BY <1>1, <1>2 DEF IInv, WellFormed
<1> DEFINE number == NextNumber(q)
           terms == IF old.price = None THEN <<>>
                    ELSE <<[number |-> number, price |-> old.price]>>
           r == [old EXCEPT !.step = "write", !.seen = lines[q], !.price = None, !.terms = terms]
<1>4. (old.price # None => number \in Revisions) /\ Proceed(p, r)
  BY <1>1, <1>3 DEF ReadLines
<1> HIDE DEF number
<1>5. terms \in Seq(Revision)
  <2>1. CASE old.price = None
    BY <2>1
  <2>2. CASE old.price # None
    <3>1. number \in Nat /\ old.price \in Nat
      BY <1>4, <2>2, ForwardingMoneyAssumption DEF Request
    <3>2. [number |-> number, price |-> old.price] \in Revision
      BY <3>1 DEF Revision
    <3> QED BY <2>2, <3>2
  <2> QED BY <2>1, <2>2
<1>6. old.price # None => terms # <<>> /\ terms[1].price = old.price
  OBVIOUS
<1> HIDE DEF terms
<1>7. lines[q] \in SUBSET Batch /\ IsFiniteSet(lines[q])
  BY DEF IInv, TypeOK, QuotesInv
<1>8. r = [old EXCEPT !.step = "write", !.seen = lines[q], !.price = None, !.terms = terms]
  OBVIOUS
<1> HIDE DEF r
<1>9. /\ r \in Request
      /\ r.step = "write" /\ r.quote = q /\ r.seen = lines[q] /\ r.terms = terms
      /\ r.held = old.held
  <2>1. r \in Request
    BY ONLY <1>5, <1>7, <1>8, old \in Request DEF Request, Steps
  <2>2. /\ r.step = "write" /\ r.quote = old.quote /\ r.seen = lines[q] /\ r.terms = terms
        /\ r.held = old.held
    BY ONLY <1>8, old \in Request DEF Request
  <2> QED BY <1>3, <2>1, <2>2
<1>10. req'[p] = r /\ quotes' = quotes /\ lines' = lines
  BY <1>4 DEF Proceed, tables, IInv, TypeOK
<1>11. old.held =>
         /\ quotes[q].status \in {"DRAFT", "SENT"}
         /\ quotes[q].status = "SENT" => terms # <<>> /\ terms[1].price = quotes[q].price
  <2> SUFFICES ASSUME old.held
               PROVE  /\ quotes[q].status \in {"DRAFT", "SENT"}
                      /\ quotes[q].status = "SENT" =>
                           terms # <<>> /\ terms[1].price = quotes[q].price
    OBVIOUS
  <2>1. /\ quotes[q].status \in {"DRAFT", "SENT"}
        /\ quotes[q].status = "SENT" => old.price = quotes[q].price
    BY <1>1, <1>2, <1>3 DEF IInv, StillHolds
  <2>2. quotes[q].price # None
    BY ForwardingNoneAssumption DEF IInv, TypeOK, QuoteRow
  <2> QED BY <1>6, <2>1, <2>2
<1>12. Sound(p)'
  BY <1>3, <1>7, <1>9, <1>10, <1>11 DEF Sound, WellFormed, StillHolds
<1> QED BY <1>4, <1>8, <1>9, <1>12, ReadFrame

LEMMA CommitUpdateQuoteStep ==
  ASSUME IInv, NEW p \in Procs, CommitUpdateQuote(p)
  PROVE  IInv'
<1>1. PICK r \in Request : r = req[p]
  BY DEF IInv, TypeOK
<1>2. r.step = "write"
  BY <1>1 DEF CommitUpdateQuote
<1>3. PICK q \in Quotes : q = r.quote /\ quotes[q].status # "ABSENT"
  BY <1>1, <1>2 DEF IInv, WellFormed
<1> DEFINE price == IF r.worth = None THEN Price(r.seen) ELSE r.worth
           after == LinesAfter(p, r)
<1>4. price \in Nat
  <2>1. IsFiniteSet(r.seen) /\ r.seen \in SUBSET Batch
    BY <1>1 DEF IInv, WellFormed, Request
  <2>2. Price(r.seen) \in Nat
    BY <2>1, PriceType
  <2> QED BY <2>2 DEF Request
<1>5. /\ quotes' = [quotes EXCEPT ![q].price = price,
                                  ![q].approval = RequiredApproval(price, Threshold)]
      /\ lines' = [lines EXCEPT ![q] = after]
      /\ revisions' = [revisions EXCEPT ![q] = @ \o r.terms]
      /\ Commit(p, {q}, {})
      /\ UNCHANGED <<bookings, jobs, trail>>
  BY <1>1, <1>3 DEF CommitUpdateQuote
<1>6. /\ RequiredApproval(price, Threshold) \in ApprovalStatus
      /\ Threshold > 0 /\ price >= Threshold => RequiredApproval(price, Threshold) # "NOT_REQUIRED"
  <2> HIDE DEF price
  <2> QED BY <1>4, RequiredApprovalGates
<1>7. /\ req' \in [Procs -> Request]
      /\ stale \subseteq stale' /\ stale' \subseteq Quotes \cup Bookings \cup Jobs
      /\ r.held \/ {q} \subseteq stale'
      /\ OthersOvertaken(p, {q})
      /\ Sound(p)'
  <2>1. {q} \cup {} = {q}
    OBVIOUS
  <2> QED BY <1>1, <1>5, <2>1, CommitFrame DEF IInv
<1>8. /\ after \in SUBSET Batch /\ IsFiniteSet(after)
      /\ r.seen = lines[q] => Price(after) = price
  <2>1. lines[q] \in SUBSET Batch /\ IsFiniteSet(lines[q])
    BY DEF IInv, TypeOK, QuotesInv
  <2>2. CASE r.worth = None
    BY <1>3, <2>1, <2>2 DEF LinesAfter
  <2>3. CASE r.worth # None
    <3> DEFINE b == [by |-> p, worth |-> r.worth]
    <3>1. b \in Batch /\ b.worth = r.worth
      BY <2>3 DEF Batch, Request
    <3>2. after = (lines[q] \ r.seen) \cup {b}
      BY <1>3, <2>3 DEF LinesAfter
    <3> HIDE DEF b, after
    <3>3. IsFiniteSet(lines[q] \ r.seen)
      BY <2>1, FS_Subset
    <3>4. IsFiniteSet(after)
      BY <3>2, <3>3, FS_Singleton, FS_Union
    <3>5. r.seen = lines[q] => after = {b}
      BY <3>2
    <3> QED BY <2>1, <2>3, <3>1, <3>2, <3>4, <3>5, PriceOfOne
  <2> QED BY <2>2, <2>3
<1> HIDE DEF price, after
<1>9. PICK old \in QuoteRow : old = quotes[q]
  BY DEF IInv, TypeOK
<1>10. PICK new \in QuoteRow :
         new = [old EXCEPT !.price = price, !.approval = RequiredApproval(price, Threshold)]
  BY <1>4, <1>6 DEF QuoteRow
<1>11. /\ new.status = old.status /\ new.price = price
       /\ new.approval = RequiredApproval(price, Threshold)
  BY <1>10 DEF QuoteRow
<1>12. quotes' = [quotes EXCEPT ![q] = new]
  BY <1>5, <1>9, <1>10
<1>13. revisions' \in [Quotes -> Seq(Revision)]
  <2>1. revisions[q] \in Seq(Revision) /\ r.terms \in Seq(Revision)
    BY DEF IInv, TypeOK, Request
  <2>2. revisions[q] \o r.terms \in Seq(Revision)
    BY <2>1, ConcatProperties
  <2> QED BY <1>5, <2>2 DEF IInv, TypeOK
<1>14. TypeOK'
  BY <1>5, <1>7, <1>8, <1>12, <1>13 DEF IInv, TypeOK
<1>15. /\ quotes'[q] = new /\ lines'[q] = after
       /\ \A q2 \in Quotes \ {q} : quotes'[q2] = quotes[q2] /\ lines'[q2] = lines[q2]
  BY <1>5, <1>12 DEF IInv, TypeOK
<1>16. q \notin stale' => quotes'[q].price = Price(lines'[q])
  <2>1. r.held => r.seen = lines[q]
    BY <1>1, <1>2, <1>3 DEF IInv, StillHolds
  <2> QED BY <1>7, <1>8, <1>11, <1>15, <2>1
<1>17. quotes'[q].status # "ABSENT" /\ IsFiniteSet(lines'[q])
  BY <1>3, <1>8, <1>9, <1>11, <1>15
<1>18. Threshold > 0 /\ quotes'[q].price >= Threshold => quotes'[q].approval # "NOT_REQUIRED"
  BY <1>6, <1>11, <1>15
<1>19. Spares({q}) /\ QuotesInv' /\ LinksInv' /\ FilesInv'
  BY <1>5, <1>7, <1>15, <1>16, <1>17, <1>18, QuoteRows, QuoteWrite
<1> QED BY <1>7, <1>14, <1>19, StepFrame

\* A commit that leaves price and lines alone and takes no review back.
LEMMA CommitQuoteColumns ==
  ASSUME IInv, NEW p \in Procs, NEW q \in Quotes, NEW new \in QuoteRow,
         quotes' = [quotes EXCEPT ![q] = new], Commit(p, {q}, {}),
         UNCHANGED <<lines, revisions, bookings, jobs, trail>>,
         new.status # "ABSENT", new.price = quotes[q].price,
         new.approval \in {quotes[q].approval, "APPROVED", "REJECTED"}
  PROVE  IInv'
<1>1. /\ req' \in [Procs -> Request]
      /\ stale \subseteq stale' /\ stale' \subseteq Quotes \cup Bookings \cup Jobs
      /\ OthersOvertaken(p, {q})
      /\ Sound(p)'
  <2>1. {q} \cup {} = {q}
    OBVIOUS
  <2> QED BY <2>1, CommitFrame DEF IInv
<1>2. TypeOK'
  BY <1>1 DEF IInv, TypeOK
<1>3. quotes'[q] = new /\ \A q2 \in Quotes \ {q} : quotes'[q2] = quotes[q2]
  BY DEF IInv, TypeOK
<1>4. /\ IsFiniteSet(lines[q])
      /\ q \notin stale => quotes[q].price = Price(lines[q])
      /\ Threshold > 0 /\ quotes[q].price >= Threshold => quotes[q].approval # "NOT_REQUIRED"
  BY DEF IInv, QuotesInv, PriceMatchesLines, LargePricesReviewed
<1>5. q \notin stale' => quotes'[q].price = Price(lines'[q])
  BY <1>1, <1>3, <1>4
<1>6. Threshold > 0 /\ quotes'[q].price >= Threshold => quotes'[q].approval # "NOT_REQUIRED"
  BY <1>3, <1>4
<1>7. Spares({q}) /\ QuotesInv' /\ LinksInv' /\ FilesInv'
  BY <1>1, <1>3, <1>4, <1>5, <1>6, QuoteRows, QuoteWrite
<1> QED BY <1>1, <1>2, <1>7, StepFrame

LEMMA BeginSetStatusStep ==
  ASSUME IInv, NEW p \in Procs, NEW q \in Quotes, NEW status, BeginSetStatus(p, q, status)
  PROVE  IInv'
<1> DEFINE r == [Idle EXCEPT !.step = "status", !.quote = q, !.target = status]
<1>1. /\ CanMove(QuotationEdges, quotes[q].status, status)
      /\ status \in {"SENT", "WON"} => ApprovalAllows(quotes[q].approval)
      /\ Proceed(p, r)
  BY DEF BeginSetStatus
<1>2. status \in QuotationStatus /\ quotes[q].status # "ABSENT"
  BY <1>1, QuotationMoves DEF QuotationStatus
<1>3. /\ r = [Idle EXCEPT !.step = "status", !.quote = q, !.target = status]
      /\ r.step = "status" /\ r.quote = q /\ r.target = status /\ r.seen = {}
  BY DEF Idle
<1> HIDE DEF r
<1>4. r \in Request
  BY <1>2, <1>3, IdleType DEF Request, Steps
<1>5. req'[p] = r /\ quotes' = quotes
  BY <1>1 DEF Proceed, tables, IInv, TypeOK
<1>6. Sound(p)'
  BY <1>1, <1>2, <1>3, <1>5, FS_EmptySet DEF Sound, WellFormed, StillHolds
<1> QED BY <1>1, <1>4, <1>6, ReadFrame

LEMMA CommitSetStatusStep ==
  ASSUME IInv, NEW p \in Procs, CommitSetStatus(p)
  PROVE  IInv'
<1>1. PICK r \in Request : r = req[p]
  BY DEF IInv, TypeOK
<1>2. r.step = "status"
  BY <1>1 DEF CommitSetStatus
<1>3. PICK q \in Quotes : q = r.quote
  BY <1>1, <1>2 DEF IInv, WellFormed
<1>4. r.target \in QuotationStatus
  BY <1>1, <1>2 DEF IInv, WellFormed
<1>5. PICK old \in QuoteRow : old = quotes[q]
  BY DEF IInv, TypeOK
<1>6. PICK new \in QuoteRow : new = [old EXCEPT !.status = r.target]
  BY <1>4 DEF QuoteRow
<1>7. new.status = r.target /\ new.price = old.price /\ new.approval = old.approval
  BY <1>6 DEF QuoteRow
<1>8. quotes' = [quotes EXCEPT ![q] = new]
  BY <1>1, <1>3, <1>5, <1>6 DEF CommitSetStatus
<1>9. Commit(p, {q}, {}) /\ UNCHANGED <<lines, revisions, bookings, jobs, trail>>
  BY <1>1, <1>3 DEF CommitSetStatus
<1>10. new.status # "ABSENT"
  BY <1>4, <1>7 DEF QuotationStatus
<1> QED BY <1>5, <1>7, <1>8, <1>9, <1>10, CommitQuoteColumns

LEMMA BeginVerdictStep ==
  ASSUME IInv, NEW p \in Procs, NEW q \in Quotes, NEW verdict \in {"APPROVED", "REJECTED"},
         BeginVerdict(p, q, verdict)
  PROVE  IInv'
<1> DEFINE r == [Idle EXCEPT !.step = "verdict", !.quote = q, !.target = verdict]
<1>1. quotes[q].approval = "PENDING" /\ Proceed(p, r)
  BY DEF BeginVerdict
<1>2. quotes[q].status # "ABSENT"
  BY <1>1 DEF IInv, QuotesInv, NoQuote
<1>3. /\ r = [Idle EXCEPT !.step = "verdict", !.quote = q, !.target = verdict]
      /\ r.step = "verdict" /\ r.quote = q /\ r.target = verdict /\ r.seen = {}
  BY DEF Idle
<1> HIDE DEF r
<1>4. r \in Request
  BY <1>3, IdleType DEF Request, Steps, ApprovalStatus
<1>5. req'[p] = r /\ quotes' = quotes
  BY <1>1 DEF Proceed, tables, IInv, TypeOK
<1>6. Sound(p)'
  BY <1>2, <1>3, <1>5, FS_EmptySet DEF Sound, WellFormed, StillHolds
<1> QED BY <1>1, <1>4, <1>6, ReadFrame

LEMMA CommitVerdictStep ==
  ASSUME IInv, NEW p \in Procs, CommitVerdict(p)
  PROVE  IInv'
<1>1. PICK r \in Request : r = req[p]
  BY DEF IInv, TypeOK
<1>2. r.step = "verdict"
  BY <1>1 DEF CommitVerdict
<1>3. PICK q \in Quotes : q = r.quote /\ quotes[q].status # "ABSENT"
  BY <1>1, <1>2 DEF IInv, WellFormed
<1>4. r.target \in {"APPROVED", "REJECTED"}
  BY <1>1, <1>2 DEF IInv, WellFormed
<1>5. PICK old \in QuoteRow : old = quotes[q]
  BY DEF IInv, TypeOK
<1>6. PICK new \in QuoteRow : new = [old EXCEPT !.approval = r.target]
  BY <1>4 DEF QuoteRow, ApprovalStatus
<1>7. new.status = old.status /\ new.price = old.price /\ new.approval = r.target
  BY <1>6 DEF QuoteRow
<1>8. quotes' = [quotes EXCEPT ![q] = new]
  BY <1>1, <1>3, <1>5, <1>6 DEF CommitVerdict
<1>9. Commit(p, {q}, {}) /\ UNCHANGED <<lines, revisions, bookings, jobs, trail>>
  BY <1>1, <1>3 DEF CommitVerdict
<1> QED BY <1>3, <1>4, <1>5, <1>7, <1>8, <1>9, CommitQuoteColumns

(* -------------------------------- bookings ------------------------------ *)

\* A write of booking b, new or among the rows of E, that leaves its links right;
\* and what the tables are after it when it is all a step writes.
LEMMA BookingRows ==
  ASSUME IInv, NEW b \in Bookings, NEW E, stale \subseteq stale', UNCHANGED <<jobs, trail>>,
         \A c \in Bookings \ {b} : bookings'[c] = bookings[c],
         bookings[b].status = "ABSENT" \/ b \in E, bookings'[b].status # "ABSENT",
         bookings'[b].quote # None =>
           \A c \in Bookings \ {b} : bookings[c].quote # bookings'[b].quote,
         (\E j \in Jobs : jobs[j].booking = b) => bookings'[b].status # "DRAFT",
         bookings'[b].status = "CONFIRMED" => \E j \in Jobs : jobs[j].booking = b,
         b \notin stale' /\ bookings'[b].status = "CANCELLED" => LiveJobs(b) \subseteq stale'
  PROVE  SparesBookings(E) /\ SparesJobs(E) /\ LinksInv' /\ FilesInv'
<1>1. \A c : LiveJobs(c)' = LiveJobs(c)
  BY DEF LiveJobs
<1>2. SparesBookings(E) /\ SparesJobs(E)
  BY <1>1 DEF SparesBookings, SparesJobs
<1>3. LinksInv'
  <2>1. LinksInv
    BY DEF IInv
  <2>2. ASSUME NEW x \in Bookings, NEW y \in Bookings,
               bookings'[x].quote # None, bookings'[x].quote = bookings'[y].quote
        PROVE  x = y
    BY <2>1, <2>2 DEF LinksInv
  <2>3. ASSUME NEW j \in Jobs, jobs[j].booking # None
        PROVE  /\ jobs[j].status # "ABSENT"
               /\ bookings'[jobs[j].booking].status \notin {"ABSENT", "DRAFT"}
    <3>1. PICK c \in Bookings : c = jobs[j].booking
      BY <2>3 DEF IInv, TypeOK, JobRow
    <3>2. jobs[j].status # "ABSENT" /\ bookings[c].status \notin {"ABSENT", "DRAFT"}
      BY <2>1, <2>3, <3>1 DEF LinksInv
    <3>3. CASE c = b
      BY <3>1, <3>2, <3>3
    <3>4. CASE c # b
      BY <3>1, <3>2, <3>4
    <3> QED BY <3>3, <3>4
  <2>4. ASSUME NEW c \in Bookings, bookings'[c].status = "CONFIRMED"
        PROVE  \E j \in Jobs : jobs'[j].booking = c
    BY <2>1, <2>4 DEF LinksInv
  <2> QED BY <2>1, <2>2, <2>3, <2>4 DEF LinksInv
<1>4. FilesInv'
  <2>1. FilesInv
    BY DEF IInv
  <2>2. CancelledBookingsHaveNoLiveFile'
    <3>1. ASSUME NEW c \in Bookings, c \notin stale', bookings'[c].status = "CANCELLED"
          PROVE  LiveJobs(c)' \subseteq stale'
      BY <1>1, <2>1, <3>1 DEF FilesInv, CancelledBookingsHaveNoLiveFile
    <3> QED BY <3>1 DEF CancelledBookingsHaveNoLiveFile, LiveJobs
  <2> QED BY <2>1, <2>2 DEF FilesInv, NoInventedMilestones, ProfitMatches
<1> QED BY <1>2, <1>3, <1>4

LEMMA QuotesUntouched ==
  ASSUME IInv, NEW E, SparesBookings(E), SparesJobs(E), UNCHANGED <<quotes, lines>>,
         stale \subseteq stale'
  PROVE  Spares(E) /\ QuotesInv'
<1>1. SparesQuotes(E)
  BY DEF SparesQuotes
<1> QED BY <1>1, QuotesFrame DEF IInv, Spares

\* An unconfirmed booking, and one that is absent, has no shipment file.
LEMMA NoFileYet ==
  ASSUME IInv, NEW b \in Bookings, bookings[b].status \in {"ABSENT", "DRAFT"}
  PROVE  \A j \in Jobs : jobs[j].booking # b
<1>1. b # None
  BY ForwardingNoneAssumption
<1> QED BY <1>1 DEF IInv, LinksInv

LEMMA CreateBookingStep ==
  ASSUME IInv, NEW p \in Procs, NEW b \in Bookings, NEW q \in Quotes \cup {None},
         CreateBooking(b, q)
  PROVE  IInv'
<1> DEFINE row == [status |-> "DRAFT", quote |-> q]
<1>1. /\ bookings[b].status = "ABSENT" /\ BookingIndexAllows(b, q)
      /\ bookings' = [bookings EXCEPT ![b] = row]
      /\ UNCHANGED <<quotes, lines, revisions, jobs, trail, req, stale>>
  BY DEF CreateBooking
<1>2. row \in BookingRow /\ row.status = "DRAFT" /\ row.quote = q
  BY DEF BookingRow, BookingStatus
<1> HIDE DEF row
<1>3. TypeOK'
  BY <1>1, <1>2 DEF IInv, TypeOK
<1>4. bookings'[b] = row /\ \A c \in Bookings \ {b} : bookings'[c] = bookings[c]
  BY <1>1 DEF IInv, TypeOK
<1>5. \A j \in Jobs : jobs[j].booking # b
  BY <1>1, NoFileYet
<1>6. SparesBookings({}) /\ SparesJobs({}) /\ LinksInv' /\ FilesInv'
  BY <1>1, <1>2, <1>4, <1>5, BookingRows DEF BookingIndexAllows
<1>7. Spares({}) /\ QuotesInv'
  BY <1>1, <1>6, QuotesUntouched
<1> QED BY <1>1, <1>3, <1>6, <1>7, NobodyOvertaken, StatementFrame DEF IInv

LEMMA BeginBookStep ==
  ASSUME IInv, NEW p \in Procs, NEW q \in Quotes, BeginBook(p, q)
  PROVE  IInv'
<1> DEFINE target == IF quotes[q].status = "WON" THEN None ELSE "WON"
           r == [Idle EXCEPT !.step = "book", !.quote = q, !.target = target]
<1>1. /\ CanMove(QuotationEdges, quotes[q].status, "WON") /\ ApprovalAllows(quotes[q].approval)
      /\ Proceed(p, r)
  BY DEF BeginBook
<1>2. quotes[q].status # "ABSENT"
  BY <1>1, QuotationMoves DEF QuotationStatus
<1>3. target \in {"WON", None}
  OBVIOUS
<1> HIDE DEF target
<1>4. /\ r = [Idle EXCEPT !.step = "book", !.quote = q, !.target = target]
      /\ r.step = "book" /\ r.quote = q /\ r.target = target /\ r.seen = {}
  BY DEF Idle
<1> HIDE DEF r
<1>5. r \in Request
  BY <1>3, <1>4, IdleType DEF Request, Steps, QuotationStatus
<1>6. req'[p] = r /\ quotes' = quotes
  BY <1>1 DEF Proceed, tables, IInv, TypeOK
<1>7. Sound(p)'
  BY <1>1, <1>2, <1>3, <1>4, <1>6, FS_EmptySet DEF Sound, WellFormed, StillHolds
<1> QED BY <1>1, <1>5, <1>7, ReadFrame

LEMMA CommitBookStep ==
  ASSUME IInv, NEW p \in Procs, NEW b \in Bookings, CommitBook(p, b)
  PROVE  IInv'
<1>1. PICK r \in Request : r = req[p]
  BY DEF IInv, TypeOK
<1>2. r.step = "book"
  BY <1>1 DEF CommitBook
<1>3. PICK q \in Quotes : q = r.quote /\ quotes[q].status # "ABSENT"
  BY <1>1, <1>2 DEF IInv, WellFormed
<1>4. r.target \in {"WON", None}
  BY <1>1, <1>2 DEF IInv, WellFormed
<1> DEFINE row == [status |-> "DRAFT", quote |-> q]
<1>5. /\ bookings[b].status = "ABSENT" /\ BookingIndexAllows(b, q)
      /\ bookings' = [bookings EXCEPT ![b] = row]
      /\ quotes' = [quotes EXCEPT ![q].status = Given(r.target, @)]
      /\ Commit(p, {q}, {})
      /\ UNCHANGED <<lines, revisions, jobs, trail>>
  BY <1>1, <1>3 DEF CommitBook
<1>6. row \in BookingRow /\ row.status = "DRAFT" /\ row.quote = q
  BY DEF BookingRow, BookingStatus
<1> HIDE DEF row
<1>7. PICK old \in QuoteRow : old = quotes[q]
  BY DEF IInv, TypeOK
<1>8. Given(r.target, old.status) \in QuotationStatus
  BY <1>3, <1>4, <1>7 DEF Given, QuoteRow, QuotationStatus
<1>9. PICK new \in QuoteRow : new = [old EXCEPT !.status = Given(r.target, old.status)]
  BY <1>8 DEF QuoteRow
<1>10. new.status \in QuotationStatus /\ new.price = old.price /\ new.approval = old.approval
  BY <1>8, <1>9 DEF QuoteRow
<1>11. quotes' = [quotes EXCEPT ![q] = new]
  BY <1>5, <1>7, <1>9
<1>12. /\ req' \in [Procs -> Request]
       /\ stale \subseteq stale' /\ stale' \subseteq Quotes \cup Bookings \cup Jobs
       /\ OthersOvertaken(p, {q})
       /\ Sound(p)'
  <2>1. {q} \cup {} = {q}
    OBVIOUS
  <2> QED BY <1>5, <2>1, CommitFrame DEF IInv
<1>13. TypeOK'
  <2>1. quotes' \in [Quotes -> QuoteRow]
    BY <1>11 DEF IInv, TypeOK
  <2>2. bookings' \in [Bookings -> BookingRow]
    BY <1>5, <1>6 DEF IInv, TypeOK
  <2> QED BY <1>5, <1>12, <2>1, <2>2 DEF IInv, TypeOK
<1>14. quotes'[q] = new /\ \A q2 \in Quotes \ {q} : quotes'[q2] = quotes[q2]
  BY <1>11 DEF IInv, TypeOK
<1>15. /\ IsFiniteSet(lines[q])
       /\ q \notin stale => quotes[q].price = Price(lines[q])
       /\ Threshold > 0 /\ quotes[q].price >= Threshold => quotes[q].approval # "NOT_REQUIRED"
  BY DEF IInv, QuotesInv, PriceMatchesLines, LargePricesReviewed
<1>16. SparesQuotes({q}) /\ QuotesInv'
  <2>1. q \notin stale' => quotes'[q].price = Price(lines'[q])
    BY <1>5, <1>7, <1>10, <1>12, <1>14, <1>15
  <2>2. Threshold > 0 /\ quotes'[q].price >= Threshold => quotes'[q].approval # "NOT_REQUIRED"
    BY <1>7, <1>10, <1>14, <1>15
  <2>3. quotes'[q].status # "ABSENT"
    BY <1>10, <1>14 DEF QuotationStatus
  <2> QED BY <1>5, <1>12, <1>14, <1>15, <2>1, <2>2, <2>3, QuoteRows
<1>17. bookings'[b] = row /\ \A c \in Bookings \ {b} : bookings'[c] = bookings[c]
  BY <1>5 DEF IInv, TypeOK
<1>18. \A j \in Jobs : jobs[j].booking # b
  BY <1>5, NoFileYet
<1>19. SparesBookings({q}) /\ SparesJobs({q}) /\ LinksInv' /\ FilesInv'
  BY <1>5, <1>6, <1>12, <1>17, <1>18, BookingRows DEF BookingIndexAllows
<1> QED BY <1>12, <1>13, <1>16, <1>19, StepFrame DEF Spares

LEMMA BeginUpdateBookingStep ==
  ASSUME IInv, NEW p \in Procs, NEW b \in Bookings, NEW link \in Quotes \cup {None, "KEEP"},
         BeginUpdateBooking(p, b, link)
  PROVE  IInv'
<1> DEFINE r == [Idle EXCEPT !.step = "bookingEdit", !.booking = b, !.link = link]
<1>1. bookings[b].status = "DRAFT" /\ Proceed(p, r)
  BY DEF BeginUpdateBooking
<1>2. /\ r = [Idle EXCEPT !.step = "bookingEdit", !.booking = b, !.link = link]
      /\ r.step = "bookingEdit" /\ r.booking = b /\ r.seen = {}
  BY DEF Idle
<1> HIDE DEF r
<1>3. r \in Request
  BY <1>2, IdleType DEF Request, Steps
<1>4. req'[p] = r /\ bookings' = bookings
  BY <1>1 DEF Proceed, tables, IInv, TypeOK
<1>5. Sound(p)'
  BY <1>1, <1>2, <1>4, FS_EmptySet DEF Sound, WellFormed, StillHolds
<1> QED BY <1>1, <1>3, <1>5, ReadFrame

\* A commit that writes one existing booking and no other row.
LEMMA CommitBookingRow ==
  ASSUME IInv, NEW p \in Procs, NEW b \in Bookings, NEW new \in BookingRow,
         bookings' = [bookings EXCEPT ![b] = new], Commit(p, {b}, {}),
         UNCHANGED <<quotes, lines, revisions, jobs, trail>>, new.status # "ABSENT",
         new.quote # None => \A c \in Bookings \ {b} : bookings[c].quote # new.quote,
         (\E j \in Jobs : jobs[j].booking = b) => new.status # "DRAFT",
         new.status = "CONFIRMED" => \E j \in Jobs : jobs[j].booking = b,
         b \notin stale' /\ new.status = "CANCELLED" => LiveJobs(b) \subseteq stale'
  PROVE  IInv'
<1>1. /\ req' \in [Procs -> Request]
      /\ stale \subseteq stale' /\ stale' \subseteq Quotes \cup Bookings \cup Jobs
      /\ OthersOvertaken(p, {b})
      /\ Sound(p)'
  <2>1. {b} \cup {} = {b}
    OBVIOUS
  <2> QED BY <2>1, CommitFrame DEF IInv
<1>2. TypeOK'
  BY <1>1 DEF IInv, TypeOK
<1>3. bookings'[b] = new /\ \A c \in Bookings \ {b} : bookings'[c] = bookings[c]
  BY DEF IInv, TypeOK
<1>4. SparesBookings({b}) /\ SparesJobs({b}) /\ LinksInv' /\ FilesInv'
  BY <1>1, <1>3, BookingRows
<1>5. Spares({b}) /\ QuotesInv'
  BY <1>1, <1>4, QuotesUntouched
<1> QED BY <1>1, <1>2, <1>4, <1>5, StepFrame

LEMMA CommitUpdateBookingStep ==
  ASSUME IInv, NEW p \in Procs, CommitUpdateBooking(p)
  PROVE  IInv'
<1>1. PICK r \in Request : r = req[p]
  BY DEF IInv, TypeOK
<1>2. r.step = "bookingEdit"
  BY <1>1 DEF CommitUpdateBooking
<1>3. PICK b \in Bookings : b = r.booking /\ bookings[b].status # "ABSENT"
  BY <1>1, <1>2 DEF IInv, WellFormed
<1>4. PICK old \in BookingRow : old = bookings[b]
  BY DEF IInv, TypeOK
<1> DEFINE q == IF r.link = "KEEP" THEN bookings[b].quote ELSE r.link
<1>5. q \in Quotes \cup {None}
  BY <1>4 DEF BookingRow, Request
<1>6. /\ BookingIndexAllows(b, q)
      /\ bookings' = [bookings EXCEPT ![b].quote = q]
      /\ Commit(p, {b}, {})
      /\ UNCHANGED <<quotes, lines, revisions, jobs, trail>>
  BY <1>1, <1>3 DEF CommitUpdateBooking
<1> HIDE DEF q
<1>7. PICK new \in BookingRow : new = [old EXCEPT !.quote = q]
  BY <1>5 DEF BookingRow
<1>8. new.status = old.status /\ new.quote = q
  BY <1>7 DEF BookingRow
<1>9. bookings' = [bookings EXCEPT ![b] = new]
  BY <1>4, <1>6, <1>7
<1>10. new.quote # None => \A c \in Bookings \ {b} : bookings[c].quote # new.quote
  BY <1>6, <1>8 DEF BookingIndexAllows
<1>11. (\E j \in Jobs : jobs[j].booking = b) => new.status # "DRAFT"
  BY <1>4, <1>8, NoFileYet
<1>12. new.status = "CONFIRMED" => \E j \in Jobs : jobs[j].booking = b
  BY <1>4, <1>8 DEF IInv, LinksInv
<1>13. b \notin stale' /\ new.status = "CANCELLED" => LiveJobs(b) \subseteq stale'
  <2>1. stale \subseteq stale'
    BY <1>6 DEF Commit
  <2> QED BY <1>4, <1>8, <2>1 DEF IInv, FilesInv, CancelledBookingsHaveNoLiveFile
<1> QED BY <1>3, <1>4, <1>6, <1>8, <1>9, <1>10, <1>11, <1>12, <1>13, CommitBookingRow

LEMMA BeginConfirmStep ==
  ASSUME IInv, NEW p \in Procs, NEW b \in Bookings, BeginConfirm(p, b)
  PROVE  IInv'
<1> DEFINE link == bookings[b].quote
           price == IF bookings[b].quote = None THEN 0 ELSE quotes[bookings[b].quote].price
           r == [Idle EXCEPT !.step = "confirm", !.booking = b, !.link = link, !.price = price]
<1>1. CanMove(BookingEdges, bookings[b].status, "CONFIRMED") /\ Proceed(p, r)
  BY DEF BeginConfirm
<1>2. bookings[b].status # "ABSENT"
  BY <1>1, BookingMoves DEF BookingStatus
<1>3. link \in Quotes \cup {None}
  BY DEF IInv, TypeOK, BookingRow
<1>4. price \in Nat
  BY <1>3 DEF IInv, TypeOK, QuoteRow
<1> HIDE DEF link, price
<1>5. /\ r = [Idle EXCEPT !.step = "confirm", !.booking = b, !.link = link, !.price = price]
      /\ r.step = "confirm" /\ r.booking = b /\ r.link = link /\ r.price = price /\ r.seen = {}
  BY DEF Idle
<1> HIDE DEF r
<1>6. r \in Request
  BY <1>3, <1>4, <1>5, IdleType DEF Request, Steps
<1>7. req'[p] = r /\ bookings' = bookings
  BY <1>1 DEF Proceed, tables, IInv, TypeOK
<1>8. Sound(p)'
  BY <1>1, <1>2, <1>3, <1>4, <1>5, <1>7, FS_EmptySet DEF Sound, WellFormed, StillHolds
<1> QED BY <1>1, <1>6, <1>8, ReadFrame

LEMMA BeginCancelBookingStep ==
  ASSUME IInv, NEW p \in Procs, NEW b \in Bookings, BeginCancelBooking(p, b)
  PROVE  IInv'
<1> DEFINE r == [Idle EXCEPT !.step = "bookingCancel", !.booking = b]
<1>1. /\ CanMove(BookingEdges, bookings[b].status, "CANCELLED") /\ LiveJobs(b) = {}
      /\ Proceed(p, r)
  BY DEF BeginCancelBooking
<1>2. bookings[b].status # "ABSENT"
  BY <1>1, BookingMoves DEF BookingStatus
<1>3. /\ r = [Idle EXCEPT !.step = "bookingCancel", !.booking = b]
      /\ r.step = "bookingCancel" /\ r.booking = b /\ r.seen = {}
  BY DEF Idle
<1> HIDE DEF r
<1>4. r \in Request
  BY <1>3, IdleType DEF Request, Steps
<1>5. req'[p] = r /\ bookings' = bookings /\ jobs' = jobs
  BY <1>1 DEF Proceed, tables, IInv, TypeOK
<1>6. LiveJobs(b)' = {}
  BY <1>1, <1>5 DEF LiveJobs
<1>7. Sound(p)'
  BY <1>1, <1>2, <1>3, <1>5, <1>6, FS_EmptySet DEF Sound, WellFormed, StillHolds, LiveJobs
<1> QED BY <1>1, <1>4, <1>7, ReadFrame

LEMMA CommitCancelBookingStep ==
  ASSUME IInv, NEW p \in Procs, CommitCancelBooking(p)
  PROVE  IInv'
<1>1. PICK r \in Request : r = req[p]
  BY DEF IInv, TypeOK
<1>2. r.step = "bookingCancel"
  BY <1>1 DEF CommitCancelBooking
<1>3. PICK b \in Bookings : b = r.booking /\ bookings[b].status # "ABSENT"
  BY <1>1, <1>2 DEF IInv, WellFormed
<1>4. PICK old \in BookingRow : old = bookings[b]
  BY DEF IInv, TypeOK
<1>5. /\ bookings' = [bookings EXCEPT ![b].status = "CANCELLED"]
      /\ Commit(p, {b}, {})
      /\ UNCHANGED <<quotes, lines, revisions, jobs, trail>>
  BY <1>1, <1>3 DEF CommitCancelBooking
<1>6. PICK new \in BookingRow : new = [old EXCEPT !.status = "CANCELLED"]
  BY DEF BookingRow, BookingStatus
<1>7. new.status = "CANCELLED" /\ new.quote = old.quote
  BY <1>6 DEF BookingRow
<1>8. bookings' = [bookings EXCEPT ![b] = new]
  BY <1>4, <1>5, <1>6
<1>9. new.quote # None => \A c \in Bookings \ {b} : bookings[c].quote # new.quote
  BY <1>4, <1>7 DEF IInv, LinksInv
<1>10. b \notin stale' => LiveJobs(b) = {}
  <2>1. b \notin stale' => r.held
    BY <1>1, <1>5 DEF Commit
  <2>2. r.held => LiveJobs(b) = {}
    BY <1>1, <1>2, <1>3 DEF IInv, StillHolds, LiveJobs
  <2> QED BY <2>1, <2>2
<1> QED BY <1>5, <1>7, <1>8, <1>9, <1>10, CommitBookingRow

LEMMA CommitConfirmStep ==
  ASSUME IInv, NEW p \in Procs, NEW j \in Jobs, CommitConfirm(p, j)
  PROVE  IInv'
<1>1. PICK r \in Request : r = req[p]
  BY DEF IInv, TypeOK
<1>2. r.step = "confirm"
  BY <1>1 DEF CommitConfirm
<1>3. PICK b \in Bookings : b = r.booking /\ bookings[b].status # "ABSENT"
  BY <1>1, <1>2 DEF IInv, WellFormed
<1>4. r.link \in Quotes \cup {None} /\ r.price \in Nat
  BY <1>1, <1>2 DEF IInv, WellFormed
<1>5. PICK old \in BookingRow : old = bookings[b]
  BY DEF IInv, TypeOK
<1> DEFINE row == [status |-> "OPEN", booking |-> b, quote |-> r.link, milestone |-> "BOOKED",
                   cost |-> 0, revenue |-> r.price, profit |-> r.price, deleted |-> FALSE]
           first == {SystemEvent("BOOKED")}
<1>6. /\ jobs[j].status = "ABSENT" /\ JobBookingIndexAllows(b)
      /\ jobs' = [jobs EXCEPT ![j] = row]
      /\ trail' = [trail EXCEPT ![j] = first]
      /\ bookings' = [bookings EXCEPT ![b].status = "CONFIRMED"]
      /\ Commit(p, {b}, {})
      /\ UNCHANGED <<quotes, lines, revisions>>
  BY <1>1, <1>3 DEF CommitConfirm
<1>7. row \in JobRow
  BY <1>4 DEF JobRow, JobStatus, MilestoneEdges
<1>8. /\ row.status = "OPEN" /\ row.booking = b /\ row.milestone = "BOOKED"
      /\ row.profit = row.revenue - row.cost
  BY <1>4
<1>9. first \in SUBSET Event /\ SystemEvent("BOOKED") \in first
  BY DEF SystemEvent, Event, MilestoneStatus
<1> HIDE DEF row, first
<1>10. PICK new \in BookingRow : new = [old EXCEPT !.status = "CONFIRMED"]
  BY DEF BookingRow, BookingStatus
<1>11. new.status = "CONFIRMED" /\ new.quote = old.quote
  BY <1>10 DEF BookingRow
<1>12. bookings' = [bookings EXCEPT ![b] = new]
  BY <1>5, <1>6, <1>10
<1>13. /\ req' \in [Procs -> Request]
       /\ stale \subseteq stale' /\ stale' \subseteq Quotes \cup Bookings \cup Jobs
       /\ OthersOvertaken(p, {b})
       /\ Sound(p)'
  <2>1. {b} \cup {} = {b}
    OBVIOUS
  <2> QED BY <1>6, <2>1, CommitFrame DEF IInv
<1>14. TypeOK'
  <2>1. bookings' \in [Bookings -> BookingRow]
    BY <1>12 DEF IInv, TypeOK
  <2>2. jobs' \in [Jobs -> JobRow] /\ trail' \in [Jobs -> SUBSET Event]
    BY <1>6, <1>7, <1>9 DEF IInv, TypeOK
  <2> QED BY <1>6, <1>13, <2>1, <2>2 DEF IInv, TypeOK
<1>15. bookings'[b] = new /\ \A c \in Bookings \ {b} : bookings'[c] = bookings[c]
  BY <1>12 DEF IInv, TypeOK
<1>16. /\ jobs'[j] = row /\ \A k \in Jobs \ {j} : jobs'[k] = jobs[k]
       /\ trail'[j] = first /\ \A k \in Jobs \ {j} : trail'[k] = trail[k]
  BY <1>6 DEF IInv, TypeOK
<1>17. jobs[j].booking = None /\ None \notin Bookings
  BY <1>6, ForwardingNoneAssumption DEF IInv, LinksInv
<1>18. \A c \in Bookings \ {b} : LiveJobs(c)' = LiveJobs(c)
  <2> SUFFICES ASSUME NEW c \in Bookings \ {b}, NEW k \in Jobs
               PROVE  /\ jobs'[k].booking = c /\ jobs'[k].status # "CANCELLED"
                           => jobs[k].booking = c /\ jobs[k].status # "CANCELLED"
                      /\ jobs[k].booking = c /\ jobs[k].status # "CANCELLED"
                           => jobs'[k].booking = c /\ jobs'[k].status # "CANCELLED"
    BY DEF LiveJobs
  <2>1. CASE k = j
    BY <1>8, <1>16, <1>17, <2>1
  <2>2. CASE k # j
    BY <1>16, <2>2
  <2> QED BY <2>1, <2>2
<1>19. Spares({b}) /\ QuotesInv'
  <2>1. SparesBookings({b})
    BY <1>11, <1>15, <1>18 DEF SparesBookings
  <2>2. SparesJobs({b})
    BY <1>6, <1>16 DEF SparesJobs
  <2> QED BY <1>6, <1>13, <2>1, <2>2, QuotesUntouched
<1>20. LinksInv'
  <2>1. LinksInv
    BY DEF IInv
  <2>2. \A x \in Bookings : bookings'[x].quote = bookings[x].quote
    BY <1>5, <1>11, <1>15
  <2>3. ASSUME NEW x \in Bookings, NEW y \in Bookings,
               bookings'[x].quote # None, bookings'[x].quote = bookings'[y].quote
        PROVE  x = y
    BY <2>1, <2>2, <2>3 DEF LinksInv
  <2>4. ASSUME NEW x \in Jobs, NEW y \in Jobs,
               jobs'[x].booking # None, jobs'[x].booking = jobs'[y].booking
        PROVE  x = y
    <3>1. \A k \in Jobs : jobs[k].booking # b
      BY <1>6 DEF JobBookingIndexAllows
    <3>2. \A k \in Jobs : jobs'[k].booking = b => k = j
      BY <1>16, <3>1
    <3>3. CASE jobs'[x].booking = b
      BY <2>4, <3>2, <3>3
    <3>4. CASE jobs'[x].booking # b
      BY <1>8, <1>16, <2>1, <2>4, <3>4 DEF LinksInv
    <3> QED BY <3>3, <3>4
  <2>5. ASSUME NEW x \in Jobs, jobs'[x].booking # None
        PROVE  /\ jobs'[x].status # "ABSENT"
               /\ bookings'[jobs'[x].booking].status \notin {"ABSENT", "DRAFT"}
    <3>1. CASE x = j
      BY <1>8, <1>11, <1>15, <1>16, <3>1
    <3>2. CASE x # j
      <4>1. jobs'[x] = jobs[x] /\ jobs[x].booking # None
        BY <1>16, <2>5, <3>2
      <4>2. PICK c \in Bookings : c = jobs[x].booking
        BY <4>1 DEF IInv, TypeOK, JobRow
      <4>3. jobs[x].status # "ABSENT" /\ bookings[c].status \notin {"ABSENT", "DRAFT"}
        BY <2>1, <4>1, <4>2 DEF LinksInv
      <4>4. bookings'[c].status \notin {"ABSENT", "DRAFT"}
        BY <1>11, <1>15, <4>3
      <4> QED BY <4>1, <4>2, <4>3, <4>4
    <3> QED BY <3>1, <3>2
  <2>6. ASSUME NEW c \in Bookings, bookings'[c].status = "CONFIRMED"
        PROVE  \E k \in Jobs : jobs'[k].booking = c
    <3>1. CASE c = b
      BY <1>8, <1>16, <3>1
    <3>2. CASE c # b
      <4>1. PICK k \in Jobs : jobs[k].booking = c
        BY <1>15, <2>1, <2>6, <3>2 DEF LinksInv
      <4>2. k # j
        BY <1>17, <4>1
      <4> QED BY <1>16, <4>1, <4>2
    <3> QED BY <3>1, <3>2
  <2> QED BY <2>3, <2>4, <2>5, <2>6 DEF LinksInv
<1>21. FilesInv'
  <2>1. FilesInv
    BY DEF IInv
  <2>2. CancelledBookingsHaveNoLiveFile'
    <3>1. ASSUME NEW c \in Bookings, c \notin stale', bookings'[c].status = "CANCELLED"
          PROVE  LiveJobs(c)' \subseteq stale'
      <4>1. c # b
        BY <1>11, <1>15, <3>1
      <4>2. LiveJobs(c) \subseteq stale
        BY <1>13, <1>15, <2>1, <3>1, <4>1 DEF FilesInv, CancelledBookingsHaveNoLiveFile
      <4> QED BY <1>13, <1>18, <4>1, <4>2
    <3> QED BY <3>1 DEF CancelledBookingsHaveNoLiveFile, LiveJobs
  <2>3. NoInventedMilestones'
    <3>1. ASSUME NEW k \in Jobs, NEW m \in MilestoneStatus,
                 Order[m] <= Order[jobs'[k].milestone]
          PROVE  SystemEvent(m) \in trail'[k]
      <4>1. CASE k = j
        BY <1>8, <1>9, <1>16, <3>1, <4>1 DEF Order, MilestoneStatus
      <4>2. CASE k # j
        BY <1>16, <2>1, <3>1, <4>2 DEF FilesInv, NoInventedMilestones
      <4> QED BY <4>1, <4>2
    <3> QED BY <3>1 DEF NoInventedMilestones
  <2>4. ProfitMatches'
    <3>1. ASSUME NEW k \in Jobs, k \notin stale'
          PROVE  jobs'[k].profit = jobs'[k].revenue - jobs'[k].cost
      BY <1>8, <1>13, <1>16, <2>1, <3>1 DEF FilesInv, ProfitMatches
    <3> QED BY <3>1 DEF ProfitMatches
  <2> QED BY <2>2, <2>3, <2>4 DEF FilesInv
<1> QED BY <1>13, <1>14, <1>19, <1>20, <1>21, StepFrame

(* ---------------------------------- jobs -------------------------------- *)

\* A write of job j and its timeline that leaves its booking alone, its milestones
\* on record and its profit right, and revives it only from a stale read.
LEMMA JobRows ==
  ASSUME IInv, NEW j \in Jobs, NEW E, stale \subseteq stale', UNCHANGED bookings,
         \A k \in Jobs \ {j} : jobs'[k] = jobs[k] /\ trail'[k] = trail[k],
         jobs[j].status = "ABSENT" \/ j \in E \/ jobs'[j] = jobs[j],
         jobs[j].status # "ABSENT" => jobs'[j].status # "ABSENT" /\ trail[j] \subseteq trail'[j],
         jobs'[j].booking = jobs[j].booking,
         \/ jobs[j].booking \in E \cup {None}
         \/ (jobs'[j].status = "CANCELLED") = (jobs[j].status = "CANCELLED"),
         j \notin stale' /\ jobs[j].status = "CANCELLED" => jobs'[j].status = "CANCELLED",
         \A m \in MilestoneStatus :
           Order[m] <= Order[jobs'[j].milestone] => SystemEvent(m) \in trail'[j],
         j \notin stale' => jobs'[j].profit = jobs'[j].revenue - jobs'[j].cost
  PROVE  SparesBookings(E) /\ SparesJobs(E) /\ LinksInv' /\ FilesInv'
<1>1. SparesJobs(E)
  BY DEF SparesJobs
<1>2. SparesBookings(E)
  <2>1. ASSUME NEW b \in Bookings, b \notin E
        PROVE  LiveJobs(b)' = LiveJobs(b)
    <3> SUFFICES ASSUME NEW k \in Jobs
                 PROVE  /\ jobs'[k].booking = b /\ jobs'[k].status # "CANCELLED"
                             => jobs[k].booking = b /\ jobs[k].status # "CANCELLED"
                        /\ jobs[k].booking = b /\ jobs[k].status # "CANCELLED"
                             => jobs'[k].booking = b /\ jobs'[k].status # "CANCELLED"
      BY DEF LiveJobs
    <3>1. CASE k # j
      BY <3>1
    <3>2. CASE k = j /\ jobs[j].booking = b
      <4>1. jobs[j].booking \notin E \cup {None}
        BY <2>1, <3>2, ForwardingNoneAssumption
      <4> QED BY <3>2, <4>1
    <3>3. CASE k = j /\ jobs[j].booking # b
      BY <3>3
    <3> QED BY <3>1, <3>2, <3>3
  <2> QED BY <2>1 DEF SparesBookings
<1>3. LinksInv'
  BY LinksFrame DEF IInv
<1>4. FilesInv
  BY DEF IInv
<1>5. CancelledBookingsHaveNoLiveFile'
  <2>1. ASSUME NEW b \in Bookings, b \notin stale', bookings'[b].status = "CANCELLED",
               NEW k \in Jobs, jobs'[k].booking = b, jobs'[k].status # "CANCELLED",
               k \notin stale'
        PROVE  FALSE
    <3>1. jobs[k].booking = b /\ jobs[k].status # "CANCELLED"
      BY <2>1
    <3>2. k \in stale
      BY <1>4, <2>1, <3>1 DEF FilesInv, CancelledBookingsHaveNoLiveFile, LiveJobs
    <3> QED BY <2>1, <3>2
  <2> QED BY <2>1 DEF CancelledBookingsHaveNoLiveFile, LiveJobs
<1>6. NoInventedMilestones'
  <2>1. ASSUME NEW k \in Jobs, NEW m \in MilestoneStatus, Order[m] <= Order[jobs'[k].milestone]
        PROVE  SystemEvent(m) \in trail'[k]
    BY <1>4, <2>1 DEF FilesInv, NoInventedMilestones
  <2> QED BY <2>1 DEF NoInventedMilestones
<1>7. ProfitMatches'
  <2>1. ASSUME NEW k \in Jobs, k \notin stale'
        PROVE  jobs'[k].profit = jobs'[k].revenue - jobs'[k].cost
    BY <1>4, <2>1 DEF FilesInv, ProfitMatches
  <2> QED BY <2>1 DEF ProfitMatches
<1> QED BY <1>1, <1>2, <1>3, <1>5, <1>6, <1>7 DEF FilesInv

LEMMA CreateJobStep ==
  ASSUME IInv, NEW p \in Procs, NEW j \in Jobs, NEW q \in Quotes \cup {None},
         NEW s \in Statuses \cup {None}, NEW c \in Costs \cup {None},
         NEW v \in Revenues \cup {None}, CreateJob(j, q, s, c, v)
  PROVE  IInv'
<1> DEFINE status == Given(s, "OPEN")
           cost == Given(c, 0)
           revenue == Given(v, 0)
           row == [NoJob EXCEPT !.status = status, !.quote = q, !.cost = cost,
                                !.revenue = revenue, !.profit = revenue - cost]
           first == {SystemEvent(status)}
<1>1. status \in JobStatus
  BY ForwardingStatusAssumption DEF Given, JobStatus
<1>2. cost \in Nat /\ revenue \in Nat
  BY ForwardingMoneyAssumption DEF Given
<1>3. /\ jobs[j].status = "ABSENT"
      /\ jobs' = [jobs EXCEPT ![j] = row] /\ trail' = [trail EXCEPT ![j] = first]
      /\ UNCHANGED <<quotes, lines, revisions, bookings, req, stale>>
  BY DEF CreateJob
<1> HIDE DEF status, cost, revenue
<1>4. first \in SUBSET Event
  BY <1>1 DEF SystemEvent, Event
<1>5. row = [NoJob EXCEPT !.status = status, !.quote = q, !.cost = cost,
                          !.revenue = revenue, !.profit = revenue - cost]
  OBVIOUS
<1> HIDE DEF row, first
<1>6. /\ row \in JobRow
      /\ row.status = status /\ row.booking = None /\ row.milestone = "NOT_BOOKED"
      /\ row.profit = row.revenue - row.cost
  <2>1. revenue - cost \in Int
    BY <1>2
  <2> QED BY <1>1, <1>2, <1>5, <2>1 DEF NoJob, JobRow, MilestoneEdges
<1>7. TypeOK'
  <2>1. jobs' \in [Jobs -> JobRow] /\ trail' \in [Jobs -> SUBSET Event]
    BY <1>3, <1>4, <1>6 DEF IInv, TypeOK
  <2> QED BY <1>3, <2>1 DEF IInv, TypeOK
<1>8. jobs'[j] = row /\ \A k \in Jobs \ {j} : jobs'[k] = jobs[k] /\ trail'[k] = trail[k]
  BY <1>3 DEF IInv, TypeOK
<1>9. jobs[j].booking = None
  BY <1>3 DEF IInv, LinksInv
<1>10. \A m \in MilestoneStatus : ~ (Order[m] <= Order[jobs'[j].milestone])
  <2>1. \A m \in MilestoneStatus : ~ (Order[m] <= Order["NOT_BOOKED"])
    BY DEF MilestoneStatus, Order
  <2> QED BY <1>6, <1>8, <2>1
<1>11. SparesBookings({}) /\ SparesJobs({}) /\ LinksInv' /\ FilesInv'
  BY <1>3, <1>6, <1>8, <1>9, <1>10, JobRows
<1>12. Spares({}) /\ QuotesInv'
  BY <1>3, <1>11, QuotesUntouched
<1> QED BY <1>3, <1>7, <1>11, <1>12, NobodyOvertaken, StatementFrame DEF IInv

\* What IInv says of job j.
LEMMA JobFacts ==
  ASSUME IInv, NEW j \in Jobs
  PROVE  /\ \A m \in MilestoneStatus :
              Order[m] <= Order[jobs[j].milestone] => SystemEvent(m) \in trail[j]
         /\ j \notin stale => jobs[j].profit = jobs[j].revenue - jobs[j].cost
BY DEF IInv, FilesInv, NoInventedMilestones, ProfitMatches

\* Soft delete and restore.
LEMMA MarkJobStep ==
  ASSUME IInv, NEW p \in Procs, NEW j \in Jobs, RemoveJob(j) \/ RestoreJob(j)
  PROVE  IInv'
<1>1. PICK d \in BOOLEAN : jobs' = [jobs EXCEPT ![j].deleted = d]
  BY DEF RemoveJob, RestoreJob
<1>2. Written({j}) /\ UNCHANGED <<quotes, lines, revisions, bookings, trail>>
  BY DEF RemoveJob, RestoreJob
<1>3. PICK old \in JobRow : old = jobs[j]
  BY DEF IInv, TypeOK
<1>4. PICK new \in JobRow : new = [old EXCEPT !.deleted = d]
  BY DEF JobRow
<1>5. /\ new.status = old.status /\ new.booking = old.booking /\ new.milestone = old.milestone
      /\ new.profit = old.profit /\ new.revenue = old.revenue /\ new.cost = old.cost
  BY <1>4 DEF JobRow
<1>6. jobs' = [jobs EXCEPT ![j] = new]
  BY <1>1, <1>3, <1>4
<1>7. req' \in [Procs -> Request] /\ req' = Overtaken({j}) /\ stale' = stale
  BY <1>2, WrittenFrame DEF IInv
<1>8. TypeOK'
  BY <1>2, <1>6, <1>7 DEF IInv, TypeOK
<1>9. jobs'[j] = new /\ \A k \in Jobs \ {j} : jobs'[k] = jobs[k]
  BY <1>6 DEF IInv, TypeOK
<1>10. /\ \A m \in MilestoneStatus :
            Order[m] <= Order[jobs'[j].milestone] => SystemEvent(m) \in trail'[j]
       /\ j \notin stale' => jobs'[j].profit = jobs'[j].revenue - jobs'[j].cost
  BY <1>2, <1>3, <1>5, <1>7, <1>9, JobFacts
<1>11. SparesBookings({j}) /\ SparesJobs({j}) /\ LinksInv' /\ FilesInv'
  BY <1>2, <1>3, <1>5, <1>7, <1>9, <1>10, JobRows
<1>12. Spares({j}) /\ QuotesInv'
  BY <1>2, <1>7, <1>11, QuotesUntouched
<1> QED BY <1>7, <1>8, <1>11, <1>12, StatementFrame

LEMMA AddTrackingEventStep ==
  ASSUME IInv, NEW p \in Procs, NEW j \in Jobs, NEW label \in Remarks, AddTrackingEvent(j, label)
  PROVE  IInv'
<1> DEFINE event == [source |-> "MANUAL", label |-> label]
<1>1. /\ trail' = [trail EXCEPT ![j] = @ \cup {event}]
      /\ UNCHANGED <<quotes, lines, revisions, bookings, jobs, req, stale>>
  BY DEF AddTrackingEvent
<1>2. event \in Event
  BY DEF Event
<1> HIDE DEF event
<1>3. TypeOK'
  BY <1>1, <1>2 DEF IInv, TypeOK
<1>4. trail[j] \subseteq trail'[j] /\ \A k \in Jobs \ {j} : trail'[k] = trail[k]
  BY <1>1 DEF IInv, TypeOK
<1>5. SparesBookings({}) /\ SparesJobs({}) /\ LinksInv' /\ FilesInv'
  BY <1>1, <1>4, JobFacts, JobRows
<1>6. Spares({}) /\ QuotesInv'
  BY <1>1, <1>5, QuotesUntouched
<1> QED BY <1>1, <1>3, <1>5, <1>6, NobodyOvertaken, StatementFrame DEF IInv

LEMMA BeginUpdateJobStep ==
  ASSUME IInv, NEW p \in Procs, NEW j \in Jobs, NEW s \in Statuses \cup {None},
         NEW link \in Quotes \cup {None, "KEEP"}, NEW c \in Costs \cup {None},
         NEW v \in Revenues \cup {None}, BeginUpdateJob(p, j, s, link, c, v)
  PROVE  IInv'
<1> DEFINE event == IF s = jobs[j].status THEN None ELSE s
           profit == NewProfit(jobs[j], c, v)
           r == [Idle EXCEPT !.step = "jobEdit", !.job = j, !.target = s, !.link = link,
                             !.event = event, !.cost = c, !.revenue = v, !.profit = profit]
<1>1. /\ jobs[j].status # "ABSENT"
      /\ s # None => CanMove(JobEdges, jobs[j].status, s)
      /\ Proceed(p, r)
  BY DEF BeginUpdateJob
<1>2. s \in JobStatus \cup {None}
  BY ForwardingStatusAssumption
<1>3. c \in Nat \cup {None} /\ v \in Nat \cup {None}
  BY ForwardingMoneyAssumption
<1>4. event \in JobStatus \cup {None}
  BY <1>2
<1>5. profit \in Int
  <2>1. jobs[j].revenue \in Nat /\ jobs[j].cost \in Nat
    BY DEF IInv, TypeOK, JobRow
  <2>2. Given(v, jobs[j].revenue) \in Nat /\ Given(c, jobs[j].cost) \in Nat
    BY <1>3, <2>1 DEF Given
  <2> QED BY <2>2 DEF NewProfit
<1> HIDE DEF event, profit
<1>6. /\ r = [Idle EXCEPT !.step = "jobEdit", !.job = j, !.target = s, !.link = link,
                          !.event = event, !.cost = c, !.revenue = v, !.profit = profit]
      /\ r.step = "jobEdit" /\ r.job = j /\ r.target = s /\ r.cost = c /\ r.revenue = v
      /\ r.profit = profit /\ r.seen = {}
  BY DEF Idle
<1> HIDE DEF r
<1>7. r \in Request
  <2> DEFINE a == [Idle EXCEPT !.step = "jobEdit", !.job = j, !.target = s, !.link = link]
             b == [a EXCEPT !.event = event, !.profit = profit]
  <2>1. a = [Idle EXCEPT !.step = "jobEdit", !.job = j, !.target = s, !.link = link]
    OBVIOUS
  <2>2. b = [a EXCEPT !.event = event, !.profit = profit]
    OBVIOUS
  <2>3. r = [b EXCEPT !.cost = c, !.revenue = v]
    BY <1>6 DEF Idle
  <2> HIDE DEF a, b
  <2>4. a \in Request
    BY <1>2, <2>1, IdleType DEF Request, Steps
  <2>5. b \in Request
    BY ONLY <1>4, <1>5, <2>2, <2>4 DEF Request
  <2> QED BY ONLY <1>3, <2>3, <2>5 DEF Request
<1>8. req'[p] = r /\ jobs' = jobs
  BY <1>1 DEF Proceed, tables, IInv, TypeOK
<1>9. Sound(p)'
  BY <1>1, <1>2, <1>6, <1>8, FS_EmptySet DEF Sound, WellFormed, StillHolds, profit
<1> QED BY <1>1, <1>7, <1>9, ReadFrame

LEMMA CommitUpdateJobStep ==
  ASSUME IInv, NEW p \in Procs, CommitUpdateJob(p)
  PROVE  IInv'
<1>1. PICK r \in Request : r = req[p]
  BY DEF IInv, TypeOK
<1>2. r.step = "jobEdit"
  BY <1>1 DEF CommitUpdateJob
<1>3. PICK j \in Jobs : j = r.job /\ jobs[j].status # "ABSENT"
  BY <1>1, <1>2 DEF IInv, WellFormed
<1>4. PICK old \in JobRow : old = jobs[j]
  BY DEF IInv, TypeOK
<1> DEFINE q == IF r.link = "KEEP" THEN old.quote ELSE r.link
           status == Given(r.target, old.status)
           cost == Given(r.cost, old.cost)
           revenue == Given(r.revenue, old.revenue)
           E == {j} \cup {old.booking}
<1>5. /\ jobs' = [jobs EXCEPT ![j] = Columns(old, r, q)]
      /\ trail' = IF r.event = None THEN trail
                  ELSE [trail EXCEPT ![j] = @ \cup {SystemEvent(r.event)}]
      /\ Commit(p, {j}, {old.booking})
      /\ UNCHANGED <<quotes, lines, revisions, bookings>>
  BY <1>1, <1>3, <1>4 DEF CommitUpdateJob
<1>6. r.target \in JobStatus \cup {None}
  BY <1>1, <1>2 DEF IInv, WellFormed
<1>7. q \in Quotes \cup {None}
  BY DEF JobRow, Request
<1>8. status \in JobStatus
  BY <1>3, <1>4, <1>6 DEF Given, JobRow
<1>9. cost \in Nat /\ revenue \in Nat
  BY DEF Given, JobRow, Request
<1>10. r.profit \in Int
  BY DEF Request
<1>11. Columns(old, r, q) = [old EXCEPT !.status = status, !.quote = q, !.profit = r.profit,
                                        !.cost = cost, !.revenue = revenue]
  BY DEF Columns
<1> HIDE DEF q, status, cost, revenue
<1>12. PICK new \in JobRow :
         new = [old EXCEPT !.status = status, !.quote = q, !.profit = r.profit,
                           !.cost = cost, !.revenue = revenue]
  BY <1>7, <1>8, <1>9, <1>10 DEF JobRow
<1>13. /\ new.status = status /\ new.booking = old.booking /\ new.milestone = old.milestone
       /\ new.profit = r.profit /\ new.cost = cost /\ new.revenue = revenue
  BY <1>12 DEF JobRow
<1>14. jobs' = [jobs EXCEPT ![j] = new]
  BY <1>5, <1>11, <1>12
<1>15. /\ req' \in [Procs -> Request]
       /\ stale \subseteq stale' /\ stale' \subseteq Quotes \cup Bookings \cup Jobs
       /\ r.held \/ {j} \subseteq stale'
       /\ OthersOvertaken(p, E)
       /\ Sound(p)'
  BY <1>1, <1>5, CommitFrame DEF IInv
<1>16. /\ trail' \in [Jobs -> SUBSET Event] /\ trail[j] \subseteq trail'[j]
       /\ \A k \in Jobs \ {j} : trail'[k] = trail[k]
  <2>1. CASE r.event = None
    BY <1>5, <2>1 DEF IInv, TypeOK
  <2>2. CASE r.event # None
    <3>1. SystemEvent(r.event) \in Event
      BY <2>2 DEF SystemEvent, Event, Request
    <3>2. trail' = [trail EXCEPT ![j] = @ \cup {SystemEvent(r.event)}]
      BY <1>5, <2>2
    <3> QED BY <3>1, <3>2 DEF IInv, TypeOK
  <2> QED BY <2>1, <2>2
<1>17. TypeOK'
  <2>1. jobs' \in [Jobs -> JobRow]
    BY <1>14 DEF IInv, TypeOK
  <2> QED BY <1>5, <1>15, <1>16, <2>1 DEF IInv, TypeOK
<1>18. jobs'[j] = new /\ \A k \in Jobs \ {j} : jobs'[k] = jobs[k]
  BY <1>14 DEF IInv, TypeOK
<1>19. r.held => /\ r.target # None => CanMove(JobEdges, old.status, r.target)
                 /\ r.profit = NewProfit(old, r.cost, r.revenue)
  BY <1>1, <1>2, <1>3, <1>4 DEF IInv, StillHolds
<1>20. j \notin stale' /\ old.status = "CANCELLED" => status = "CANCELLED"
  BY <1>15, <1>19, JobMoves DEF status, Given
<1>21. j \notin stale' => r.profit = revenue - cost
  BY <1>15, <1>19 DEF NewProfit, cost, revenue
<1>22. status # "ABSENT"
  BY <1>8 DEF JobStatus
<1>23. \A m \in MilestoneStatus :
         Order[m] <= Order[jobs'[j].milestone] => SystemEvent(m) \in trail'[j]
  BY <1>4, <1>13, <1>16, <1>18, JobFacts
<1>24. j \in E /\ old.booking \in E
  OBVIOUS
<1> HIDE DEF E
<1>25. SparesBookings(E) /\ SparesJobs(E) /\ LinksInv' /\ FilesInv'
  BY <1>4, <1>5, <1>13, <1>15, <1>16, <1>18, <1>20, <1>21, <1>22, <1>23, <1>24, JobRows
<1>26. Spares(E) /\ QuotesInv'
  BY <1>5, <1>15, <1>25, QuotesUntouched
<1> QED BY <1>15, <1>17, <1>25, <1>26, StepFrame

LEMMA BeginAdvanceStep ==
  ASSUME IInv, NEW p \in Procs, NEW j \in Jobs, NEW milestone, BeginAdvance(p, j, milestone)
  PROVE  IInv'
<1> DEFINE r == [Idle EXCEPT !.step = "milestone", !.job = j, !.target = milestone]
<1>1. /\ jobs[j].status # "ABSENT" /\ CanMove(MilestoneEdges, jobs[j].milestone, milestone)
      /\ Proceed(p, r)
  BY DEF BeginAdvance
<1>2. /\ milestone \in MilestoneStatus /\ jobs[j].milestone \in DOMAIN MilestoneEdges
      /\ Order[milestone] <= Order[jobs[j].milestone] + 1
  BY <1>1, MilestoneMoves
<1>3. \A m \in MilestoneStatus : Order[m] < Order[milestone] => SystemEvent(m) \in trail[j]
  <2>1. \A m \in MilestoneStatus : Order[m] < Order[milestone] => Order[m] <= Order[jobs[j].milestone]
    BY <1>2, MilestonesOrdered
  <2> QED BY <2>1, JobFacts
<1>4. /\ r = [Idle EXCEPT !.step = "milestone", !.job = j, !.target = milestone]
      /\ r.step = "milestone" /\ r.job = j /\ r.target = milestone /\ r.seen = {}
  BY DEF Idle
<1> HIDE DEF r
<1>5. r \in Request
  BY <1>2, <1>4, IdleType DEF Request, Steps
<1>6. req'[p] = r /\ jobs' = jobs /\ trail' = trail
  BY <1>1 DEF Proceed, tables, IInv, TypeOK
<1>7. Sound(p)'
  BY <1>1, <1>2, <1>3, <1>4, <1>6, FS_EmptySet DEF Sound, WellFormed, StillHolds
<1> QED BY <1>1, <1>5, <1>7, ReadFrame

LEMMA CommitAdvanceStep ==
  ASSUME IInv, NEW p \in Procs, CommitAdvance(p)
  PROVE  IInv'
<1>1. PICK r \in Request : r = req[p]
  BY DEF IInv, TypeOK
<1>2. r.step = "milestone"
  BY <1>1 DEF CommitAdvance
<1>3. PICK j \in Jobs : j = r.job /\ jobs[j].status # "ABSENT"
  BY <1>1, <1>2 DEF IInv, WellFormed
<1>4. /\ r.target \in MilestoneStatus
      /\ \A m \in MilestoneStatus : Order[m] < Order[r.target] => SystemEvent(m) \in trail[j]
  BY <1>1, <1>2, <1>3 DEF IInv, WellFormed
<1>5. PICK old \in JobRow : old = jobs[j]
  BY DEF IInv, TypeOK
<1>6. PICK new \in JobRow : new = [old EXCEPT !.milestone = r.target]
  BY <1>4, MilestonesOrdered DEF JobRow
<1>7. /\ new.status = old.status /\ new.booking = old.booking /\ new.milestone = r.target
      /\ new.profit = old.profit /\ new.revenue = old.revenue /\ new.cost = old.cost
  BY <1>6 DEF JobRow
<1>8. /\ jobs' = [jobs EXCEPT ![j] = new]
      /\ trail' = [trail EXCEPT ![j] = @ \cup {SystemEvent(r.target)}]
      /\ Commit(p, {j}, {})
      /\ UNCHANGED <<quotes, lines, revisions, bookings>>
  BY <1>1, <1>3, <1>5, <1>6 DEF CommitAdvance
<1>9. /\ req' \in [Procs -> Request]
      /\ stale \subseteq stale' /\ stale' \subseteq Quotes \cup Bookings \cup Jobs
      /\ OthersOvertaken(p, {j})
      /\ Sound(p)'
  <2>1. {j} \cup {} = {j}
    OBVIOUS
  <2> QED BY <1>8, <2>1, CommitFrame DEF IInv
<1>10. SystemEvent(r.target) \in Event
  BY <1>4 DEF SystemEvent, Event
<1>11. TypeOK'
  <2>1. jobs' \in [Jobs -> JobRow] /\ trail' \in [Jobs -> SUBSET Event]
    BY <1>8, <1>10 DEF IInv, TypeOK
  <2> QED BY <1>8, <1>9, <2>1 DEF IInv, TypeOK
<1>12. /\ jobs'[j] = new /\ trail'[j] = trail[j] \cup {SystemEvent(r.target)}
       /\ \A k \in Jobs \ {j} : jobs'[k] = jobs[k] /\ trail'[k] = trail[k]
  BY <1>8 DEF IInv, TypeOK
<1>13. \A m \in MilestoneStatus :
         Order[m] <= Order[jobs'[j].milestone] => SystemEvent(m) \in trail'[j]
  <2> SUFFICES ASSUME NEW m \in MilestoneStatus, Order[m] <= Order[r.target]
               PROVE  SystemEvent(m) \in trail'[j]
    BY <1>7, <1>12
  <2>1. m = r.target \/ Order[m] < Order[r.target]
    BY <1>4, MilestonesOrdered
  <2> QED BY <1>4, <1>12, <2>1
<1>14. j \notin stale' => jobs'[j].profit = jobs'[j].revenue - jobs'[j].cost
  BY <1>5, <1>7, <1>9, <1>12, JobFacts
<1>15. trail[j] \subseteq trail'[j]
  BY <1>12
<1>16. SparesBookings({j}) /\ SparesJobs({j}) /\ LinksInv' /\ FilesInv'
  BY <1>5, <1>7, <1>8, <1>9, <1>12, <1>13, <1>14, <1>15, JobRows
<1>17. Spares({j}) /\ QuotesInv'
  BY <1>8, <1>9, <1>16, QuotesUntouched
<1> QED BY <1>9, <1>11, <1>16, <1>17, StepFrame

(* -------------------------- the inductive invariant --------------------- *)

\* In the beginning there is no row and no request has started.
LEMMA InitEstablishes == Init => IInv
<1> SUFFICES ASSUME Init PROVE IInv
  OBVIOUS
<1>1. TypeOK
  <2>1. NoQuote \in QuoteRow /\ NoBooking \in BookingRow
    BY DEF NoQuote, QuoteRow, ApprovalStatus, NoBooking, BookingRow
  <2>2. NoJob \in JobRow
    BY DEF NoJob, JobRow, MilestoneEdges
  <2> QED BY <2>1, <2>2, IdleType DEF Init, StoreInit, TypeOK
<1>2. QuotesInv
  <2>1. Price({}) = 0
    BY SumEmpty DEF Price
  <2>2. \A q \in Quotes : quotes[q] = NoQuote /\ lines[q] = {}
    BY DEF Init, StoreInit
  <2>3. LargePricesReviewed
    BY <2>2, ForwardingMoneyAssumption DEF LargePricesReviewed, NoQuote
  <2>4. PriceMatchesLines
    BY <2>1, <2>2 DEF PriceMatchesLines, NoQuote
  <2> QED BY <2>2, <2>3, <2>4, FS_EmptySet DEF QuotesInv
<1>3. LinksInv
  BY DEF Init, StoreInit, LinksInv, NoBooking, NoJob
<1>4. FilesInv
  <2>1. \A m \in MilestoneStatus : ~ (Order[m] <= Order["NOT_BOOKED"])
    BY DEF MilestoneStatus, Order
  <2>2. \A j \in Jobs : jobs[j] = NoJob
    BY DEF Init, StoreInit
  <2>3. NoInventedMilestones
    BY <2>1, <2>2 DEF NoInventedMilestones, NoJob
  <2>4. CancelledBookingsHaveNoLiveFile
    BY DEF Init, StoreInit, CancelledBookingsHaveNoLiveFile, NoBooking
  <2>5. ProfitMatches
    BY <2>2 DEF ProfitMatches, NoJob
  <2> QED BY <2>3, <2>4, <2>5 DEF FilesInv
<1>5. ASSUME NEW p \in Procs
      PROVE  WellFormed(p) /\ StillHolds(p)
  BY FS_EmptySet DEF Init, StoreInit, Idle, WellFormed, StillHolds
<1> QED BY <1>1, <1>2, <1>3, <1>4, <1>5 DEF IInv

\* Whatever a request does, the invariant survives it.
LEMMA StepPreserves == IInv /\ [Next]_vars => IInv'
<1> SUFFICES ASSUME IInv, [Next]_vars PROVE IInv'
  OBVIOUS
<1>1. ASSUME NEW p \in Procs, BeginOnQuote(p)
      PROVE  IInv'
  BY <1>1, CreateQuoteStep, BeginUpdateQuoteStep, BeginSetStatusStep, BeginVerdictStep,
     MarkQuoteStep DEF BeginOnQuote
<1>2. ASSUME NEW p \in Procs, AdvanceOnQuote(p)
      PROVE  IInv'
  BY <1>2, ReadLinesStep, CommitUpdateQuoteStep, CommitSetStatusStep, CommitVerdictStep
     DEF AdvanceOnQuote
<1>3. ASSUME NEW p \in Procs, BeginOnBooking(p)
      PROVE  IInv'
  BY <1>3, CreateBookingStep, BeginBookStep, BeginUpdateBookingStep, BeginConfirmStep,
     BeginCancelBookingStep DEF BeginOnBooking
<1>4. ASSUME NEW p \in Procs, AdvanceOnBooking(p)
      PROVE  IInv'
  BY <1>4, CommitBookStep, CommitUpdateBookingStep, CommitConfirmStep, CommitCancelBookingStep
     DEF AdvanceOnBooking
<1>5. ASSUME NEW p \in Procs, BeginOnJob(p)
      PROVE  IInv'
  BY <1>5, CreateJobStep, BeginUpdateJobStep, BeginAdvanceStep, AddTrackingEventStep, MarkJobStep
     DEF BeginOnJob
<1>6. ASSUME NEW p \in Procs, AdvanceOnJob(p)
      PROVE  IInv'
  BY <1>6, CommitUpdateJobStep, CommitAdvanceStep DEF AdvanceOnJob
<1>7. CASE UNCHANGED vars
  <2>1. /\ quotes' = quotes /\ lines' = lines /\ revisions' = revisions /\ bookings' = bookings
        /\ jobs' = jobs /\ trail' = trail /\ req' = req /\ stale' = stale
    BY <1>7 DEF vars
  <2>2. TypeOK'
    BY <2>1 DEF IInv, TypeOK
  <2>3. QuotesInv' /\ LinksInv' /\ FilesInv'
    BY <2>1, QuotesFrame, LinksFrame, FilesFrame DEF IInv
  <2>4. ASSUME NEW p \in Procs
        PROVE  Sound(p)'
    <3>1. Spares({})
      BY <2>1 DEF Spares, SparesQuotes, SparesBookings, SparesJobs, LiveJobs
    <3>2. req'[p] = Overtaken({})[p]
      BY <2>1, NobodyOvertaken DEF IInv
    <3>3. Sound(p)
      BY DEF IInv, Sound
    <3> QED BY <3>1, <3>2, <3>3, OthersKeep DEF IInv
  <2> QED BY <2>2, <2>3, <2>4 DEF IInv, Sound
<1> QED BY <1>1, <1>2, <1>3, <1>4, <1>5, <1>6, <1>7, AbortStep DEF Next

\* Every reachable state of any number of requests satisfies the invariant.
THEOREM InductiveInvariant == Spec => []IInv
<1>1. Init => IInv
  BY InitEstablishes
<1>2. IInv /\ [Next]_vars => IInv'
  BY StepPreserves
<1> QED BY <1>1, <1>2, PTL DEF Spec

\* The tables and requests only ever hold values of their types.
THEOREM TypeCorrect == Spec => []TypeOK
<1>1. IInv => TypeOK
  BY DEF IInv
<1> QED BY <1>1, InductiveInvariant, PTL

\* A quotation's price is the price of its lines unless two updates of it
\* interleaved (QuotationsService.update).
THEOREM PriceCorrect == Spec => []PriceMatchesLines
<1>1. IInv => PriceMatchesLines
  BY DEF IInv, QuotesInv
<1> QED BY <1>1, InductiveInvariant, PTL

\* No price at the threshold escapes review, whatever interleaves with the
\* updates, approvals and rejections (requiredApprovalStatus).
THEOREM ReviewCorrect == Spec => []LargePricesReviewed
<1>1. IInv => LargePricesReviewed
  BY DEF IInv, QuotesInv
<1> QED BY <1>1, InductiveInvariant, PTL

\* No live shipment file hangs on a cancelled booking, unless one of the two was
\* written from a read that no longer held (BookingsService.cancel).
THEOREM CancellationCorrect == Spec => []CancelledBookingsHaveNoLiveFile
<1>1. IInv => CancelledBookingsHaveNoLiveFile
  BY DEF IInv, FilesInv
<1> QED BY <1>1, InductiveInvariant, PTL

\* The timeline records every milestone up to the current one, even when
\* advances overwrite each other (JobsService.advanceMilestone).
THEOREM TimelineComplete == Spec => []NoInventedMilestones
<1>1. IInv => NoInventedMilestones
  BY DEF IInv, FilesInv
<1> QED BY <1>1, InductiveInvariant, PTL

\* A job's profit is its revenue less its cost, unless it was computed from a row
\* that another update had changed (JobsService.update).
THEOREM ProfitCorrect == Spec => []ProfitMatches
<1>1. IInv => ProfitMatches
  BY DEF IInv, FilesInv
<1> QED BY <1>1, InductiveInvariant, PTL

\* A set without two different elements has at most one.
LEMMA AtMostOne ==
  ASSUME NEW S, \A x, y \in S : x = y
  PROVE  Cardinality(S) <= 1
<1>1. CASE S = {}
  BY <1>1, FS_EmptySet
<1>2. CASE S # {}
  <2>1. PICK x : S = {x}
    BY <1>2
  <2>2. Cardinality(S) = 1
    BY <2>1, FS_Singleton
  <2> QED BY <2>2
<1> QED BY <1>1, <1>2

\* The unique index lets one quotation book once, whichever way a booking came to
\* name it: booked, created with it, or linked by an edit.
THEOREM QuotationsBookOnce == Spec => []BookedOnce
<1>1. ASSUME IInv, NEW q \in Quotes
      PROVE  Cardinality({b \in Bookings : bookings[b].quote = q}) <= 1
  <2> DEFINE S == {b \in Bookings : bookings[b].quote = q}
  <2>1. q # None
    BY ForwardingNoneAssumption
  <2>2. \A x, y \in S : x = y
    BY <1>1, <2>1 DEF IInv, LinksInv
  <2> HIDE DEF S
  <2>3. Cardinality(S) <= 1
    BY <2>2, AtMostOne
  <2> QED BY <2>3 DEF S
<1>2. IInv => BookedOnce
  BY <1>1 DEF BookedOnce
<1> QED BY <1>2, InductiveInvariant, PTL

\* However many confirmations of a booking run at once, it opens one shipment
\* file, and none before it is confirmed (BookingsService.confirm).
THEOREM ConfirmationCorrect == Spec => []ConfirmedOpensOneFile
<1>1. ASSUME IInv, NEW b \in Bookings
      PROVE  LET files == {j \in Jobs : jobs[j].booking = b}
             IN /\ Cardinality(files) <= 1
                /\ bookings[b].status = "CONFIRMED" => files # {}
                /\ files # {} => bookings[b].status \notin {"ABSENT", "DRAFT"}
  <2> DEFINE S == {j \in Jobs : jobs[j].booking = b}
  <2>1. b # None
    BY ForwardingNoneAssumption
  <2>2. LinksInv
    BY <1>1 DEF IInv
  <2>3. \A x, y \in S : x = y
    BY <2>1, <2>2 DEF LinksInv
  <2>4. /\ bookings[b].status = "CONFIRMED" => S # {}
        /\ S # {} => bookings[b].status \notin {"ABSENT", "DRAFT"}
    BY <2>1, <2>2 DEF LinksInv
  <2> HIDE DEF S
  <2>5. Cardinality(S) <= 1
    BY <2>3, AtMostOne
  <2> QED BY <2>4, <2>5 DEF S
<1>2. IInv => ConfirmedOpensOneFile
  BY <1>1 DEF ConfirmedOpensOneFile
<1> QED BY <1>2, InductiveInvariant, PTL

(* ----------------------------- action properties ------------------------ *)

\* What a step can do to a quotation that it does not leave stale: create it, edit
\* it while it is open, keeping the price a customer has seen, move it along the
\* table once a review allows, or leave its status and price alone.
Created(q) == quotes[q].status = "ABSENT" /\ quotes'[q].status = "DRAFT"

Edited(q) ==
  /\ quotes[q].status \in {"DRAFT", "SENT"} /\ quotes'[q].status = quotes[q].status
  /\ quotes[q].status = "SENT" =>
       \E k \in DOMAIN revisions'[q] : revisions'[q][k].price = quotes[q].price

Moved(q) ==
  /\ CanMove(QuotationEdges, quotes[q].status, quotes'[q].status)
  /\ quotes'[q].price = quotes[q].price
  /\ quotes'[q].status \in {"SENT", "WON"} /\ quotes'[q].status # quotes[q].status =>
       ApprovalAllows(quotes[q].approval)

Kept(q) == quotes'[q].status = quotes[q].status /\ quotes'[q].price = quotes[q].price

\* A commit whose row is not stale afterwards was based on what still held.
LEMMA FreshWrite ==
  ASSUME NEW p, NEW D, NEW W, Commit(p, D, W), NEW x \in D, x \notin stale'
  PROVE  req[p].held
BY DEF Commit

\* The revisions after an edit of a sent quotation include its price.
LEMMA EditKeepsTerms ==
  ASSUME IInv, NEW p \in Procs, CommitUpdateQuote(p), NEW q \in Quotes, q \notin stale'
  PROVE  Edited(q) \/ Kept(q)
<1>1. PICK r \in Request : r = req[p]
  BY DEF IInv, TypeOK
<1>2. r.step = "write"
  BY <1>1 DEF CommitUpdateQuote
<1>3. PICK c \in Quotes : c = r.quote
  BY <1>1, <1>2 DEF IInv, WellFormed
<1> DEFINE price == IF r.worth = None THEN Price(r.seen) ELSE r.worth
<1>4. /\ quotes' = [quotes EXCEPT ![c].price = price,
                                  ![c].approval = RequiredApproval(price, Threshold)]
      /\ revisions' = [revisions EXCEPT ![c] = @ \o r.terms]
      /\ Commit(p, {c}, {})
  BY <1>1, <1>3 DEF CommitUpdateQuote
<1> HIDE DEF price
<1>5. CASE q # c
  BY <1>4, <1>5 DEF Kept, IInv, TypeOK
<1>6. CASE q = c
  <2>1. /\ quotes[q].status \in {"DRAFT", "SENT"}
        /\ quotes[q].status = "SENT" => r.terms # <<>> /\ r.terms[1].price = quotes[q].price
    <3>1. r.held
      BY <1>1, <1>4, <1>6, FreshWrite
    <3> QED BY <1>1, <1>2, <1>3, <1>6, <3>1 DEF IInv, StillHolds
  <2>2. quotes'[q].status = quotes[q].status
    BY <1>4 DEF IInv, TypeOK, QuoteRow
  <2>3. ASSUME quotes[q].status = "SENT"
        PROVE  \E k \in DOMAIN revisions'[q] : revisions'[q][k].price = quotes[q].price
    <3>1. PICK old \in Seq(Revision) : old = revisions[q]
      BY DEF IInv, TypeOK
    <3>2. PICK new \in Seq(Revision) : new = r.terms
      BY DEF Request
    <3>3. revisions'[q] = old \o new
      BY <1>4, <1>6, <3>1, <3>2 DEF IInv, TypeOK
    <3>4. Len(new) \in Nat /\ Len(new) >= 1 /\ Len(old) \in Nat
      BY <2>1, <2>3, <3>2, EmptySeq, LenProperties
    <3>5. /\ Len(old \o new) = Len(old) + Len(new)
          /\ (old \o new)[Len(old) + 1] = new[1]
          /\ old \o new \in Seq(Revision)
      BY <3>4, ConcatProperties
    <3>6. Len(old) + 1 \in DOMAIN (old \o new)
      BY <3>4, <3>5, LenProperties
    <3> QED BY <2>1, <2>3, <3>2, <3>3, <3>5, <3>6
  <2> QED BY <2>1, <2>2, <2>3 DEF Edited
<1> QED BY <1>5, <1>6

\* Winning or sending goes by the table, and past the review.
LEMMA SetStatusMoves ==
  ASSUME IInv, NEW p \in Procs, CommitSetStatus(p), NEW q \in Quotes, q \notin stale'
  PROVE  Moved(q) \/ Kept(q)
<1>1. PICK r \in Request : r = req[p]
  BY DEF IInv, TypeOK
<1>2. r.step = "status"
  BY <1>1 DEF CommitSetStatus
<1>3. PICK c \in Quotes : c = r.quote
  BY <1>1, <1>2 DEF IInv, WellFormed
<1>4. quotes' = [quotes EXCEPT ![c].status = r.target] /\ Commit(p, {c}, {})
  BY <1>1, <1>3 DEF CommitSetStatus
<1>5. CASE q # c
  BY <1>4, <1>5 DEF Kept, IInv, TypeOK
<1>6. CASE q = c
  <2>1. r.held
    BY <1>1, <1>4, <1>6, FreshWrite
  <2>2. /\ CanMove(QuotationEdges, quotes[q].status, r.target)
        /\ r.target \in {"SENT", "WON"} => ApprovalAllows(quotes[q].approval)
    BY <1>1, <1>2, <1>3, <1>6, <2>1 DEF IInv, StillHolds
  <2>3. quotes'[q].status = r.target /\ quotes'[q].price = quotes[q].price
    BY <1>4, <1>6 DEF IInv, TypeOK, QuoteRow
  <2> QED BY <2>2, <2>3 DEF Moved
<1> QED BY <1>5, <1>6

\* So does booking.
LEMMA BookMoves ==
  ASSUME IInv, NEW p \in Procs, NEW b, CommitBook(p, b), NEW q \in Quotes, q \notin stale'
  PROVE  Moved(q) \/ Kept(q)
<1>1. PICK r \in Request : r = req[p]
  BY DEF IInv, TypeOK
<1>2. r.step = "book"
  BY <1>1 DEF CommitBook
<1>3. PICK c \in Quotes : c = r.quote
  BY <1>1, <1>2 DEF IInv, WellFormed
<1>4. r.target \in {"WON", None}
  BY <1>1, <1>2 DEF IInv, WellFormed
<1>5. quotes' = [quotes EXCEPT ![c].status = Given(r.target, @)] /\ Commit(p, {c}, {})
  BY <1>1, <1>3 DEF CommitBook
<1>6. CASE q # c
  BY <1>5, <1>6 DEF Kept, IInv, TypeOK
<1>7. CASE q = c
  <2>1. r.held
    BY <1>1, <1>5, <1>7, FreshWrite
  <2>2. /\ CanMove(QuotationEdges, quotes[q].status, "WON")
        /\ ApprovalAllows(quotes[q].approval)
    BY <1>1, <1>2, <1>3, <1>7, <2>1 DEF IInv, StillHolds
  <2>3. /\ quotes'[q].status = Given(r.target, quotes[q].status)
        /\ quotes'[q].price = quotes[q].price
    BY <1>5, <1>7 DEF IInv, TypeOK, QuoteRow
  <2> QED BY <1>4, <2>2, <2>3 DEF Moved, Kept, Given
<1> QED BY <1>6, <1>7

\* The other steps write no quotation, or a column that no status or price is in.
OtherQuoteStep(p) ==
  \/ \E q \in Quotes : \/ \E w \in Worths \cup {None} : BeginUpdateQuote(p, q, w)
                       \/ \E s \in Decisions : BeginSetStatus(p, q, s)
                       \/ \E v \in {"APPROVED", "REJECTED"} : BeginVerdict(p, q, v)
  \/ ReadLines(p)

LEMMA OtherStepsKeepQuotes ==
  ASSUME NEW p \in Procs,
         \/ OtherQuoteStep(p) \/ BeginOnBooking(p) \/ BeginOnJob(p) \/ AdvanceOnJob(p) \/ Abort(p)
         \/ CommitUpdateBooking(p) \/ CommitCancelBooking(p) \/ \E j \in Jobs : CommitConfirm(p, j)
  PROVE  quotes' = quotes
<1>1. CASE OtherQuoteStep(p)
  BY <1>1 DEF OtherQuoteStep, BeginUpdateQuote, StartUpdate, BeginSetStatus, BeginVerdict,
              ReadLines, Proceed, tables
<1>2. CASE BeginOnBooking(p)
  BY <1>2 DEF BeginOnBooking, CreateBooking, BeginBook, BeginUpdateBooking, BeginConfirm,
              BeginCancelBooking, Proceed, tables
<1>3. CASE BeginOnJob(p)
  BY <1>3 DEF BeginOnJob, CreateJob, BeginUpdateJob, BeginAdvance, AddTrackingEvent,
              RemoveJob, RestoreJob, Proceed, tables
<1>4. CASE AdvanceOnJob(p) \/ Abort(p)
  BY <1>4 DEF AdvanceOnJob, CommitUpdateJob, CommitAdvance, Abort, tables
<1>5. CASE CommitUpdateBooking(p) \/ CommitCancelBooking(p)
  BY <1>5 DEF CommitUpdateBooking, CommitCancelBooking
<1>6. CASE \E j \in Jobs : CommitConfirm(p, j)
  BY <1>6 DEF CommitConfirm
<1> QED BY <1>1, <1>2, <1>3, <1>4, <1>5, <1>6

LEMMA QuoteSteps ==
  ASSUME IInv, [Next]_vars, NEW q \in Quotes \ stale'
  PROVE  Created(q) \/ Edited(q) \/ Moved(q) \/ Kept(q)
<1>1. ASSUME quotes' = quotes
      PROVE  Kept(q)
  BY <1>1 DEF Kept
<1>2. CASE UNCHANGED vars
  BY <1>1, <1>2 DEF vars
<1>3. ASSUME NEW p \in Procs, BeginOnQuote(p)
      PROVE  Created(q) \/ Kept(q)
  <2>1. ASSUME NEW c \in Quotes, NEW w \in Worths, CreateQuote(p, c, w)
        PROVE  Created(q) \/ Kept(q)
    BY <2>1 DEF CreateQuote, Created, Kept, IInv, TypeOK
  <2>2. ASSUME NEW c \in Quotes, RemoveQuote(c) \/ RestoreQuote(c)
        PROVE  Kept(q)
    <3>1. PICK d \in BOOLEAN : quotes' = [quotes EXCEPT ![c].deleted = d]
      BY <2>2 DEF RemoveQuote, RestoreQuote
    <3> QED BY <3>1 DEF Kept, IInv, TypeOK, QuoteRow
  <2> QED BY <1>1, <1>3, <2>1, <2>2, OtherStepsKeepQuotes DEF BeginOnQuote, OtherQuoteStep
<1>4. ASSUME NEW p \in Procs, AdvanceOnQuote(p)
      PROVE  Edited(q) \/ Moved(q) \/ Kept(q)
  <2>1. ASSUME CommitVerdict(p)
        PROVE  Kept(q)
    <3>1. quotes' = [quotes EXCEPT ![req[p].quote].approval = req[p].target]
      BY <2>1 DEF CommitVerdict
    <3> QED BY <3>1 DEF Kept, IInv, TypeOK, QuoteRow
  <2> QED BY <1>1, <1>4, <2>1, EditKeepsTerms, SetStatusMoves, OtherStepsKeepQuotes
          DEF AdvanceOnQuote, OtherQuoteStep
<1>5. ASSUME NEW p \in Procs, AdvanceOnBooking(p)
      PROVE  Moved(q) \/ Kept(q)
  BY <1>1, <1>5, BookMoves, OtherStepsKeepQuotes DEF AdvanceOnBooking
<1>6. ASSUME NEW p \in Procs, BeginOnBooking(p) \/ BeginOnJob(p) \/ AdvanceOnJob(p) \/ Abort(p)
      PROVE  Kept(q)
  BY <1>1, <1>6, OtherStepsKeepQuotes
<1> QED BY <1>2, <1>3, <1>4, <1>5, <1>6 DEF Next

\* A quotation is sent or won only when it needs no review or passed it, unless it
\* changed between the check and the write (setStatus, createFromQuotation).
THEOREM GateCorrect == Spec => GateKept
<1>1. IInv /\ [Next]_vars =>
        \A q \in Quotes \ stale' :
          /\ quotes'[q].status # quotes[q].status
          /\ quotes'[q].status \in {"SENT", "WON"}
          => ApprovalAllows(quotes[q].approval)
  BY QuoteSteps DEF Created, Edited, Moved, Kept
<1> QED BY <1>1, InductiveInvariant, PTL DEF Spec, GateKept

\* The price a customer has seen is in the revisions before it changes, unless two
\* writes overlapped (QuotationsService.update).
THEOREM SeenTermsCorrect == Spec => SeenTermsKept
<1>1. IInv /\ [Next]_vars =>
        \A q \in Quotes \ stale' :
          quotes[q].status = "SENT" /\ quotes'[q].price # quotes[q].price =>
            \E k \in DOMAIN revisions'[q] : revisions'[q][k].price = quotes[q].price
  BY QuoteSteps DEF Created, Edited, Moved, Kept
<1> QED BY <1>1, InductiveInvariant, PTL DEF Spec, SeenTermsKept

\* A quotation that is won, lost or cancelled keeps its price unless two writes of
\* it overlapped (QuotationsService.update).
THEOREM ClosedDealsCorrect == Spec => ClosedDealsKeepPrice
<1>1. IInv /\ [Next]_vars =>
        \A q \in Quotes \ stale' :
          quotes[q].status \in {"WON", "LOST", "CANCELLED"} => quotes'[q].price = quotes[q].price
  BY QuoteSteps DEF Created, Edited, Moved, Kept
<1> QED BY <1>1, InductiveInvariant, PTL DEF Spec, ClosedDealsKeepPrice

\* The same for bookings: each step that writes a status checked it, and any
\* booking that is not stale afterwards was still in the status that was read.
LEMMA BookingSteps ==
  ASSUME IInv, [Next]_vars, NEW b \in Bookings \ stale'
  PROVE  Follows(BookingEdges, bookings[b].status, bookings'[b].status)
<1>1. ASSUME bookings' = bookings
      PROVE  Follows(BookingEdges, bookings[b].status, bookings'[b].status)
  BY <1>1 DEF Follows
<1>2. ASSUME NEW c \in Bookings, NEW q, bookings[c].status = "ABSENT",
             bookings' = [bookings EXCEPT ![c] = [status |-> "DRAFT", quote |-> q]]
      PROVE  Follows(BookingEdges, bookings[b].status, bookings'[b].status)
  BY <1>2 DEF Follows, IInv, TypeOK
<1>3. ASSUME NEW p \in Procs, CommitUpdateBooking(p)
      PROVE  Follows(BookingEdges, bookings[b].status, bookings'[b].status)
  <2>1. PICK q : bookings' = [bookings EXCEPT ![req[p].booking].quote = q]
    BY <1>3 DEF CommitUpdateBooking
  <2> QED BY <2>1 DEF Follows, IInv, TypeOK, BookingRow
<1>4. ASSUME NEW p \in Procs, NEW j \in Jobs, CommitConfirm(p, j)
      PROVE  Follows(BookingEdges, bookings[b].status, bookings'[b].status)
  <2>1. PICK r \in Request : r = req[p]
    BY DEF IInv, TypeOK
  <2>2. r.step = "confirm"
    BY <1>4, <2>1 DEF CommitConfirm
  <2>3. PICK c \in Bookings : c = r.booking
    BY <2>1, <2>2 DEF IInv, WellFormed
  <2>4. bookings' = [bookings EXCEPT ![c].status = "CONFIRMED"] /\ Commit(p, {c}, {})
    BY <1>4, <2>1, <2>3 DEF CommitConfirm
  <2>5. CASE b # c
    BY <2>4, <2>5 DEF Follows, IInv, TypeOK
  <2>6. CASE b = c
    <3>1. r.held
      BY <2>1, <2>4, <2>6, FreshWrite
    <3>2. CanMove(BookingEdges, bookings[b].status, "CONFIRMED")
      BY <2>1, <2>2, <2>3, <2>6, <3>1 DEF IInv, StillHolds
    <3>3. bookings'[b].status = "CONFIRMED"
      BY <2>4, <2>6 DEF IInv, TypeOK, BookingRow
    <3> QED BY <3>2, <3>3 DEF Follows
  <2> QED BY <2>5, <2>6
<1>5. ASSUME NEW p \in Procs, CommitCancelBooking(p)
      PROVE  Follows(BookingEdges, bookings[b].status, bookings'[b].status)
  <2>1. PICK r \in Request : r = req[p]
    BY DEF IInv, TypeOK
  <2>2. r.step = "bookingCancel"
    BY <1>5, <2>1 DEF CommitCancelBooking
  <2>3. PICK c \in Bookings : c = r.booking
    BY <2>1, <2>2 DEF IInv, WellFormed
  <2>4. bookings' = [bookings EXCEPT ![c].status = "CANCELLED"] /\ Commit(p, {c}, {})
    BY <1>5, <2>1, <2>3 DEF CommitCancelBooking
  <2>5. CASE b # c
    BY <2>4, <2>5 DEF Follows, IInv, TypeOK
  <2>6. CASE b = c
    <3>1. r.held
      BY <2>1, <2>4, <2>6, FreshWrite
    <3>2. CanMove(BookingEdges, bookings[b].status, "CANCELLED")
      BY <2>1, <2>2, <2>3, <2>6, <3>1 DEF IInv, StillHolds
    <3>3. bookings'[b].status = "CANCELLED"
      BY <2>4, <2>6 DEF IInv, TypeOK, BookingRow
    <3> QED BY <3>2, <3>3 DEF Follows
  <2> QED BY <2>5, <2>6
<1>6. ASSUME NEW p \in Procs, NEW c \in Bookings, CommitBook(p, c)
      PROVE  Follows(BookingEdges, bookings[b].status, bookings'[b].status)
  BY <1>2, <1>6 DEF CommitBook
<1>7. ASSUME NEW p \in Procs, AdvanceOnBooking(p)
      PROVE  Follows(BookingEdges, bookings[b].status, bookings'[b].status)
  BY <1>3, <1>4, <1>5, <1>6, <1>7 DEF AdvanceOnBooking
<1>8. ASSUME NEW p \in Procs, BeginOnBooking(p)
      PROVE  Follows(BookingEdges, bookings[b].status, bookings'[b].status)
  <2>1. ASSUME NEW c \in Bookings, NEW q \in Quotes \cup {None}, CreateBooking(c, q)
        PROVE  Follows(BookingEdges, bookings[b].status, bookings'[b].status)
    BY <1>2, <2>1 DEF CreateBooking
  <2>2. ASSUME \/ \E q \in Quotes : BeginBook(p, q)
               \/ \E c \in Bookings, link \in Quotes \cup {None, "KEEP"} : BeginUpdateBooking(p, c, link)
               \/ \E c \in Bookings : BeginConfirm(p, c) \/ BeginCancelBooking(p, c)
        PROVE  bookings' = bookings
    BY <2>2 DEF BeginBook, BeginUpdateBooking, BeginConfirm, BeginCancelBooking, Proceed, tables
  <2> QED BY <1>1, <1>8, <2>1, <2>2 DEF BeginOnBooking
<1>9. ASSUME NEW p \in Procs, BeginOnQuote(p) \/ AdvanceOnQuote(p)
      PROVE  bookings' = bookings
  BY <1>9 DEF BeginOnQuote, CreateQuote, BeginUpdateQuote, StartUpdate, BeginSetStatus,
              BeginVerdict, RemoveQuote, RestoreQuote, AdvanceOnQuote, ReadLines,
              CommitUpdateQuote, CommitSetStatus, CommitVerdict, Proceed, tables
<1>10. ASSUME NEW p \in Procs, BeginOnJob(p) \/ AdvanceOnJob(p) \/ Abort(p)
       PROVE  bookings' = bookings
  BY <1>10 DEF BeginOnJob, CreateJob, BeginUpdateJob, BeginAdvance, AddTrackingEvent, RemoveJob,
               RestoreJob, AdvanceOnJob, CommitUpdateJob, CommitAdvance, Abort, Proceed, tables
<1>11. CASE UNCHANGED vars
  BY <1>1, <1>11 DEF vars
<1> QED BY <1>1, <1>7, <1>8, <1>9, <1>10, <1>11 DEF Next

\* A job's status and milestone go by their tables.
JobFollows(j) ==
  /\ Follows(JobEdges, jobs[j].status, jobs'[j].status)
  /\ jobs[j].status # "ABSENT" => Follows(MilestoneEdges, jobs[j].milestone, jobs'[j].milestone)

LEMMA JobSteps ==
  ASSUME IInv, [Next]_vars, NEW j \in Jobs \ stale'
  PROVE  JobFollows(j)
<1>1. ASSUME jobs'[j] = jobs[j]
      PROVE  JobFollows(j)
  BY <1>1 DEF JobFollows, Follows
<1>2. ASSUME NEW k \in Jobs, NEW row, jobs[k].status = "ABSENT", jobs' = [jobs EXCEPT ![k] = row]
      PROVE  JobFollows(j)
  <2>1. CASE j = k
    BY <1>2, <2>1 DEF JobFollows, Follows
  <2>2. CASE j # k
    BY <1>1, <1>2, <2>2 DEF IInv, TypeOK
  <2> QED BY <2>1, <2>2
<1>3. ASSUME NEW k \in Jobs, RemoveJob(k) \/ RestoreJob(k)
      PROVE  JobFollows(j)
  <2>1. PICK d \in BOOLEAN : jobs' = [jobs EXCEPT ![k].deleted = d]
    BY <1>3 DEF RemoveJob, RestoreJob
  <2>2. jobs'[j].status = jobs[j].status /\ jobs'[j].milestone = jobs[j].milestone
    BY <2>1 DEF IInv, TypeOK, JobRow
  <2> QED BY <2>2 DEF JobFollows, Follows
<1>4. ASSUME NEW p \in Procs, CommitUpdateJob(p)
      PROVE  JobFollows(j)
  <2>1. PICK r \in Request : r = req[p]
    BY DEF IInv, TypeOK
  <2>2. r.step = "jobEdit"
    BY <1>4, <2>1 DEF CommitUpdateJob
  <2>3. PICK k \in Jobs : k = r.job
    BY <2>1, <2>2 DEF IInv, WellFormed
  <2>4. PICK old \in JobRow : old = jobs[k]
    BY DEF IInv, TypeOK
  <2>5. PICK q : /\ jobs' = [jobs EXCEPT ![k] = Columns(old, r, q)]
                 /\ Commit(p, {k}, {old.booking})
    BY <1>4, <2>1, <2>3, <2>4 DEF CommitUpdateJob
  <2>6. CASE j # k
    BY <1>1, <2>5, <2>6 DEF IInv, TypeOK
  <2>7. CASE j = k
    <3>1. r.held
      BY <2>1, <2>5, <2>7, FreshWrite
    <3>2. r.target # None => CanMove(JobEdges, old.status, r.target)
      BY <2>1, <2>2, <2>3, <2>4, <3>1 DEF IInv, StillHolds
    <3>3. /\ Columns(old, r, q).status = Given(r.target, old.status)
          /\ Columns(old, r, q).milestone = old.milestone
      BY DEF Columns, JobRow
    <3>4. jobs'[j] = Columns(old, r, q)
      BY <2>5, <2>7 DEF IInv, TypeOK
    <3> QED BY <2>4, <2>7, <3>2, <3>3, <3>4 DEF JobFollows, Follows, Given
  <2> QED BY <2>6, <2>7
<1>5. ASSUME NEW p \in Procs, CommitAdvance(p)
      PROVE  JobFollows(j)
  <2>1. PICK r \in Request : r = req[p]
    BY DEF IInv, TypeOK
  <2>2. r.step = "milestone"
    BY <1>5, <2>1 DEF CommitAdvance
  <2>3. PICK k \in Jobs : k = r.job
    BY <2>1, <2>2 DEF IInv, WellFormed
  <2>4. jobs' = [jobs EXCEPT ![k].milestone = r.target] /\ Commit(p, {k}, {})
    BY <1>5, <2>1, <2>3 DEF CommitAdvance
  <2>5. CASE j # k
    BY <1>1, <2>4, <2>5 DEF IInv, TypeOK
  <2>6. CASE j = k
    <3>1. r.held
      BY <2>1, <2>4, <2>6, FreshWrite
    <3>2. CanMove(MilestoneEdges, jobs[j].milestone, r.target)
      BY <2>1, <2>2, <2>3, <2>6, <3>1 DEF IInv, StillHolds
    <3>3. jobs'[j].milestone = r.target /\ jobs'[j].status = jobs[j].status
      BY <2>4, <2>6 DEF IInv, TypeOK, JobRow
    <3> QED BY <3>2, <3>3 DEF JobFollows, Follows
  <2> QED BY <2>5, <2>6
<1>6. ASSUME NEW p \in Procs, NEW k \in Jobs, CommitConfirm(p, k)
      PROVE  JobFollows(j)
  BY <1>2, <1>6 DEF CommitConfirm
<1>7. ASSUME NEW p \in Procs, BeginOnJob(p)
      PROVE  JobFollows(j)
  <2>1. ASSUME NEW k \in Jobs, NEW q, NEW s, NEW c, NEW v, CreateJob(k, q, s, c, v)
        PROVE  JobFollows(j)
    BY <1>2, <2>1 DEF CreateJob
  <2>2. ASSUME NEW k \in Jobs,
               \/ \E s \in Statuses \cup {None}, link \in Quotes \cup {None, "KEEP"},
                     c \in Costs \cup {None}, v \in Revenues \cup {None} :
                    BeginUpdateJob(p, k, s, link, c, v)
               \/ \E m \in Milestones : BeginAdvance(p, k, m)
               \/ \E label \in Remarks : AddTrackingEvent(k, label)
        PROVE  jobs' = jobs
    BY <2>2 DEF BeginUpdateJob, BeginAdvance, AddTrackingEvent, Proceed, tables
  <2> QED BY <1>1, <1>3, <1>7, <2>1, <2>2 DEF BeginOnJob
<1>8. ASSUME NEW p \in Procs, BeginOnQuote(p) \/ AdvanceOnQuote(p) \/ Abort(p)
      PROVE  jobs' = jobs
  BY <1>8 DEF BeginOnQuote, CreateQuote, BeginUpdateQuote, StartUpdate, BeginSetStatus,
              BeginVerdict, RemoveQuote, RestoreQuote, AdvanceOnQuote, ReadLines,
              CommitUpdateQuote, CommitSetStatus, CommitVerdict, Abort, Proceed, tables
<1>9. ASSUME NEW p \in Procs, BeginOnBooking(p)
      PROVE  jobs' = jobs
  BY <1>9 DEF BeginOnBooking, CreateBooking, BeginBook, BeginUpdateBooking, BeginConfirm,
              BeginCancelBooking, Proceed, tables
<1>10. ASSUME NEW p \in Procs, AdvanceOnBooking(p)
       PROVE  JobFollows(j)
  <2>1. ASSUME \/ \E b \in Bookings : CommitBook(p, b)
               \/ CommitUpdateBooking(p) \/ CommitCancelBooking(p)
        PROVE  jobs' = jobs
    BY <2>1 DEF CommitBook, CommitUpdateBooking, CommitCancelBooking
  <2> QED BY <1>1, <1>6, <1>10, <2>1 DEF AdvanceOnBooking
<1>11. ASSUME NEW p \in Procs, AdvanceOnJob(p)
       PROVE  JobFollows(j)
  BY <1>4, <1>5, <1>11 DEF AdvanceOnJob
<1>12. CASE UNCHANGED vars
  BY <1>1, <1>12 DEF vars
<1> QED BY <1>1, <1>7, <1>8, <1>9, <1>10, <1>11, <1>12 DEF Next

\* Quotations, bookings, jobs and milestones move along their tables, unless a row
\* changed between the check and the write (state-machine.ts and its callers).
THEOREM LifecyclesCorrect == Spec => LifecyclesRespected
<1>1. ASSUME IInv, [Next]_vars
      PROVE  /\ \A q \in Quotes \ stale' :
                  Follows(QuotationEdges, quotes[q].status, quotes'[q].status)
             /\ \A b \in Bookings \ stale' :
                  Follows(BookingEdges, bookings[b].status, bookings'[b].status)
             /\ \A j \in Jobs \ stale' :
                  /\ Follows(JobEdges, jobs[j].status, jobs'[j].status)
                  /\ jobs[j].status # "ABSENT" =>
                       Follows(MilestoneEdges, jobs[j].milestone, jobs'[j].milestone)
  <2>1. \A q \in Quotes \ stale' : Follows(QuotationEdges, quotes[q].status, quotes'[q].status)
    BY <1>1, QuoteSteps DEF Created, Edited, Moved, Kept, Follows
  <2>2. \A b \in Bookings \ stale' :
          Follows(BookingEdges, bookings[b].status, bookings'[b].status)
    BY <1>1, BookingSteps
  <2>3. \A j \in Jobs \ stale' : JobFollows(j)
    BY <1>1, JobSteps
  <2> QED BY <2>1, <2>2, <2>3 DEF JobFollows
<1> QED BY <1>1, InductiveInvariant, PTL DEF Spec, LifecyclesRespected
=============================================================================
