# Shipment status tracker: TLA+ verification project

This directory models the freight-forwarding application: what the services of its back end
(`src/backend`) promise about money, documents, statuses, files, permissions and numbers when many
HTTP requests run at once, and what one tab of its web client (`src/frontend`) shows. The modules
are checked with TLC on small instances. TLAPS proves every safety property that a passing run
checks, for every instance: on the server (payables, receivables, the forwarding chain, sign-in and
permissions, credit control, imports, stored files, reminders and document numbers) any number of
requests, documents, files and servers, and any amounts; in the client any query a tab may follow
and any of the seeded roles.

## 1. The system

A NestJS server (any number of instances) over one PostgreSQL database through Prisma, and a Next.js
client. A request is a chain of `await`ed database statements; the database runs at READ COMMITTED.
Some services lock a row (`SELECT ... FOR UPDATE`) in a transaction and decide under the lock;
others read, decide, and write later without a condition. The behaviour that is hard to test is what
happens between two awaits, between the database and what lies outside it (storage, mail, caches),
and between a tab's cache and the server.

| component | state | operations that change it | what makes it correct |
|---|---|---|---|
| payables (`modules/payables`) | vendor_bills, vendor_payments | create, update, approve, void, recordPayment, reversePayment | running total = sum of live payments; status follows money; no cash on void or draft bills; one live bill per vendor invoice |
| invoices (`modules/invoices`) | invoices, invoice_payments | create, generateFromJob, update, issue, cancel, recordPayment, reversePayment | the same for receipts; no receipt beyond what is collectible |
| notes (`modules/credit-debit-notes`) | credit_debit_notes | create, update, issue, cancel | credits fit the unpaid remainder |
| credit control, exchange rates (`modules/customers/credit.*`, `common/fx.service.ts`, `modules/fx`) | limits, hold, rates | the decision inside `issue`; terms and rates change meanwhile | exposure stays within the limit unless overridden; what cannot be converted is refused |
| bookings, jobs (`modules/bookings`, `modules/jobs`) | bookings, jobs, job_tracking_events | create, createFromQuotation, update, confirm, cancel; create, update, advanceMilestone, addTrackingEvent, remove | one booking per quotation, one job per confirmed booking; no live job on a cancelled booking; milestones leave their trace |
| quotations (`modules/quotations`) | quotations, lines, revisions | create, update, setStatus, approve, reject, remove | the price is that of the lines; what is sent or won was approved; terms a customer saw are kept |
| numbering (`common/sequence.service.ts`) | sequences, the connection pool | next, and the insert that uses the number | no number twice, no gap without a failure; nobody waits for ever |
| notifications (`modules/notifications`) | notifications, lastReminderAt | the scan, mails | reminders are spaced and reach everyone they can; cut-offs are announced daily |
| documents, attachments, recycle bin, storage drivers | rows and stored objects | upload, remove, extract, restore, purge, migration to a bucket | a row has its file, a file its row; temporary copies go |
| sign-in, permissions (`modules/auth`, `modules/permissions`) | failure counter, lock-out, a 30 s cache per process | login; the guard; users and roles | guesses are counted; a right taken away is gone when the caches are |
| imports, rates, masters | customers, vendors, rates | imports row by row, maintenance by hand | a sheet uploaded twice doubles nothing; alternate offers are kept |
| web client (`src/frontend`) | query cache, session, forms, requests in flight | pages, dialogs, buttons | a user's own change is shown; nothing shown is refused; typing is kept; an expired session leaves |
| costing, audit, reports, dashboard, pnl | none read back | pure, write-only or read-only | arithmetic |

Interactions: a quotation becomes a booking (`createFromQuotation` marks it WON), a confirmed
booking becomes a job with milestones, a job is billed (`generateFromJob`), an invoice is issued
under credit control and collected by receipts, credit and debit notes change what is collectible,
and a job's costs arrive as vendor bills. Invoices and notes share the invoice row's lock; nothing
else locks across services. Every document draws its number from a sequence and every request passes
the guard. PROJECT.json lists, under "hazards", each place where an order of steps can hurt, with
the properties that cover it.

## 2. Modules

| module | models | notes |
|---|---|---|
| `StatusRules` | `common/state-machine.ts`, `invoice.calc.ts`, `vendor-bill.calc.ts`, `credit-debit-note.calc.ts`, `approval.logic.ts` | transition tables and settlement arithmetic, no state |
| `CashLedger` | what recording and reversing cash promises on either side of the ledger | abstract; `Payables` and `Receivables` implement it |
| `Payables`, `PayablesProofs` | `payables.service.ts` | every operation; its theorems (section 5) |
| `ReceivablesStore`, `Invoices`, `Notes`, `Receivables`, `ReceivablesProofs` | `invoices.service.ts`, `credit-debit-notes.service.ts` | tables and locks; the operations of each; the two together; theorems |
| `ForwardingStore`, `Quotations`, `Bookings`, `JobFiles`, `Forwarding`, `ForwardingProofs` | `quotations.service.ts`, `bookings.service.ts`, `jobs.service.ts` | tables and indexes; the operations of each; the three together |
| `Credit` | the decision of `issue`: `credit.logic.ts`, `invoices.service.ts`, `fx.service.ts` | each read is a step; other requests change what was read |
| `Numbering` | `sequence.service.ts`, `issuedNoteNet` inside `reversePayment` | host clocks, row locks, connections |
| `Reminders` | `notifications.service.ts` | overlapping scans, days, mail that fails |
| `FileStore` | `documents.service.ts`, `ocr.service.ts`, attachments, storage drivers, purge, `migrate-uploads-to-s3.ts` | a file is a row and an object |
| `SignIn` | `auth.service.ts` | failure counter and lock |
| `Routes`, `Access` | the controllers' permissions, the seeded roles; the guard, its caches, users and roles | |
| `Imports` | `imports.service.ts`, `excel-importer.service.ts` | |
| `Server` | constants these share | |
| `Office` | the parts from `Credit` to `Imports` side by side | see below |
| `CreditProofs`, `FileStoreProofs`, `OfficeProofs` | | theorems about the parts of `Office`: credit control; stored files; sign-in and permissions, reminders, imports, numbers and the types of all |
| `SumLemmas` | | what `SumOf` returns when a row is added, removed or changed; used by the proofs on money |
| `Screens`, `Client`, `ClientProofs` | pages and dialogs of the web client; a tab with its cache, session and forms | its theorems |
| `MCPayables`, `MCReceivables`, `MCForwarding`, `MCOffice`, `MCClient` | | instances for TLC |

### How the code becomes actions

* A **request** in flight (`Procs`; `Officers`, `Clerks`, `Logins`, `Visits`, `Callers`, `Uploads`,
  `Scans` in the other parts) has a record of where its handler waits and of everything it has read
  and will still use. A handler is cut where another request can change what was read: after an
  unlocked read, after taking a row lock, before the commit.
* `LockAndRead` / `LockAndProceed` is `SELECT ... FOR UPDATE`: it waits until the row is free and
  returns the row as it is then. An `UPDATE` or a foreign-key check of a request without the lock
  waits for it too (`Unlocked` in the commit actions).
* What a transaction writes becomes visible at its **commit**, in one action. Where the code reads
  its own uncommitted write (the sum of the remaining payments after flagging one), the sum is taken
  over the rows without that payment.
* `Abort` (`LoginAbort`, `FileAbort`, `VisitAbort`, `BreakImport`, `Expire`) ends a request between
  two of its steps: a rejection, an exception, a timeout, a lost connection. Nothing of its
  transaction remains and its lock is released. Every early `throw` of the code is a missing guard
  conjunct plus `Abort`. Where more than one request is lost when a server stops, there is a crash
  action (`Crash`, `Halt`): what is stored stays, temporary copies and queues are gone.
* **Money.** Stored amounts are whole cents. Amounts in a request of `Payables` and `Receivables`
  are quarter cents, the least that separates amounts that round to nothing, round up, or are exact;
  the code rounds them to cents (`round2`, and the DECIMAL(14,2) columns). Binary floating point is
  not modelled, and neither is the code's 1e-6 tolerance: on cents it changes nothing. `Credit`
  counts in whole units and whole-number rates. Sums count units (`SumOf`), so that the library's
  facts on cardinality are facts on sums; a sum of amounts of either sign (`Total`, for balances of
  overpaid invoices) is the sum of the positive ones less that of the negative ones.
* Lines, taxes and currencies are represented by the totals they add up to. A handler that computes
  a total from a body picks any total of a small set.
* **Unique indexes** are checked when the row is written, over committed rows, soft-deleted ones
  included, NULL excepted. A handler that looks for an existing row first only to answer politely
  has no step for it.
* **Quotation lines** are sets of batches, one for each body that brought lines: two updates at READ
  COMMITTED each delete the lines they can see and insert their own. The price is what the lines are
  worth; cost, discounts, charges and tax are left out.
* **Time** in `SignIn`, `Access` and `Reminders` is a counter of ticks or days. A query takes less
  than a tick (`Tick` waits for a cache to be filled with what was read), which is what bounds by
  how much an entry outlives a change; without it a fill could be arbitrarily late.
* **Storage** (`FileStore`): the drivers swallow a failed deletion, so `Unlink` either removes the
  object or does not, and the caller goes on. Keys are random and never drawn again.
* **The client** follows one query key at a time (`look`), with every page and dialog that mounts
  the key or leads there, and any seeded role. `Screens` has what each component queries, which
  tables the answer is drawn from, which buttons write which tables and which keys they invalidate.
  `entry.missed` are the tables this tab has written since the cached answer was read, `entry.lacks`
  the same as long as the user looks at it.
* **What others add to an exposure** (`upset` in `Credit`) is counted for each issuing request since
  it read the customer's terms: in the currency of each invoice until the request reads the rates,
  converted by those rates then, and in the base currency afterwards.
* **History variables** (`lateEdits`, `stale`, `upset`, `guesses`, `recent`, `doubled`, `disturbed`,
  `severed`, `leaked`, `doubtful`, `lost`, `skewed`, ...) remember which documents were written from
  a read that no longer held, and which failures happened. They influence nothing; a property that
  only holds without such an event names it, so that everything else that goes wrong is a violation.

### Office

`SignIn`, `Access`, `Credit`, `Imports`, `FileStore`, `Reminders` and `Numbering` share no table
with one another: each stands for other rows and other requests. A behaviour of `Office` moves one
of them, `part`, picked at the start. The product of seven state spaces would show nothing that
their sum does not, as no action of one reads or writes what belongs to another.

## 3. Runs

Passing runs:

| run | instance | shows |
|---|---|---|
| `payables_all` | 2 requests, 2 bills, 2 payments, 1 vendor, 2 numbers (one once money has moved), total 2 cents, amounts 1/4, 1 and 2 cents; fairness | running total, no stranded cash, status follows money, live numbers unique, only reversal goes back, refinement of `CashLedger`; every lock is released again |
| `receivables_all` | 2 requests, 1 invoice, 2 receipts, 2 notes, 1 job (two receipts and a note, or two notes, at a time: `FewRows`), amounts 1 and 2 cents | the inductive invariant with types and running total, status and cash, the same refinement, receipts and credits within what is left |
| `forwarding_deals` | 2 requests, 1 quotation, 2 bookings, bodies worth 1 or 2, threshold 2, 1 revision number | price and lines agree, large prices are reviewed, nothing is sent or won unapproved, seen terms are kept, closed deals keep their price, one booking per quotation |
| `forwarding_shipments` | 2 requests, 1 booking, 2 jobs, 2 statuses, 2 milestones, a manual event labelled like a milestone | a confirmed booking has exactly one file, a cancelled one no live file; the timeline; profit; all lifecycles |
| `office_safety` | per part: 2 sign-ins and a lock after 2 failures; 2 visits, 1 cache; 2 issuing requests, 2 invoices, 2 currencies, 1 change by others; 2 imports of up to 2 rows; 2 requests on 1 storage key, a job and a customer; 2 scans over 3 days, 1 crash; 2 requests for numbers, 2 hosts, 2 years | one promise per part (section 4) |
| `office_live` | a document to recognise; two debtors, one of whom cannot be mailed, 2 scans, 1 crash; 2 requests at 2 connections | recognition answers, every debtor who can be reached is reminded, every request ends |
| `client` | every query key of the client, every seeded role | own writes are shown, nothing that is shown is refused, typing is kept, an expired session leaves |

Runs that exhibit a disagreement between the code and what its comments say:

| run | counterexample |
|---|---|
| `receivables_overcollect` | a receipt reads the note net; a credit note is issued; the receipt locks and is accepted against the old net |
| `forwarding_unapproved` | a quotation is created PENDING; a job is created with its id in the body |
| `forwarding_backwards` | two requests read NOT_BOOKED; one advances to BOOKED and on to GATED_IN; the other writes BOOKED |
| `credit_drafts` | a debit note is issued against a draft invoice; the decision on the invoice counts its total alone, and issuing it takes the exposure past the limit |
| `client_reverts` | a quotation is edited, saved and edited again within the cache's life: the form starts from the copy before the save |

**Bounds.** Each race here needs two requests, and the shared resource is one row, so one or two
documents are enough; the numbers of bills need a void one beside its replacement. Rows are never
deleted in the money models, so the sets `Bills`, `Payments`, ... bound how many documents a
behaviour creates. Counters are bounded by `Revisions`, `MaxFailed`, `MaxChanges`, `MaxLength`,
`MaxRows`, `LastYear`, `MaxDraws`, `Horizon` and `MaxCrashes`. One storage key is enough because no
action relates two keys except the queue of the recogniser. One change by others is what
`office_safety` has room for in `Credit`; its theorem covers any number of them. The constraints of
the runs: `OneTopic` and `OneStage` let a forwarding behaviour follow one question, `FewRows` allows
an invoice two receipts and a note, or two notes, and a job is billed while there is at most one of
these, `PaidWithOneNumber` keeps the second vendor number to the time before the first payment,
`OneTable` fills one of two tables that never meet, `PlainStart` starts with an invoice in each of
the currencies, of one amount, and a customer without hold (amounts and hold change later). The live
run is smaller (two days, one number, no sailings), as TLC checks liveness on the whole graph
without symmetry. The forwarding runs draw bodies from `Decisions`, `Statuses`, `Milestones`, ...; a
run empties those its question does not involve. The amount that rounds to nothing is in the
payables run and in its proofs; `Receivables` uses the same arithmetic (`StatusRules`). Deadlock is
checked in the payables, receivables and forwarding runs; the others may stop when a bound on time
is reached.

**Fairness.** None is assumed of the arrival of requests, except of scans.

* `Payables`: weak fairness of `Advance(p) \/ Abort(p)` per request. A request in flight continues,
  is rejected, or is ended by Prisma's transaction timeout or the loss of its connection.
* `Office`: a worker of the recogniser is made or refused (`StartWorker`: the promise of
  `createWorker` settles; this is an assumption about the library), and the 25-second timer of a
  recognition expires (`GiveUp`); recognition itself may hang. The scheduler starts a scan every
  thirty minutes and a scan goes on (`ScanStep`; a mail is accepted or refused). A request for a
  number proceeds or times out (`CallStep`).
* `Client`: the browser keeps the timer of an open tab running (`ShellPolls`).

## 4. Properties worth knowing

* `PaidMatchesLedger` (in `IInv` for receivables) is what the comments of `reversePayment` and
  `recordPayment` are about: `amountPaid` is a stored sum, kept by operations that each compute it
  from what they read.
* `KeepsLedger`: `Payables` and `Receivables` implement `CashLedger`. The stored totals and the
  trail of payments take one abstract step when a payment or a reversal commits, and stutter
  otherwise: a recomputed sum takes off exactly the reversed amount, and no approval, void, edit or
  cancellation writes back a total it had read.
* `LiveNumbersUnique`, `BookedOnce` and `ConfirmedOpensOneFile` hold because of the unique indexes:
  every check of the handlers can be stale.
* `LargePricesReviewed` holds without exemption: approval is recomputed with the price in one
  statement. That the *approved* price is the one in force is not promised.
* `NoInventedMilestones` holds even where milestones go backwards.
* `PriceMatchesLines`, `GateKept`, `SeenTermsKept`, `ClosedDealsKeepPrice`, `ProfitMatches`,
  `CancelledBookingsHaveNoLiveFile` and `LifecyclesRespected` exempt rows in `stale`: these services
  lock nothing, and without the exemption each of them fails. So do `StatusMatchesCash`,
  `ReceiptWithinCollectible` and `CreditWithinUnpaid` for documents written from a stale read.
* `CreditControlled`: without an override the exposure ends within the limit that was read, but for
  what others added meanwhile (a second invoice that passed the same check) and notes issued against
  the draft; and if nothing changed, never on hold or with a rate missing. What others add before
  the rates are read must be valued at the rates that are read, not at those in force when it was
  added: with an overpaid invoice refunded before, and a rate raised after, the latter explains less
  than the exposure grows.
* `NumbersFresh`: unique and without unexplained gaps, unless the clocks of two hosts disagree about
  the year: the host behind sets the count back, and its numbers are refused by the unique indexes.
* `FilesAccounted`: a row without its object is one whose removal or purge has gone for the object,
  or one the migration script did not list (attachments are never listed); an object without its row
  is left by a failure, an interrupted upload, or an upload that raced a purge. A purge that read
  the bin before a restore deletes the restored row.
* `ScansKeepPace`: a debtor is reminded at most once in the period unless a crash came between the
  mail and its record or two scans worked on the invoice at a time; a cut-off in its window is
  announced each day.
* `SheetsStoredOnce`: doubles come only from two imports at a time, the recycle bin, or work by
  hand.
* `LockoutHolds`, `RevocationTakesHold`: how much concurrent guesses and caches can bend the rule.
* `OwnWritesShown` and `NothingRefused` go through every component of the client and every role.
  That a button refreshes what it writes is a fact about one component; that its effect is on the
  screen is one about the cache, the fetches on their way and where the user has gone meanwhile.
* `CallsEnd`: reversals hold a connection and ask for another. With every connection held that way
  they wait for one another until the transaction timeout; it is the timeout that answers them.

Observed while modelling, and outside the properties: the credit report leaves out a customer
exactly at the limit, whose next invoice is refused; a statement contains standalone debit notes
that the exposure does not; an import of rates broken off in a sheet skips the remaining alternates
of a lane when it is retried; a tariff from Excel overwrites any rate of the lane with its date,
whatever date that had; saving the settings refreshes only two of the keys that depend on them;
blank fields of an edit are not sent, so a value cannot be cleared; an upload refused for an expired
session does not lead to the login page; sign-out keeps the cached answers until the next page load.

## 5. Proofs

Each theorem holds for every value of the constants that meets the named assumptions of its modules:
any number of requests, documents, files, servers and days, and any amounts. TLC evaluates the
assumptions in every run. They say that `None` is no value of the model, that amounts, limits, rates
and bounds are natural numbers, that what is summed or counted is finite (payments, receipts, notes,
invoices of a customer, sign-ins), and that a role is given permissions that exist. Those of
`Client` are described below.

| module | invariant | properties that follow |
|---|---|---|
| `PayablesProofs` | `InductiveInvariant`: `IInv` | `TypeCorrect`, `LedgerCorrect` (`PaidMatchesLedger`), `NoStrandedCash` (`CashOnPostedBillsOnly`), `NumbersUnique` (`LiveNumbersUnique`), `StatusCorrect` (`StatusMatchesMoney`), `OnlyReversalGoesBack` (`BackwardOnlyByReversal`), `TrailKept` (`CashTrailKept`), `ImplementsLedger` (`KeepsLedger`) |
| `ReceivablesProofs` | `InductiveInvariant`: `IInv` | `TypeCorrect`, `LedgerCorrect` (`PaidMatchesLedger`), `StatusCorrect` (`StatusMatchesCash`), `OnlyReversalGoesBack`, `ReceiptsFit` (`ReceiptWithinCollectible`), `CreditsStayWithinTotal` (`CreditWithinUnpaid`), `ImplementsLedger` (`KeepsLedger`) |
| `ForwardingProofs` | `InductiveInvariant`: `IInv` | `TypeCorrect`, `PriceCorrect`, `ReviewCorrect`, `CancellationCorrect`, `TimelineComplete`, `ProfitCorrect`, `QuotationsBookOnce`, `ConfirmationCorrect`, `GateCorrect`, `SeenTermsCorrect`, `ClosedDealsCorrect`, `LifecyclesCorrect`: every property of the two forwarding runs |
| `CreditProofs` | `CreditInvariant` | `CreditCorrect` (`CreditControlled`) |
| `FileStoreProofs` | `FilesInvariant` | `FilesCorrect` (`FilesAccounted`) |
| `OfficeProofs` | `SignInInvariant`, `AccessInvariant`, `RemindersInvariant`, `ImportsInvariant`, `NumbersInvariant` | `LockoutCorrect` (`LockoutHolds`), `RevocationCorrect` (`RevocationTakesHold`), `RemindersCorrect` (`ScansKeepPace`), `ImportsCorrect` (`SheetsStoredOnce`), `NumbersCorrect` (`NumbersFresh`), `OfficeTypesCorrect` (`OfficeTypeOK`) |
| `ClientProofs` | `ClientTyped`, `Accounted` | `ClientTypesCorrect`, `TypingIsKept` (`TypingKept`), `NothingIsRefused` (`NothingRefused`), `OwnWritesAreShown` (`OwnWritesShown`) |

The pattern is the same throughout. What a run checks about the tables is not inductive, because a
step that commits uses what its request read earlier. The invariant adds what each request in flight
still relies on; it is shown to hold at the start and to be kept, one lemma per action, by the
request that moves and for the requests that do not.

**Payables.** `RowFresh`: a request in a locked step holds the lock of its bill and its copy of the
row is current. `Promises`: what it has checked still holds (the amount fits, no live payment was
counted, the sum of the remaining payments is right). The lock gives both: every action that writes
a bill either holds its lock or requires it to be free, and `update`, which re-checks nothing, is
accounted for by `lateEdits`. The refinement rests on the same invariant: `CommitPay` is `Record`,
since the row under the lock is the current one, and `CommitReversal` is `Reverse`, since the sum
that `Promises` remembers is the running total less the reversed payment.

**Receivables.** The same two parts, `InvoicePromises` and `NotePromises`, and `NotesHaveInvoices`:
a note keeps its type and its invoice, and a credit note has one. `CreditWithinUnpaid` needs that
the room found for a credit note is still there when it is written: the lock of the invoice excludes
receipts and other notes. Where a note of the invoice was written from a read that no longer held
(`NotesHeld` is false), nothing is promised.

**Forwarding.** Nothing is locked here, so there are two kinds of promise: `WellFormed`, which holds
whatever others do (the row exists, the milestones before the target are in the trail, which only
grows), and `StillHolds`, which holds while no row the request is about was written by another
(`held`); a commit that is not `held` puts its row into `stale`. What the unique indexes give
(`BookedOnce`, `ConfirmedOpensOneFile`) needs neither.

**Sign-in and permissions.** The wrong passwords since the last lock or reset are those the row has
counted, and the row passes `MaxFailed` by at most one for each sign-in that has counted and not yet
locked and one for each crash in between. What a cache holds until `expires`, its role had at some
time within `TTL` before; what a request is about to cache, the role had in this tick.

**Credit control.** The decision is drawn from four reads. For each request, as far as it has got,
the invariant compares what it has read with what is there: a draft's own notes, and what others
added to each invoice it has read or missed, is in `upset` (`DraftTold`, `AddedTold`, each invoice
in its own currency); once the rates are read, the exposure exceeds what was read by no more than
`more` (`MissingTold`, a sum in the base currency); a decision without an override found that within
the limit (`LimitTold`). `ReadsHold`: while nothing has changed, what was read is what is there.
The lemmas on sums of amounts of either sign come first in the module.

**Stored files.** What each request can rely on (`Entitled`): nobody else knows the key it uploads
to, and the object is there once it is saved; the object of a row it deletes is gone, or its driver
kept it (`leaked`); a purge has removed, or has on its list, every object of its job, and what it
purges is not live, unless it was revived since. Of the migration (`MovingInv`, `CopiesAccounted`):
a document it is through with is on the bucket or gone, and the bucket has only copies of objects
with a row. Of the recogniser (`QueueInv`): each request in its queue waits there, once.

**Reminders.** A scan's copy of the latest reminder is right, unless it knows of another scan that
works on the invoice, or a crash came between the mail and its record. **Imports.** An import has
seen each customer that is there, or a double of it is explained; the rate it found is on the lane
still, or gone; what its sheet has so far for a lane without rates before is stored. **Numbers.**
Who reads the sequence holds its lock and what it has read is what the row says; unless a clock was
behind, every number that was drawn comes before the next one. `OfficeTypesCorrect` adds that the
pool of connections is never exceeded, and that a row is locked only by the transaction that asked
for it.

**Web client.** What a tab does is proved; what the tables of `Screens` and `Routes` say is assumed
by name and decided by TLC. The tables are written out in full (every component of the client,
every route, every seeded role), so TLC's evaluation is complete and does not depend on the
constants of a run. There are three such facts, each about a component or a button in the tabs a
role can bring about (`TabsOf`): no dialog opens three deep (`DialogsAssumption`); what a component
asks for is granted to a role that can get to it (`RightsAssumption`); a button pressed while a
query is mounted refreshes the query, or closes so that nothing of the query is left, or writes
nothing the query shows on that page (`ButtonsAssumption`). None of them speaks of the cache, of a
request, or of time.

`ClientTyped` has, besides the types, that the tab is where its role can be (`tab \in Tabs`, kept by
links, dialogs, sign-in and sign-out), that the request in flight was offered in such a tab, and
that a form is there exactly with its dialog. `NothingRefused` follows with `RightsAssumption`, and
`TypingKept` because a step that leaves page and dialogs alone cannot take the form away.
`Accounted` is the invariant behind `OwnWritesShown`: whatever the cached answer, or the one on its
way, lacks while the user looks at it, either nothing on this page shows (`Unseen`), or the request
in flight wrote and its success will refresh (`Pending`); or a fetch is on its way that lacks
nothing of the kind and will replace the answer. Both answers are needed, as one that was read
before the write may arrive after the success. The step that matters is `Succeeds`, where what was
pending must be fetched anew, be gone from the screen, or be unseen.

What proving has changed: `CreditControlled` was stated with one value for what others add, and was
false for two or more changes (section 4); `Receivables.IInv` gained `NotesHaveInvoices`. `Client`
took its components from a copy in `look`; it now looks them up, which made where a tab can be
independent of the query it follows (the states are the same, one for one).

Only model-checked:

* Liveness (`LocksReleased`, `RecognitionAnswered`, `EveryDebtorReminded`, `CallsEnd`,
  `ExpiredSessionLeaves`): fairness and ENABLED are out of the prover's reach.
* The disagreements of section 3, which are counterexamples.

`IInv` of `Payables` and `Forwarding`, `TypeOK` and `CashTrailKept` of `Payables` and `ClientTypeOK`
are proved and no run repeats them.

## 6. Plan

Done: the modules of section 2, the runs of section 3, and a theorem for each safety property that a
passing run checks. What could follow: two tabs that share a session; the invoice of a job as a
promise of its own, once the guard of `generateFromJob` has an index or a lock behind it.

## 7. Not modelled

* Costing, the pricing of lines, tax with exempt lines, the scoring of rate comparisons: sequential
  arithmetic on one request's data. The models keep totals.
* The audit trail: written after the commit, best effort, and read by nothing.
* Reports, dashboard, profit and loss, statements, aging and lists: they only read. Their routes are
  in `Routes`, and the client's queries of them in `Screens`.
* HTTP transport, tokens and password hashing, spreadsheet and text parsing, mail transport, file
  formats of exports, configuration and health checks. `email` of a quotation sends whatever its
  approval says and changes nothing.
* Marking notifications as read, ratings, the services catalogue, settings: single statements
  nothing else depends on.
* Purging the other entities of the recycle bin: one conditional delete.
* In the client: what forms compute before they are sent, layout, file downloads, two tabs sharing
  one session.
