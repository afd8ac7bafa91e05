------------------------------ MODULE Reminders ------------------------------
(***************************************************************************)
(* The notification scan (notifications.service.ts): alerts of the         *)
(* pipeline, overdue invoices with their reminder mails, and the cut-offs  *)
(* of bookings.  A scan takes its time once, reads each list once and works *)
(* it off row by row; the scheduler and users start scans that may overlap. *)
(* Time is counted in days.                                                *)
(***************************************************************************)
EXTENDS Integers, Server

CONSTANTS Scans,          \* scans in flight
          Debtors,        \* overdue invoices
          Unreachable,    \* those of a customer whose address refuses mail
          Sailings,       \* bookings with a cut-off
          Quotes,         \* quotations about to expire
          Deadline,       \* day of each cut-off and expiry
          Gap,            \* days between two reminders
          Ahead, Behind   \* the days a cut-off is announced before and after it

\* Ids of different tables differ; a day is a day.
ASSUME RemindersAssumption ==
  /\ Horizon \in Nat \ {0} /\ Gap \in Nat /\ None \notin Nat
  /\ Debtors \intersect Sailings = {} /\ (Debtors \union Sailings) \intersect Quotes = {}

VARIABLES day,
          alerts,         \* the periods for which an entity has its alert
          open, reminded, scan,
          nagged,         \* history: the latest day on which a cut-off got a new alert
          mailed,         \* history: the latest reminder of an invoice that went out
          doubtful,       \* history: invoices whose reminder was not recorded, or sent by
                          \* two scans at a time
          halts           \* history: crashes

reminderVars == <<day, alerts, open, reminded, scan, nagged, mailed, doubtful, halts>>

Resting == [at |-> "idle", now |-> 0, list |-> {}, row |-> None, others |-> {}]

Period(kind, d) == IF kind = "weekly" THEN d \div 7 ELSE IF kind = "daily" THEN d ELSE 0

RemindersInit ==
  /\ day = 1
  /\ alerts = [x \in Debtors \union Sailings \union Quotes |-> {}]
  /\ open = [i \in Debtors |-> TRUE]
  /\ nagged = [b \in Sailings |-> None]
  /\ reminded = [i \in Debtors |-> None]
  /\ scan = [s \in Scans |-> Resting]
  /\ mailed = [i \in Debtors |-> None]
  /\ doubtful = {} /\ halts = 0

\* push: the unique dedupe key keeps one alert per entity and period.
Push(x, kind, s) == alerts' = [alerts EXCEPT ![x] = @ \union {Period(kind, scan[s].now)}]

-----------------------------------------------------------------------------
\* Alerts first: quotations that expire soon; rates, jobs past their ETA, low margins and high
\* costs alike.
StartScan(s) ==
  /\ scan[s].at = "idle"
  /\ scan' = [scan EXCEPT ![s] = [Resting EXCEPT !.at = "overdue", !.now = day]]
  /\ alerts' = [x \in DOMAIN alerts |->
                  IF x \in Quotes /\ Deadline[x] \in day .. day + Ahead
                  THEN alerts[x] \union {Period("once", day)} ELSE alerts[x]]
  /\ UNCHANGED <<day, open, reminded, nagged, mailed, doubtful, halts>>

BeingRecorded == {scan[s].row : s \in {t \in Scans : scan[t].at = "record"}}

\* The overdue invoices are read with the time of their last reminder.
ReadOverdue(s) ==
  /\ scan[s].at = "overdue"
  /\ scan' = [scan EXCEPT ![s].at = "row", ![s].others = BeingRecorded,
                          ![s].list = {[invoice |-> i, last |-> reminded[i]] :
                                         i \in {j \in Debtors : open[j]}}]
  /\ UNCHANGED <<day, alerts, open, reminded, nagged, mailed, doubtful, halts>>

StaleByPeriod(last, now) == last = None \/ now \div (Gap + 1) # last \div (Gap + 1)

ReminderStale(last, now) == last = None \/ now - last > Gap

\* An invoice of the list: an alert, and a mail if the last one is old enough.
TakeRow(s) ==
  /\ scan[s].at = "row"
  /\ \E r \in scan[s].list :
       /\ Push(r.invoice, "weekly", s)
       /\ scan' = [scan EXCEPT ![s].list = @ \ {r},
                     ![s].row = IF ReminderStale(r.last, scan[s].now) THEN r.invoice ELSE None,
                     ![s].at = IF ReminderStale(r.last, scan[s].now) THEN "mail" ELSE "row"]
  /\ UNCHANGED <<day, open, reminded, nagged, mailed, doubtful, halts>>

\* The mail goes out, a mail that another scan has sent meanwhile included.
SendMail(s) ==
  LET i == scan[s].row
  IN /\ scan[s].at = "mail"
     /\ i \notin Unreachable
     /\ mailed' = [mailed EXCEPT ![i] = scan[s].now]
     /\ doubtful' = IF i \in scan[s].others THEN doubtful \union {i} ELSE doubtful
     /\ scan' = [t \in Scans |-> IF t = s THEN [scan[t] EXCEPT !.at = "record"]
                                 ELSE IF scan[t].at \in {"row", "mail", "record"}
                                      THEN [scan[t] EXCEPT !.others = @ \union {i}] ELSE scan[t]]
     /\ UNCHANGED <<day, alerts, open, reminded, nagged, halts>>

MailFailsScan(s) ==
  /\ scan[s].at = "mail"
  /\ scan[s].row \in Unreachable
  /\ scan' = [scan EXCEPT ![s] = Resting]
  /\ UNCHANGED <<day, alerts, open, reminded, nagged, mailed, doubtful, halts>>

\* A refused mail is logged; the scan goes on with the next invoice.
MailFails(s) ==
  /\ scan[s].at = "mail"
  /\ scan[s].row \in Unreachable
  /\ scan' = [scan EXCEPT ![s].at = "row", ![s].row = None]
  /\ UNCHANGED <<day, alerts, open, reminded, nagged, mailed, doubtful, halts>>

RecordReminder(s) ==
  /\ scan[s].at = "record"
  /\ reminded' = [reminded EXCEPT ![scan[s].row] = scan[s].now]
  /\ scan' = [scan EXCEPT ![s].at = "row", ![s].row = None]
  /\ UNCHANGED <<day, alerts, open, nagged, mailed, doubtful, halts>>

InWindow(b, now) == Deadline[b] \in now - Behind .. now + Ahead

ReadCutoffs(s) ==
  /\ scan[s].at = "row" /\ scan[s].list = {}
  /\ scan' = [scan EXCEPT ![s].at = "cutoff", ![s].row = None, ![s].others = {},
                          ![s].list = {b \in Sailings : InWindow(b, scan[s].now)}]
  /\ UNCHANGED <<day, alerts, open, reminded, nagged, mailed, doubtful, halts>>

TakeCutoff(s) ==
  /\ scan[s].at = "cutoff"
  /\ \E b \in scan[s].list :
       /\ Push(b, "daily", s)
       /\ nagged' = IF alerts' = alerts THEN nagged ELSE [nagged EXCEPT ![b] = day]
       /\ scan' = [scan EXCEPT ![s].list = @ \ {b}, ![s].others = @ \union {b}]
  /\ UNCHANGED <<day, open, reminded, mailed, doubtful, halts>>

EndScan(s) ==
  /\ scan[s].at = "cutoff" /\ scan[s].list = {}
  /\ scan' = [scan EXCEPT ![s] = Resting]
  /\ UNCHANGED <<day, alerts, open, reminded, nagged, mailed, doubtful, halts>>

-----------------------------------------------------------------------------
\* The invoice is paid.
Settle(i) ==
  /\ open[i]
  /\ open' = [open EXCEPT ![i] = FALSE]
  /\ UNCHANGED <<day, alerts, reminded, scan, nagged, mailed, doubtful, halts>>

NextDay ==
  /\ day < Horizon
  /\ day' = day + 1
  /\ UNCHANGED <<alerts, open, reminded, scan, nagged, mailed, doubtful, halts>>

\* A crash ends every scan; a reminder sent and not recorded is forgotten.
Halt ==
  /\ halts < MaxCrashes
  /\ halts' = halts + 1
  /\ scan' = [s \in Scans |-> Resting]
  /\ doubtful' = doubtful \union BeingRecorded
  /\ UNCHANGED <<day, alerts, open, reminded, nagged, mailed>>

ScanStep(s) ==
  \/ StartScan(s) \/ ReadOverdue(s) \/ TakeRow(s) \/ SendMail(s) \/ MailFails(s)
  \/ RecordReminder(s) \/ ReadCutoffs(s) \/ TakeCutoff(s) \/ EndScan(s)

RemindersNext ==
  \/ \E s \in Scans : ScanStep(s)
  \/ \E i \in Debtors : Settle(i)
  \/ NextDay \/ Halt

-----------------------------------------------------------------------------
RemindersTypeOK ==
  /\ day \in 1 .. Horizon
  /\ \A x \in DOMAIN alerts : alerts[x] \subseteq 0 .. Horizon
  /\ reminded \in [Debtors -> (1 .. Horizon) \union {None}]
  /\ \A s \in Scans : scan[s].now <= day /\ scan[s].row \in Debtors \union {None}
  /\ doubtful \subseteq Debtors

\* "at most once every 7 days" (notifications.service.ts:130): two reminders of one invoice lie
\* more than Gap apart, unless one was lost by a crash before it was recorded, or two scans
\* worked on the invoice at a time.
RemindersSpaced(i) ==
  mailed'[i] # mailed[i] /\ mailed[i] # None => i \in doubtful' \/ mailed'[i] - mailed[i] > Gap

\* "keeps firing daily while the window is open" (notifications.service.ts:171): a scan that
\* ends has given every cut-off on its list an alert no older than the scan's own day.
CutoffsNagDaily(s) ==
  scan[s].at = "cutoff" /\ scan'[s].at = "idle" /\ halts' = halts =>
    \A b \in scan[s].others : nagged[b] # None /\ nagged[b] >= scan[s].now

\* Scans that overlap, fail and are cut off by crashes neither pester a debtor nor let a
\* cut-off pass in silence.
ScansKeepPace ==
  [][/\ \A i \in Debtors : RemindersSpaced(i)
     /\ \A s \in Scans : CutoffsNagDaily(s)]_reminderVars
=============================================================================
