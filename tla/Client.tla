------------------------------- MODULE Client -------------------------------
(***************************************************************************)
(* One browser tab of the web client: its pages and dialogs, the session,  *)
(* the cache of query results (providers.tsx and the query library), the   *)
(* requests its buttons send and the forms filled from cached records.     *)
(* Queries meet only in the requests that invalidate them, so the tab is   *)
(* followed through the life of one query at a time: look.                 *)
(***************************************************************************)
EXTENDS Screens

CONSTANTS Looks,       \* cache keys a behaviour may follow
          Staff,       \* roles that sign in
          None         \* no role, no request

ASSUME StaffAssumption == Staff \subseteq DOMAIN RoleMatrix

VARIABLES tab,         \* page, open dialogs, role of the signed-in user
          session,     \* "valid", "expired" (the server answers 401) or "none"
          look,        \* the query followed, with the pages and dialogs that concern it
          entry,       \* its cached answer: fresh for 15 s, then old
          fetch,       \* its request in flight
          act,         \* the request of a button in flight
          form         \* the form filled from it

clientVars == <<tab, session, look, entry, fetch, act, form>>

NoEntry == [held |-> "none", lacks |-> {}, missed |-> {}]
NoFetch == [at |-> "none", lacks |-> {}, missed |-> {}]
Sent == [NoFetch EXCEPT !.at = "sent"]
NoText == [text |-> "none", missed |-> {}]
AtLogin == [page |-> "Login", open |-> {}, role |-> None]

-----------------------------------------------------------------------------
\* hasPermission: the rights stored at sign-in; the Administrator role has them all.
May(t, right) == right = Anyone \/ (t.role # None /\ right \in RoleMatrix[t.role])

Names == DOMAIN Named

\* What a tab t shows; an open dialog covers the page.
WithParts(t, names) ==
  names \union UNION {{e.part : e \in {x \in Named[n].embeds : May(t, x.asks)}} : n \in names}

OnScreen(t) == WithParts(t, {t.page} \union t.open)

InReach(t) == WithParts(t, IF t.open = {} THEN {t.page} ELSE t.open)

Offered(t) == UNION {{a \in Named[n].acts : May(t, a.asks)} : n \in InReach(t)}

Openable(t) ==
  UNION {{o.dialog : o \in {x \in Named[n].opens : May(t, x.asks)}} : n \in InReach(t)}

Over(t, d) == [t EXCEPT !.open = @ \union {d}]

\* Closing a dialog closes those opened from it.
Without(t, d) == [t EXCEPT !.open = @ \ ({d} \union {o.dialog : o \in Named[d].opens})]

Bare(t) == [t EXCEPT !.open = {}]

\* The mounted queries of a key.
QueriesOf(t, key) ==
  UNION {{q \in Named[n].queries : q.key = key /\ May(t, q.asks)} : n \in OnScreen(t)}

\* The life of a query: the tables it is answered from, the pages and dialogs that mount it or
\* lead to it, and one page more.
Life(k) ==
  LET shows == {n \in Names : \E q \in Named[n].queries : q.key = k}
      leads == {d \in Dialogs :
                  d \in shows \/ \E e \in Named[d].embeds : e.part \in shows}
      near == {"Reports"} \union leads \union {p \in Pages :
                \/ p \in shows
                \/ \E e \in Named[p].embeds : e.part \in shows \ {"Shell"}
                \/ \E o \in Named[p].opens : o.dialog \in leads}
  IN [key |-> k, near |-> near,
      reads |-> UNION {q.reads : q \in {x \in UNION {Named[n].queries : n \in Names} : x.key = k}}]

ClientInit ==
  /\ \E k \in Looks : look = Life(k)
  /\ tab = AtLogin /\ session = "none"
  /\ entry = NoEntry /\ fetch = NoFetch /\ act = None /\ form = NoText

MountedQueries(t) == QueriesOf(t, look.key)

Mounted(t) == \E n \in OnScreen(t) : \E q \in Named[n].queries : q.key = look.key /\ May(t, q.asks)

\* A button concerns a query when it writes what the query reads or refreshes it.
Buttons(t) ==
  {a \in Offered(t) : a.writes \intersect look.reads # {} \/ look.key \in a.refreshes}

FillsForm(t) == \E d \in t.open : Named[d].form = look.key

\* A change of page or dialogs: a query that is mounted anew is fetched unless its answer is
\* fresh; one that is unmounted keeps its answer.
Show(t) ==
  /\ tab' = t
  /\ LET anew == Mounted(t) /\ (~Mounted(tab) \/ t.page # tab.page)
         gone == ~Mounted(t) \/ t.page # tab.page
     IN /\ fetch' = IF anew /\ entry.held # "fresh" /\ fetch.at = "none" THEN Sent
                    ELSE IF gone THEN [fetch EXCEPT !.lacks = {}] ELSE fetch
        /\ entry' = IF gone THEN [entry EXCEPT !.lacks = {}] ELSE entry
  /\ form' = IF ~FillsForm(t) THEN NoText
             ELSE IF FillsForm(tab) THEN form ELSE [NoText EXCEPT !.text = "blank"]

\* A page load: everything the tab held is gone.
Reload(t) == /\ tab' = t
             /\ entry' = NoEntry /\ fetch' = NoFetch /\ act' = None /\ form' = NoText

Answer401Ignored == UNCHANGED clientVars

\* api(): a 401 ends the session and loads the login page.
Answer401 == session' = "none" /\ Reload(AtLogin)

-----------------------------------------------------------------------------
SignIn ==
  /\ tab.page = "Login"
  /\ \E r \in Staff : Show([page |-> "Dashboard", open |-> {}, role |-> r])
  /\ session' = "valid"
  /\ UNCHANGED <<look, act>>

\* Sign-out keeps the cache: no page is loaded.
SignOut ==
  /\ tab.page # "Login" /\ "Shell" \in OnScreen(tab)
  /\ session' = "none"
  /\ Show(AtLogin)
  /\ UNCHANGED <<look, act>>

TokenExpires == /\ session = "valid" /\ session' = "expired"
                /\ UNCHANGED <<tab, look, entry, fetch, act, form>>

LinkedForAll(t, p) == TRUE

\* The sidebar and the links show the pages the user may open.
Linked(t, p) == May(t, NavRight[p])

Go ==
  /\ tab.page # "Login"
  /\ \E p \in (look.near \intersect Pages) \ {"Login", tab.page} :
       /\ Linked(tab, p)
       /\ Show([Bare(tab) EXCEPT !.page = p])
  /\ UNCHANGED <<session, look, act>>

OpenDialog ==
  /\ \E d \in (Openable(tab) \intersect look.near) \ tab.open : Show(Over(tab, d))
  /\ UNCHANGED <<session, look, act>>

CloseDialog ==
  /\ \E d \in tab.open : Show(Without(tab, d))
  /\ UNCHANGED <<session, look, act>>

-----------------------------------------------------------------------------
\* The tab regains focus, or an interval passes: mounted queries that are not fresh are fetched.
Refetch ==
  /\ Mounted(tab) /\ entry.held # "fresh" /\ fetch.at = "none"
  /\ fetch' = Sent
  /\ UNCHANGED <<tab, session, look, entry, act, form>>

ServerReads ==
  /\ fetch.at = "sent" /\ session # "none"
  /\ \/ session = "valid" /\ fetch' = [NoFetch EXCEPT !.at = "read"]
        /\ UNCHANGED <<tab, session, entry, act, form>>
     \/ session = "expired" /\ Answer401
  /\ UNCHANGED look

Arrives ==
  /\ fetch.at = "read"
  /\ entry' = [held |-> "fresh", lacks |-> fetch.lacks, missed |-> fetch.missed]
  /\ fetch' = NoFetch
  /\ UNCHANGED <<tab, session, look, act, form>>

\* The retries are used up: the component shows an error.
FetchFails == /\ fetch.at # "none" /\ fetch' = NoFetch
              /\ entry' = [entry EXCEPT !.lacks = {}]
              /\ UNCHANGED <<tab, session, look, act, form>>

\* staleTime passes; five minutes after the last component left, the answer is dropped.
Ages == /\ entry.held = "fresh" /\ entry' = [entry EXCEPT !.held = "old"]
        /\ UNCHANGED <<tab, session, look, fetch, act, form>>

Dropped == /\ entry.held # "none" /\ ~Mounted(tab) /\ entry' = NoEntry
           /\ UNCHANGED <<tab, session, look, fetch, act, form>>

\* The shell asks for notifications every minute.
ShellPolls ==
  /\ session = "expired"
  /\ "Shell" \in OnScreen(tab) /\ May(tab, "notifications.read")
  /\ Answer401
  /\ UNCHANGED look

-----------------------------------------------------------------------------
\* The form is filled once, when its record is there, whatever the age of the record.
HydrateAgain ==
  /\ form.text # "none" /\ entry.held # "none"
  /\ form' = [text |-> "loaded", missed |-> entry.missed]
  /\ UNCHANGED <<tab, session, look, entry, fetch, act>>

Hydrate ==
  /\ form.text = "blank" /\ entry.held # "none"
  /\ form' = [text |-> "loaded", missed |-> entry.missed]
  /\ UNCHANGED <<tab, session, look, entry, fetch, act>>

Type == /\ form.text = "loaded" /\ form' = [form EXCEPT !.text = "typed"]
        /\ UNCHANGED <<tab, session, look, entry, fetch, act>>

Click ==
  /\ act = None
  /\ \E a \in Buttons(tab) :
       /\ FillsForm(tab) /\ a.closes => form.text # "blank"
       /\ act' = [button |-> a, from |-> tab, at |-> "sent"]
  /\ UNCHANGED <<tab, session, look, entry, fetch, form>>

\* What a cached or arriving answer does not contain, once tables are written; lacks follows
\* what the user sees as long as he stays where he clicked.
Behind(e, tables) ==
  [e EXCEPT !.missed = @ \union tables,
            !.lacks = IF Mounted(tab) /\ tab = act.from THEN @ \union tables ELSE @]

ServerWrites ==
  /\ act # None /\ act.at = "sent" /\ session # "none"
  /\ \/ /\ session = "valid" /\ act.button.needs \in RoleMatrix[tab.role] \union {Anyone}
        /\ LET tables == act.button.writes \intersect look.reads
           IN /\ entry' = IF entry.held = "none" THEN entry ELSE Behind(entry, tables)
              /\ fetch' = IF fetch.at = "read" THEN Behind(fetch, tables) ELSE fetch
        /\ act' = [act EXCEPT !.at = "written"]
        /\ UNCHANGED <<tab, session, form>>
     \/ session = "expired" /\ act.button.name \notin {"upload", "parseRates"} /\ Answer401
  /\ UNCHANGED look

\* A refusal of the server, of an upload by an expired session included.
ActFails == /\ act # None /\ act.at = "sent" /\ act' = None
            /\ UNCHANGED <<tab, session, look, entry, fetch, form>>

\* The request was carried out and its answer lost: the tab reports a failure.
AnswerLost ==
  /\ act # None /\ act.at = "written" /\ act' = None
  /\ entry' = [entry EXCEPT !.lacks = {}] /\ fetch' = [fetch EXCEPT !.lacks = {}]
  /\ UNCHANGED <<tab, session, look, form>>

Refreshes(a, key) == key \in a.refreshes \/ "every key" \in a.refreshes

FetchedUnlessOnItsWay == fetch' = IF fetch.at = "none" THEN Sent ELSE fetch

\* invalidateQueries: a mounted query is fetched anew, an answer on its way dropped.
FetchedAnew == fetch' = Sent

Succeeds ==
  /\ act # None /\ act.at = "written" /\ act' = None
  /\ LET a == act.button
         t == IF a.closes THEN Bare(tab) ELSE tab
     IN /\ tab' = t
        /\ form' = IF FillsForm(t) THEN form ELSE NoText
        /\ IF Refreshes(a, look.key) /\ Mounted(t) THEN FetchedAnew /\ UNCHANGED entry
           ELSE /\ fetch' = IF Mounted(t) THEN fetch ELSE [fetch EXCEPT !.lacks = {}]
                /\ entry' = [held |-> IF Refreshes(a, look.key) /\ entry.held = "fresh" THEN "old"
                                      ELSE entry.held,
                             lacks |-> IF Mounted(t) THEN entry.lacks ELSE {},
                             missed |-> entry.missed]
  /\ UNCHANGED <<session, look>>

-----------------------------------------------------------------------------
ClientNext ==
  \/ SignIn \/ SignOut \/ TokenExpires \/ Go \/ OpenDialog \/ CloseDialog
  \/ Refetch \/ ServerReads \/ Arrives \/ FetchFails \/ Ages \/ Dropped \/ ShellPolls
  \/ Hydrate \/ Type \/ Click \/ ServerWrites \/ ActFails \/ AnswerLost \/ Succeeds

ClientSpec == ClientInit /\ [][ClientNext]_clientVars

\* The browser keeps an open tab's timers running.
ClientFairness == WF_clientVars(ShellPolls)

ClientTypeOK ==
  /\ tab.page \in Pages /\ tab.open \subseteq Dialogs
  /\ tab.role \in Staff \union {None}
  /\ session \in {"valid", "expired", "none"} /\ (session = "none" <=> tab.page = "Login")
  /\ entry.held \in {"none", "fresh", "old"} /\ fetch.at \in {"none", "sent", "read"}
  /\ entry.lacks \subseteq entry.missed /\ entry.missed \subseteq look.reads
  /\ form.text \in {"none", "blank", "loaded", "typed"} /\ (form.text = "none" <=> ~FillsForm(tab))

-----------------------------------------------------------------------------
\* What the invariants below ask of the tables of Screens and Routes.  The tables are written
\* out in full, so TLC decides each of these for the client as it is, whatever the constants.

\* The tabs role r can bring about: a page it may open, and what it can open over that.  Sign-in
\* leads to the dashboard without asking.
FirstTabs(r) ==
  {t \in {[page |-> p, open |-> {}, role |-> r] : p \in Pages \ {"Login"}} :
     t.page = "Dashboard" \/ May(t, NavRight[t.page])}

Overlaid(tabs) == UNION {{Over(t, d) : d \in Openable(t)} : t \in tabs}

TabsOf(r) == FirstTabs(r) \union Overlaid(FirstTabs(r)) \union Overlaid(Overlaid(FirstTabs(r)))

\* What buttons open are dialogs, none of them from a dialog that was opened from a dialog.
TwoDeep(tabs) ==
  \A t \in tabs : /\ \A d \in Openable(t) : d \in Dialogs /\ Over(t, d) \in tabs
                  /\ \A d \in t.open : Without(t, d) \in tabs

\* A button's request in flight: the button, the tab it was pressed in, how far it has come.
Requests ==
  LET tabs == UNION {TabsOf(r) : r \in DOMAIN RoleMatrix}
  IN [button : UNION {Offered(t) : t \in tabs}, from : tabs, at : {"sent", "written"}]

ASSUME NoneAssumption == None \notin Requests /\ None \notin DOMAIN RoleMatrix

ASSUME DialogsAssumption == \A r \in DOMAIN RoleMatrix : TwoDeep(TabsOf(r))

\* Component n asks the server for nothing that tab t's role is refused.
Granted(t, n) ==
  /\ \A q \in Named[n].queries : May(t, q.asks) => q.tolerant \/ May(t, q.needs)
  /\ \A a \in Named[n].acts : May(t, a.asks) /\ a.asks # Anyone => May(t, a.needs)

ASSUME RightsAssumption ==
  \A r \in DOMAIN RoleMatrix : \A t \in TabsOf(r) : \A n \in OnScreen(t) : Granted(t, n)

\* A button pressed while a query of key is mounted refreshes the key, or leaves nothing of it
\* on the screen, or writes no table whose rows the key shows anywhere on that page.
Accounts(tabs, t, a, key) ==
  \/ Refreshes(a, key)
  \/ a.closes /\ QueriesOf(Bare(t), key) = {}
  \/ \A u \in {x \in tabs : x.page = t.page} : \A q \in QueriesOf(u, key) : q.main \notin a.writes

ButtonsAccount(tabs) ==
  \A t \in tabs : \A key \in {q.key : q \in UNION {Named[n].queries : n \in OnScreen(t)}} :
    QueriesOf(t, key) # {} => \A a \in Offered(t) : Accounts(tabs, t, a, key)

ASSUME ButtonsAssumption == \A r \in DOMAIN RoleMatrix : ButtonsAccount(TabsOf(r))

-----------------------------------------------------------------------------
\* Once a request of this tab has succeeded, no list or record of the table it wrote stays on
\* the screen as it was before, whatever answers were on their way.  (queryKey, onSuccess)
OwnWritesShown ==
  Mounted(tab) /\ act = None /\ fetch.at = "none" /\ entry.held # "none" =>
    \A q \in MountedQueries(tab) : q.main \notin entry.lacks

\* What a page or dialog loads, and the buttons it shows after asking for a right, are what the
\* server grants the role: the client's checks and the routes' permissions agree.
NothingRefused ==
  /\ \A q \in MountedQueries(tab) : q.tolerant \/ May(tab, q.needs)
  /\ \A n \in OnScreen(tab) : \A a \in Named[n].acts :
       May(tab, a.asks) /\ a.asks # Anyone => May(tab, a.needs)

\* What the user has typed is never overwritten by an answer that arrives late.
TypingKept ==
  [][form.text = "typed" /\ tab'.page = tab.page /\ tab'.open = tab.open
     => form'.text = "typed"]_clientVars

\* A session that has ended leads to the login page, without the user doing anything.
ExpiredSessionLeaves == session = "expired" ~> (session # "expired" \/ "Shell" \notin OnScreen(tab))

\* "Editing: load the existing quotation and hydrate the form once" (quotations/page.tsx): a
\* form starts from the record as this tab last saved it.
EditsStartFromLastSave == form.text \in {"loaded", "typed"} /\ act = None => form.missed = {}
=============================================================================
