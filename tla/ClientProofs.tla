---------------------------- MODULE ClientProofs ----------------------------
(***************************************************************************)
(* Proofs about the browser tab: what it shows after its own writes, what  *)
(* it asks of the server, and what happens to the text of a form.          *)
(***************************************************************************)
EXTENDS Client, TLAPS

(* ----------------------------- the invariant ---------------------------- *)

\* Where a tab can be: at the login page, or where a role that signs in can bring it.
Tabs == {AtLogin} \union UNION {TabsOf(r) : r \in Staff}

TabTyped ==
  /\ \E k \in Looks : look = Life(k)
  /\ tab \in Tabs
  /\ session \in {"valid", "expired", "none"} /\ (session = "none" <=> tab.page = "Login")

CacheTyped ==
  /\ entry \in [held : {"none", "fresh", "old"}, lacks : SUBSET look.reads,
                missed : SUBSET look.reads]
  /\ fetch \in [at : {"none", "sent", "read"}, lacks : SUBSET look.reads,
                missed : SUBSET look.reads]
  /\ entry.lacks \subseteq entry.missed /\ fetch.lacks \subseteq fetch.missed

FormTyped ==
  /\ form \in [text : {"none", "blank", "loaded", "typed"}, missed : SUBSET look.reads]
  /\ form.text = "none" <=> ~FillsForm(tab)

ActTyped ==
  act # None => /\ act \in Requests
                /\ act.from \in Tabs /\ act.button \in Offered(act.from)

\* Tables whose rows nothing on tab t's page shows from the query followed.
Unseen(t) ==
  {x \in look.reads : \A u \in {v \in Tabs : v.page = t.page /\ v.role = t.role} :
                        \A q \in QueriesOf(u, look.key) : q.main # x}

\* Tables the request in flight wrote while the query was mounted, and will account for.
Pending(t) ==
  IF act # None /\ act.at = "written" /\ act.from.page = t.page /\ act.from.role = t.role
     /\ Mounted(act.from)
  THEN act.button.writes ELSE {}

\* What an answer on the screen lacks nobody sees, or the request in flight is about to refresh
\* it, or the answer is about to be replaced.
Accounted ==
  /\ fetch.lacks \subseteq Unseen(tab) \union Pending(tab)
  /\ fetch.at = "none" => entry.lacks \subseteq Unseen(tab) \union Pending(tab)
  /\ entry.lacks \union fetch.lacks # {} => Mounted(tab)

ClientInv == TabTyped /\ CacheTyped /\ FormTyped /\ ActTyped /\ Accounted


(* ------------------------- where a tab can be --------------------------- *)

\* The login page mounts no query, offers no button and opens no dialog.
LEMMA LoginEmpty ==
  /\ OnScreen(AtLogin) = {"Login"} /\ "Login" \in Names
  /\ Named["Login"] = LoginPage
  /\ Openable(AtLogin) = {} /\ Offered(AtLogin) = {}
  /\ \A key : QueriesOf(AtLogin, key) = {}
<1>2. "Login" \in Names /\ Named["Login"] = LoginPage
  BY DEF Names, Named
<1>3. /\ LoginPage.queries = {} /\ LoginPage.acts = {} /\ LoginPage.opens = {}
      /\ LoginPage.embeds = {}
  BY DEF LoginPage, Component
<1>4. AtLogin.page = "Login" /\ AtLogin.open = {}
  BY DEF AtLogin
<1>5. OnScreen(AtLogin) = {"Login"} /\ InReach(AtLogin) = {"Login"}
  BY <1>2, <1>3, <1>4 DEF OnScreen, InReach, WithParts
<1> QED BY <1>2, <1>3, <1>5 DEF Openable, Offered, QueriesOf

LEMMA DashboardIsAPage == {"Dashboard", "Login", "Reports"} \subseteq Pages
  BY DEF Pages, NavRight

\* The first tabs of a role are pages with nothing over them.
LEMMA FirstTabsShape ==
  ASSUME NEW r, NEW t \in FirstTabs(r)
  PROVE  t \in [page : Pages \ {"Login"}, open : {{}}, role : {r}]
  BY DEF FirstTabs

\* A tab of a role shows a page, some dialogs, and keeps the role; closing all its dialogs
\* leaves a first tab.
LEMMA TabsOfShape ==
  ASSUME NEW r \in DOMAIN RoleMatrix, NEW t \in TabsOf(r)
  PROVE  /\ t \in [page : Pages \ {"Login"}, open : SUBSET Dialogs, role : {r}]
         /\ Bare(t) \in FirstTabs(r)
<1> DEFINE Shape(x) ==
      /\ x \in [page : Pages \ {"Login"}, open : SUBSET Dialogs, role : {r}]
      /\ Bare(x) \in FirstTabs(r)
<1>1. ASSUME NEW x \in FirstTabs(r) PROVE Shape(x)
  <2>1. x \in [page : Pages \ {"Login"}, open : {{}}, role : {r}]
    BY <1>1, FirstTabsShape
  <2>2. Bare(x) = x
    BY <2>1 DEF Bare
  <2> QED BY <1>1, <2>1, <2>2
<1>2. ASSUME NEW x \in TabsOf(r), Shape(x), NEW d \in Openable(x) PROVE Shape(Over(x, d))
  <2>1. d \in Dialogs
    BY <1>2, DialogsAssumption DEF TwoDeep
  <2>2. Over(x, d) \in [page : Pages \ {"Login"}, open : SUBSET Dialogs, role : {r}]
    BY <1>2, <2>1 DEF Over
  <2>3. Bare(Over(x, d)) = Bare(x)
    BY <1>2 DEF Bare, Over
  <2> QED BY <1>2, <2>2, <2>3
<1> HIDE DEF Shape
<1>3. ASSUME NEW x \in Overlaid(FirstTabs(r)) PROVE Shape(x)
  BY <1>1, <1>2, <1>3 DEF Overlaid, TabsOf
<1>4. ASSUME NEW x \in Overlaid(Overlaid(FirstTabs(r))) PROVE Shape(x)
  BY <1>3, <1>2, <1>4 DEF Overlaid, TabsOf
<1>5. Shape(t)
  BY <1>1, <1>3, <1>4 DEF TabsOf
<1> QED BY <1>5 DEF Shape

LEMMA TabShape ==
  ASSUME NEW t \in Tabs, t # AtLogin
  PROVE  /\ t \in [page : Pages \ {"Login"}, open : SUBSET Dialogs, role : Staff]
         /\ t \in TabsOf(t.role) /\ t.role \in DOMAIN RoleMatrix
<1>1. PICK r \in Staff : t \in TabsOf(r)
  BY DEF Tabs
<1>2. r \in DOMAIN RoleMatrix
  BY StaffAssumption
<1>3. t \in [page : Pages \ {"Login"}, open : SUBSET Dialogs, role : {r}]
  BY <1>1, <1>2, TabsOfShape
<1> QED BY <1>1, <1>2, <1>3

\* Only the login page is the login page.
LEMMA LoginAlone ==
  ASSUME NEW t \in Tabs
  PROVE  /\ (t.page = "Login") <=> (t = AtLogin)
         /\ t \in [page : Pages, open : SUBSET Dialogs, role : Staff \union {None}]
  BY TabShape, DashboardIsAPage DEF AtLogin

\* Signing in, following a link, opening and closing dialogs keep a tab among the tabs.
LEMMA SignedInTab ==
  ASSUME NEW r \in Staff
  PROVE  [page |-> "Dashboard", open |-> {}, role |-> r] \in Tabs
<1>1. [page |-> "Dashboard", open |-> {}, role |-> r] \in FirstTabs(r)
  BY DashboardIsAPage DEF FirstTabs
<1> QED BY <1>1 DEF Tabs, TabsOf

LEMMA LinkedTab ==
  ASSUME NEW t \in Tabs, t.page # "Login", NEW p \in Pages \ {"Login"}, Linked(t, p)
  PROVE  /\ [Bare(t) EXCEPT !.page = p] \in Tabs
         /\ [Bare(t) EXCEPT !.page = p].page = p
<1> DEFINE u == [page |-> p, open |-> {}, role |-> t.role]
<1>1. /\ t \in [page : Pages \ {"Login"}, open : SUBSET Dialogs, role : Staff]
      /\ t.role \in Staff
  BY TabShape, LoginAlone
<1>2. [Bare(t) EXCEPT !.page = p] = u
  <2>1. Bare(t) = [page |-> t.page, open |-> {}, role |-> t.role]
    BY <1>1 DEF Bare
  <2> QED BY <2>1
<1>3. May(u, NavRight[p])
  BY DEF Linked, May
<1>4. u \in FirstTabs(t.role)
  BY <1>3 DEF FirstTabs
<1> QED BY <1>1, <1>2, <1>4 DEF Tabs, TabsOf

LEMMA DialogTabs ==
  ASSUME NEW t \in Tabs
  PROVE  /\ \A d \in Openable(t) : Over(t, d) \in Tabs
         /\ \A d \in t.open : Without(t, d) \in Tabs
         /\ Bare(t) \in Tabs
<1>1. CASE t = AtLogin
  <2>1. Openable(t) = {}
    BY <1>1, LoginEmpty
  <2>2. t.open = {} /\ Bare(t) = t
    BY <1>1 DEF AtLogin, Bare
  <2> QED BY <2>1, <2>2
<1>2. CASE t # AtLogin
  <2>1. t \in TabsOf(t.role) /\ t.role \in DOMAIN RoleMatrix /\ t.role \in Staff
    BY <1>2, TabShape
  <2>2. TwoDeep(TabsOf(t.role))
    BY <2>1, DialogsAssumption
  <2>3. Bare(t) \in TabsOf(t.role)
    BY <2>1, TabsOfShape DEF TabsOf
  <2> QED BY <2>1, <2>2, <2>3 DEF TwoDeep, Tabs
<1> QED BY <1>1, <1>2


\* An action that moves the tab: to the login page without a session, or elsewhere.
Elsewhere == tab' \in Tabs /\ look' = look /\ tab'.page # "Login"

ToLogin == tab' = AtLogin /\ look' = look /\ session' = "none"

LEMMA Steps ==
  ASSUME TabTyped, [ClientNext]_clientVars
  PROVE  \/ UNCHANGED <<tab, session, look>>
         \/ ToLogin
         \/ TokenExpires
         \/ Elsewhere /\ (SignIn \/ (session' = session /\ tab.page # "Login"))
         \/ Succeeds
<1>1. ASSUME NEW t \in Tabs, Show(t), look' = look PROVE tab' \in Tabs /\ look' = look /\ tab' = t
  BY <1>1 DEF Show
<1>2. CASE SignIn
  <2>1. PICK r \in Staff : Show([page |-> "Dashboard", open |-> {}, role |-> r])
    BY <1>2 DEF SignIn
  <2>2. look' = look
    BY <1>2 DEF SignIn
  <2> QED BY <2>1, <2>2, <1>1, <1>2, SignedInTab DEF Elsewhere
<1>3. CASE SignOut
  BY <1>3 DEF SignOut, Show, ToLogin
<1>4. CASE Go
  <2>1. PICK p \in (look.near \intersect Pages) \ {"Login", tab.page} :
               Linked(tab, p) /\ Show([Bare(tab) EXCEPT !.page = p])
    BY <1>4 DEF Go
  <2>2. look' = look /\ session' = session /\ tab.page # "Login"
    BY <1>4 DEF Go
  <2>3. p \in Pages \ {"Login"}
    <3>1. PICK k \in Looks : look = Life(k)
      BY DEF TabTyped
    <3>2. look.near \subseteq Dialogs \union Pages
      BY <3>1, DashboardIsAPage DEF Life
    <3> QED BY <3>2
  <2>4. PICK t : t = [Bare(tab) EXCEPT !.page = p]
    OBVIOUS
  <2>5. t \in Tabs /\ t.page = p
    BY <2>2, <2>3, <2>1, <2>4, LinkedTab DEF TabTyped
  <2>6. tab' \in Tabs /\ tab' = t
    BY <2>1, <2>2, <2>4, <2>5, <1>1
  <2> QED BY <2>2, <2>3, <2>5, <2>6 DEF Elsewhere
<1>5. CASE OpenDialog
  <2>1. PICK d \in (Openable(tab) \intersect look.near) \ tab.open : Show(Over(tab, d))
    BY <1>5 DEF OpenDialog
  <2>2. UNCHANGED <<session, look>>
    BY <1>5 DEF OpenDialog
  <2>3. tab # AtLogin
    BY <2>1, LoginEmpty
  <2>4. Over(tab, d) \in Tabs
    BY <2>1, DialogTabs DEF TabTyped
  <2>5. tab' \in Tabs /\ tab' = Over(tab, d)
    BY <2>1, <2>2, <2>4, <1>1
  <2>6. tab'.page = tab.page /\ tab.page # "Login"
    BY <2>3, <2>5, LoginAlone DEF TabTyped, Over
  <2> QED BY <2>2, <2>5, <2>6 DEF Elsewhere
<1>6. CASE CloseDialog
  <2>1. PICK d \in tab.open : Show(Without(tab, d))
    BY <1>6 DEF CloseDialog
  <2>2. UNCHANGED <<session, look>>
    BY <1>6 DEF CloseDialog
  <2>3. tab # AtLogin
    BY <2>1 DEF AtLogin
  <2>4. Without(tab, d) \in Tabs
    BY <2>1, DialogTabs DEF TabTyped
  <2>5. tab' \in Tabs /\ tab' = Without(tab, d)
    BY <2>1, <2>2, <2>4, <1>1
  <2>6. tab'.page = tab.page /\ tab.page # "Login"
    BY <2>3, <2>5, LoginAlone DEF TabTyped, Without
  <2> QED BY <2>2, <2>5, <2>6 DEF Elsewhere
<1>7. CASE ServerReads \/ ServerWrites \/ ShellPolls
  BY <1>7 DEF ServerReads, ServerWrites, ShellPolls, Answer401, Reload, ToLogin
<1>8. CASE \/ Refetch \/ Arrives \/ FetchFails \/ Ages \/ Dropped \/ Hydrate \/ Type \/ Click
           \/ ActFails \/ AnswerLost \/ UNCHANGED clientVars
  BY <1>8 DEF Refetch, Arrives, FetchFails, Ages, Dropped, Hydrate, Type, Click, ActFails,
              AnswerLost, clientVars
<1> QED BY <1>2, <1>3, <1>4, <1>5, <1>6, <1>7, <1>8 DEF ClientNext

\* Success leaves the tab where it is or closes its dialogs.
LEMMA SuccessTab ==
  ASSUME TabTyped, Succeeds
  PROVE  /\ tab' \in Tabs /\ tab'.page = tab.page /\ tab'.role = tab.role
         /\ tab' = IF act.button.closes THEN Bare(tab) ELSE tab
         /\ UNCHANGED <<session, look>>
<1>1. tab' = IF act.button.closes THEN Bare(tab) ELSE tab
  BY DEF Succeeds
<1>2. tab \in [page : Pages, open : SUBSET Dialogs, role : Staff \union {None}]
  BY LoginAlone DEF TabTyped
<1>3. Bare(tab).page = tab.page /\ Bare(tab).role = tab.role
  BY <1>2 DEF Bare
<1> QED BY <1>1, <1>3, DialogTabs DEF Succeeds, TabTyped

LEMMA TabStep == TabTyped /\ [ClientNext]_clientVars => TabTyped'
<1> SUFFICES ASSUME TabTyped, [ClientNext]_clientVars PROVE TabTyped'
  OBVIOUS
<1>1. CASE UNCHANGED <<tab, session, look>>
  BY <1>1 DEF TabTyped
<1>2. CASE ToLogin
  BY <1>2 DEF ToLogin, TabTyped, Tabs, AtLogin
<1>3. CASE TokenExpires
  BY <1>3 DEF TokenExpires, TabTyped
<1>4. CASE Elsewhere /\ SignIn
  BY <1>4 DEF Elsewhere, SignIn, TabTyped
<1>5. CASE Elsewhere /\ session' = session /\ tab.page # "Login"
  BY <1>5 DEF Elsewhere, TabTyped
<1>6. CASE Succeeds
  BY <1>6, SuccessTab DEF TabTyped
<1> QED BY <1>1, <1>2, <1>3, <1>4, <1>5, <1>6, Steps

LEMMA TabInit == ClientInit => TabTyped
  BY DEF ClientInit, TabTyped, Tabs, AtLogin


(* ------------------------------ the types ------------------------------- *)

LEMMA CacheInit == ClientInit => CacheTyped
  BY DEF ClientInit, CacheTyped, NoEntry, NoFetch

LEMMA CacheStep == CacheTyped /\ [ClientNext]_clientVars => CacheTyped'
<1> SUFFICES ASSUME CacheTyped, [ClientNext]_clientVars PROVE CacheTyped'
  OBVIOUS
<1> USE DEF CacheTyped, NoEntry, NoFetch, Sent
<1>1. ASSUME NEW t, Show(t), look' = look PROVE CacheTyped'
  BY <1>1 DEF Show
<1>2. CASE SignIn
  BY <1>1, <1>2 DEF SignIn
<1>3. CASE SignOut
  BY <1>1, <1>3 DEF SignOut
<1>4. CASE Go
  BY <1>1, <1>4 DEF Go
<1>5. CASE OpenDialog
  BY <1>1, <1>5 DEF OpenDialog
<1>6. CASE CloseDialog
  BY <1>1, <1>6 DEF CloseDialog
<1>7. CASE ServerReads
  BY <1>7 DEF ServerReads, Answer401, Reload
<1>8. CASE Refetch \/ Arrives \/ FetchFails \/ Ages \/ Dropped
  BY <1>8 DEF Refetch, Arrives, FetchFails, Ages, Dropped
<1>9. CASE ShellPolls \/ AnswerLost
  BY <1>9 DEF ShellPolls, AnswerLost, Answer401, Reload
<1>10. CASE ServerWrites
  <2>1. CASE Answer401
    BY <1>10, <2>1 DEF ServerWrites, Answer401, Reload
  <2>2. CASE ~Answer401
    <3> DEFINE tables == act.button.writes \intersect look.reads
    <3>1. /\ entry' = IF entry.held = "none" THEN entry ELSE Behind(entry, tables)
          /\ fetch' = IF fetch.at = "read" THEN Behind(fetch, tables) ELSE fetch
          /\ look' = look
      BY <1>10, <2>2 DEF ServerWrites
    <3>2. tables \subseteq look.reads
      OBVIOUS
    <3> HIDE DEF tables
    <3> QED BY <3>1, <3>2 DEF Behind
  <2> QED BY <2>1, <2>2
<1>11. CASE Succeeds
  BY <1>11 DEF Succeeds, FetchedAnew
<1>12. CASE \/ TokenExpires \/ Hydrate \/ Type \/ Click \/ ActFails \/ UNCHANGED clientVars
  BY <1>12 DEF TokenExpires, Hydrate, Type, Click, ActFails, clientVars
<1> QED BY <1>2, <1>3, <1>4, <1>5, <1>6, <1>7, <1>8, <1>9, <1>10, <1>11, <1>12 DEF ClientNext

LEMMA FormInit == ClientInit => FormTyped
  BY DEF ClientInit, FormTyped, NoText, FillsForm, AtLogin

\* A page load leaves no form and no dialog.
LEMMA ReloadForm == Answer401 /\ look' = look => FormTyped'
  BY DEF Answer401, Reload, FormTyped, NoText, FillsForm, AtLogin

LEMMA FormStep == TabTyped /\ CacheTyped /\ FormTyped /\ [ClientNext]_clientVars => FormTyped'
<1> SUFFICES ASSUME TabTyped, CacheTyped, FormTyped, [ClientNext]_clientVars PROVE FormTyped'
  OBVIOUS
<1>1. ASSUME NEW t, Show(t), look' = look PROVE FormTyped'
  <2>1. FillsForm(tab)' <=> FillsForm(t)
    BY <1>1 DEF Show, FillsForm
  <2> QED BY <2>1, <1>1 DEF Show, FormTyped, NoText
<1>2. CASE SignIn
  BY <1>1, <1>2 DEF SignIn
<1>3. CASE SignOut
  BY <1>1, <1>3 DEF SignOut
<1>4. CASE Go
  BY <1>1, <1>4 DEF Go
<1>5. CASE OpenDialog
  BY <1>1, <1>5 DEF OpenDialog
<1>6. CASE CloseDialog
  BY <1>1, <1>6 DEF CloseDialog
<1>7. CASE Answer401 /\ look' = look
  BY <1>7, ReloadForm
<1>8. CASE UNCHANGED <<tab, look, form>>
  BY <1>8 DEF FormTyped, FillsForm
<1>9. CASE Hydrate
  BY <1>9 DEF Hydrate, FormTyped, FillsForm, CacheTyped
<1>10. CASE Type
  BY <1>10 DEF Type, FormTyped, FillsForm
<1>11. CASE Succeeds
  <2> DEFINE t == IF act.button.closes THEN Bare(tab) ELSE tab
  <2>1. tab' = t /\ look' = look /\ form' = IF FillsForm(t) THEN form ELSE NoText
    BY <1>11 DEF Succeeds
  <2>2. tab \in [page : Pages, open : SUBSET Dialogs, role : Staff \union {None}]
    BY LoginAlone DEF TabTyped
  <2>3. Bare(tab).open = {}
    BY <2>2 DEF Bare
  <2>4. FillsForm(t) => FillsForm(tab)
    BY <2>3 DEF FillsForm
  <2>5. FillsForm(tab)' <=> FillsForm(t)
    BY <2>1 DEF FillsForm
  <2> HIDE DEF t
  <2> QED BY <2>1, <2>4, <2>5 DEF FormTyped, NoText
<1>12. CASE ServerReads \/ ServerWrites \/ ShellPolls
  BY <1>7, <1>8, <1>12 DEF ServerReads, ServerWrites, ShellPolls
<1>13. CASE \/ TokenExpires \/ Refetch \/ Arrives \/ FetchFails \/ Ages \/ Dropped \/ Click
            \/ ActFails \/ AnswerLost \/ UNCHANGED clientVars
  BY <1>8, <1>13 DEF TokenExpires, Refetch, Arrives, FetchFails, Ages, Dropped, Click,
                     ActFails, AnswerLost, clientVars
<1> QED BY <1>2, <1>3, <1>4, <1>5, <1>6, <1>9, <1>10, <1>11, <1>12, <1>13 DEF ClientNext

\* A button is offered on a tab of some role.
LEMMA OfferedRequest ==
  ASSUME NEW t \in Tabs, NEW a \in Offered(t), NEW at \in {"sent", "written"}
  PROVE  [button |-> a, from |-> t, at |-> at] \in Requests
<1>1. t # AtLogin
  BY LoginEmpty
<1>2. t \in TabsOf(t.role) /\ t.role \in DOMAIN RoleMatrix
  BY <1>1, TabShape
<1> QED BY <1>2 DEF Requests

LEMMA ActInit == ClientInit => ActTyped
  BY DEF ClientInit, ActTyped

LEMMA ActStep == TabTyped /\ ActTyped /\ [ClientNext]_clientVars => ActTyped'
<1> SUFFICES ASSUME TabTyped, ActTyped, [ClientNext]_clientVars PROVE ActTyped'
  OBVIOUS
<1>1. CASE act' = None
  BY <1>1 DEF ActTyped
<1>2. CASE act' = act
  BY <1>2 DEF ActTyped
<1>3. CASE Click
  <2>1. PICK a \in Buttons(tab) : act' = [button |-> a, from |-> tab, at |-> "sent"]
    BY <1>3 DEF Click
  <2>2. a \in Offered(tab)
    BY DEF Buttons
  <2>3. act' \in Requests
    BY <2>1, <2>2, OfferedRequest DEF TabTyped
  <2> QED BY <2>1, <2>2, <2>3 DEF ActTyped, TabTyped
<1>4. CASE ServerWrites /\ act' # None
  <2>1. act # None /\ (act' = [act EXCEPT !.at = "written"] \/ act' = None)
    BY <1>4 DEF ServerWrites, Answer401, Reload
  <2>2. act' = [act EXCEPT !.at = "written"]
    BY <1>4, <2>1
  <2>3. act \in Requests /\ act.from \in Tabs /\ act.button \in Offered(act.from)
    BY <2>1 DEF ActTyped
  <2>4. /\ act' \in Requests /\ act'.from = act.from /\ act'.button = act.button
    BY <2>2, <2>3 DEF Requests
  <2> QED BY <2>3, <2>4 DEF ActTyped
<1>5. CASE \/ SignIn \/ SignOut \/ TokenExpires \/ Go \/ OpenDialog \/ CloseDialog
           \/ Refetch \/ Arrives \/ FetchFails \/ Ages \/ Dropped \/ Hydrate \/ Type
           \/ UNCHANGED clientVars
  BY <1>2, <1>5 DEF SignIn, SignOut, TokenExpires, Go, OpenDialog, CloseDialog, Refetch, Arrives,
                    FetchFails, Ages, Dropped, Hydrate, Type, clientVars
<1>6. CASE ServerReads \/ ShellPolls \/ ActFails \/ AnswerLost \/ Succeeds
  BY <1>1, <1>2, <1>6 DEF ServerReads, ShellPolls, Answer401, Reload, ActFails, AnswerLost, Succeeds
<1> QED BY <1>1, <1>3, <1>4, <1>5, <1>6 DEF ClientNext

ClientTyped == TabTyped /\ CacheTyped /\ FormTyped /\ ActTyped

LEMMA TypedStep == ClientTyped /\ [ClientNext]_clientVars => ClientTyped'
  BY TabStep, CacheStep, FormStep, ActStep DEF ClientTyped

LEMMA ClientTypedAlways == ClientSpec => []ClientTyped
<1>1. ClientInit => ClientTyped
  BY TabInit, CacheInit, FormInit, ActInit DEF ClientTyped
<1> QED BY <1>1, TypedStep, PTL DEF ClientSpec

\* The tab, the cached answers and the form are what the browser can hold, and a form is on the
\* screen exactly when a dialog that fills one from the query followed is.
THEOREM ClientTypesCorrect == ClientSpec => []ClientTypeOK
<1>1. ClientTyped => ClientTypeOK
  BY LoginAlone DEF ClientTyped, TabTyped, CacheTyped, FormTyped, ClientTypeOK
<1> QED BY <1>1, ClientTypedAlways, PTL

\* What the user has typed is never overwritten by an answer that arrives late: only leaving the
\* dialog or loading a page ends a typed form.
THEOREM TypingIsKept == ClientSpec => TypingKept
<1> DEFINE Kept == form.text = "typed" /\ tab'.page = tab.page /\ tab'.open = tab.open
                   => form'.text = "typed"
<1>1. ClientTyped /\ [ClientNext]_clientVars => [Kept]_clientVars
  <2> SUFFICES ASSUME ClientTyped, [ClientNext]_clientVars, form.text = "typed",
                      tab'.page = tab.page, tab'.open = tab.open
               PROVE  form'.text = "typed"
    OBVIOUS
  <2>1. FillsForm(tab)
    BY DEF ClientTyped, FormTyped
  <2>2. look' = look => (FillsForm(tab)' <=> FillsForm(tab))
    BY DEF FillsForm
  <2>3. form \in [text : {"none", "blank", "loaded", "typed"}, missed : SUBSET look.reads]
    BY DEF ClientTyped, FormTyped
  <2>4. ASSUME NEW t, Show(t), look' = look PROVE form' = form
    <3>1. tab' = t /\ (FillsForm(t) /\ FillsForm(tab) => form' = form)
      BY <2>4 DEF Show
    <3>2. FillsForm(t) <=> FillsForm(tab)
      BY <3>1, <2>4 DEF FillsForm
    <3> QED BY <3>1, <3>2, <2>1
  <2>5. CASE SignIn \/ SignOut \/ Go \/ OpenDialog \/ CloseDialog
    BY <2>4, <2>5 DEF SignIn, SignOut, Go, OpenDialog, CloseDialog
  <2>6. look' = look => ~Answer401
    BY <2>1, <2>2 DEF Answer401, Reload, FillsForm, AtLogin
  <2>7. CASE ServerReads \/ ServerWrites \/ ShellPolls
    BY <2>6, <2>7 DEF ServerReads, ServerWrites, ShellPolls
  <2>8. CASE Succeeds
    <3> DEFINE t == IF act.button.closes THEN Bare(tab) ELSE tab
    <3>1. tab' = t /\ look' = look /\ form' = IF FillsForm(t) THEN form ELSE NoText
      BY <2>8 DEF Succeeds
    <3>2. FillsForm(t) <=> FillsForm(tab)
      BY <3>1, <2>2 DEF FillsForm
    <3> QED BY <3>1, <3>2, <2>1
  <2>9. CASE Hydrate \/ Type
    BY <2>9 DEF Hydrate, Type
  <2>10. CASE \/ TokenExpires \/ Refetch \/ Arrives \/ FetchFails \/ Ages \/ Dropped \/ Click
              \/ ActFails \/ AnswerLost \/ UNCHANGED clientVars
    BY <2>10 DEF TokenExpires, Refetch, Arrives, FetchFails, Ages, Dropped, Click, ActFails,
                 AnswerLost, clientVars
  <2> QED BY <2>5, <2>7, <2>8, <2>9, <2>10 DEF ClientNext
<1> QED BY <1>1, ClientTypedAlways, PTL DEF ClientSpec, TypingKept


(* -------------------- what is asked is what is granted ------------------- *)

\* Every component on the screen of a tab asks for nothing its role is refused.
LEMMA GrantedOnScreen ==
  ASSUME NEW t \in Tabs, NEW n \in OnScreen(t)
  PROVE  Granted(t, n)
<1>1. CASE t = AtLogin
  BY <1>1, LoginEmpty DEF Granted, LoginPage, Component
<1>2. CASE t # AtLogin
  BY <1>2, TabShape, RightsAssumption
<1> QED BY <1>1, <1>2

\* What a page or dialog loads, and the buttons it shows after asking for a right, are what the
\* server grants the role: a tab never goes where its role's rights do not match.
THEOREM NothingIsRefused == ClientSpec => []NothingRefused
<1>1. ClientTyped => NothingRefused
  <2> SUFFICES ASSUME tab \in Tabs PROVE NothingRefused
    BY DEF ClientTyped, TabTyped
  <2>1. ASSUME NEW q \in MountedQueries(tab) PROVE q.tolerant \/ May(tab, q.needs)
    <3>1. PICK n \in OnScreen(tab) : q \in Named[n].queries /\ May(tab, q.asks)
      BY <2>1 DEF MountedQueries, QueriesOf
    <3> QED BY <3>1, GrantedOnScreen DEF Granted
  <2>2. ASSUME NEW n \in OnScreen(tab), NEW a \in Named[n].acts, May(tab, a.asks), a.asks # Anyone
        PROVE  May(tab, a.needs)
    BY <2>2, GrantedOnScreen DEF Granted
  <2> QED BY <2>1, <2>2 DEF NothingRefused
<1> QED BY <1>1, ClientTypedAlways, PTL

(* ------------------------- what its own writes show ---------------------- *)

LEMMA MountedIffQueries ==
  ASSUME NEW t PROVE Mounted(t) <=> QueriesOf(t, look.key) # {}
  BY DEF Mounted, QueriesOf

\* A button that leaves the query mounted without refreshing it writes nothing the query shows.
LEMMA ButtonsAccountForWrites ==
  ASSUME NEW t \in Tabs, NEW a \in Offered(t), Mounted(t), ~Refreshes(a, look.key),
         a.closes => Mounted(Bare(t)),
         NEW u \in Tabs, u.page = t.page, u.role = t.role, NEW q \in QueriesOf(u, look.key)
  PROVE  q.main \notin a.writes
<1>1. t # AtLogin /\ u # AtLogin
  BY LoginEmpty
<1>2. /\ t \in TabsOf(t.role) /\ t.role \in DOMAIN RoleMatrix
      /\ u \in TabsOf(t.role)
  BY <1>1, TabShape
<1>3. QueriesOf(t, look.key) # {} /\ (a.closes => QueriesOf(Bare(t), look.key) # {})
  BY MountedIffQueries
<1>4. PICK m \in UNION {Named[n].queries : n \in OnScreen(t)} : m.key = look.key
  BY <1>3 DEF QueriesOf
<1>5. look.key \in {x.key : x \in UNION {Named[n].queries : n \in OnScreen(t)}}
  BY <1>4
<1>6. ButtonsAccount(TabsOf(t.role))
  BY <1>2, ButtonsAssumption
<1>7. Accounts(TabsOf(t.role), t, a, look.key)
  BY <1>2, <1>3, <1>5, <1>6 DEF ButtonsAccount
<1> QED BY <1>2, <1>3, <1>7 DEF Accounts

\* Where the page and the role stay, so does what nobody sees and what is pending.
LEMMA StaysPut ==
  ASSUME look' = look, tab'.page = tab.page, tab'.role = tab.role
  PROVE  /\ Unseen(tab)' = Unseen(tab)
         /\ act' = act => Pending(tab)' = Pending(tab)
<1>1. Unseen(tab)' = Unseen(tab)
  BY DEF Unseen
<1>2. act' = act => Pending(tab)' = Pending(tab)
  BY DEF Pending, Mounted
<1> QED BY <1>1, <1>2

\* Nothing lacking is accounted for anywhere.
LEMMA NothingLacking ==
  ASSUME entry'.lacks = {}, fetch'.lacks = {}
  PROVE  Accounted'
  BY DEF Accounted

LEMMA AccountedInit == ClientInit => Accounted
  BY DEF ClientInit, Accounted, NoEntry, NoFetch

\* A move of the tab that leaves the page, or unmounts the query, leaves nothing lacking.
LEMMA ShowAccounts ==
  ASSUME ClientTyped, Accounted, NEW t, Show(t), UNCHANGED <<look, act>>,
         t.page = tab.page => t.role = tab.role
  PROVE  Accounted'
<1> DEFINE anew == Mounted(t) /\ (~Mounted(tab) \/ t.page # tab.page)
           gone == ~Mounted(t) \/ t.page # tab.page
<1>1. /\ tab' = t
      /\ fetch' = IF anew /\ entry.held # "fresh" /\ fetch.at = "none" THEN Sent
                  ELSE IF gone THEN [fetch EXCEPT !.lacks = {}] ELSE fetch
      /\ entry' = IF gone THEN [entry EXCEPT !.lacks = {}] ELSE entry
  BY DEF Show
<1>2. /\ entry \in [held : {"none", "fresh", "old"}, lacks : SUBSET look.reads,
                    missed : SUBSET look.reads]
      /\ fetch \in [at : {"none", "sent", "read"}, lacks : SUBSET look.reads,
                    missed : SUBSET look.reads]
  BY DEF ClientTyped, CacheTyped
<1>3. Sent.lacks = {} /\ Sent.at = "sent"
  BY DEF Sent, NoFetch
<1>4. CASE gone
  <2>1. entry'.lacks = {} /\ fetch'.lacks = {}
    BY <1>1, <1>2, <1>3, <1>4
  <2> QED BY <2>1, NothingLacking
<1>5. CASE ~gone
  <2>1. tab'.page = tab.page /\ tab'.role = tab.role /\ Mounted(t) /\ entry' = entry
    BY <1>1, <1>5
  <2>2. Unseen(tab)' = Unseen(tab) /\ Pending(tab)' = Pending(tab)
    BY <2>1, StaysPut
  <2>3. Mounted(tab)'
    BY <2>1, <1>1 DEF Mounted
  <2>4. fetch' = fetch \/ fetch' = Sent
    BY <1>1, <1>5
  <2> HIDE DEF anew, gone
  <2> QED BY <2>1, <2>2, <2>3, <2>4, <1>3 DEF Accounted
<1> QED BY <1>4, <1>5


\* Where nothing moves and no less is pending, what was accounted for still is.
LEMMA StillAccounts ==
  ASSUME Accounted, UNCHANGED <<tab, look, entry, fetch>>,
         Pending(tab) \subseteq Pending(tab)'
  PROVE  Accounted'
<1>1. Unseen(tab)' = Unseen(tab)
  BY StaysPut
<1>2. Mounted(tab)' <=> Mounted(tab)
  BY DEF Mounted
<1> QED BY <1>1, <1>2 DEF Accounted

\* The moves of the tab.
LEMMA MovesAccount ==
  ASSUME ClientTyped, Accounted, SignIn \/ SignOut \/ Go \/ OpenDialog \/ CloseDialog
  PROVE  Accounted'
<1>1. tab \in [page : Pages, open : SUBSET Dialogs, role : Staff \union {None}]
  BY LoginAlone DEF ClientTyped, TabTyped
<1>2. CASE SignIn
  <2>1. PICK r \in Staff : Show([page |-> "Dashboard", open |-> {}, role |-> r])
    BY <1>2 DEF SignIn
  <2>2. tab.page = "Login" /\ UNCHANGED <<look, act>>
    BY <1>2 DEF SignIn
  <2> QED BY <2>1, <2>2, ShowAccounts
<1>3. CASE SignOut
  BY <1>3, ShowAccounts DEF SignOut, AtLogin
<1>4. CASE Go
  <2>1. PICK p \in (look.near \intersect Pages) \ {"Login", tab.page} :
               Linked(tab, p) /\ Show([Bare(tab) EXCEPT !.page = p])
    BY <1>4 DEF Go
  <2>2. tab.page # "Login" /\ UNCHANGED <<look, act>>
    BY <1>4 DEF Go
  <2>3. PICK k \in Looks : look = Life(k)
    BY DEF ClientTyped, TabTyped
  <2>4. p \in Pages \ {"Login"}
    BY <2>1, <2>3, DashboardIsAPage DEF Life
  <2>5. [Bare(tab) EXCEPT !.page = p].page = p
    BY <2>1, <2>2, <2>4, LinkedTab DEF ClientTyped, TabTyped
  <2>6. PICK t : t = [Bare(tab) EXCEPT !.page = p]
    OBVIOUS
  <2> QED BY <2>1, <2>2, <2>5, <2>6, ShowAccounts
<1>5. CASE OpenDialog
  <2>1. PICK d \in (Openable(tab) \intersect look.near) \ tab.open : Show(Over(tab, d))
    BY <1>5 DEF OpenDialog
  <2>2. Over(tab, d).role = tab.role
    BY <1>1 DEF Over
  <2> QED BY <1>5, <2>1, <2>2, ShowAccounts DEF OpenDialog
<1>6. CASE CloseDialog
  <2>1. PICK d \in tab.open : Show(Without(tab, d))
    BY <1>6 DEF CloseDialog
  <2>2. Without(tab, d).role = tab.role
    BY <1>1 DEF Without
  <2> QED BY <1>6, <2>1, <2>2, ShowAccounts DEF CloseDialog
<1> QED BY <1>2, <1>3, <1>4, <1>5, <1>6

\* The answers of the server to the query, and the ageing of the cache.
LEMMA CacheAccounts ==
  ASSUME ClientTyped, Accounted,
         \/ Refetch \/ ServerReads \/ Arrives \/ FetchFails \/ Ages \/ Dropped \/ AnswerLost
         \/ ShellPolls
  PROVE  Accounted'
<1>1. /\ entry \in [held : {"none", "fresh", "old"}, lacks : SUBSET look.reads,
                    missed : SUBSET look.reads]
      /\ fetch \in [at : {"none", "sent", "read"}, lacks : SUBSET look.reads,
                    missed : SUBSET look.reads]
  BY DEF ClientTyped, CacheTyped
<1>2. CASE Answer401
  BY <1>2, NothingLacking DEF Answer401, Reload, NoEntry, NoFetch
<1>3. CASE FetchFails \/ AnswerLost
  <2>1. entry'.lacks = {} /\ fetch'.lacks = {}
    BY <1>1, <1>3 DEF FetchFails, AnswerLost, NoFetch
  <2> QED BY <2>1, NothingLacking
<1>4. CASE UNCHANGED <<tab, look, act>>
  <2>1. Unseen(tab)' = Unseen(tab) /\ Pending(tab)' = Pending(tab)
    BY <1>4, StaysPut
  <2>2. Mounted(tab)' <=> Mounted(tab)
    BY <1>4 DEF Mounted
  <2>3. CASE Refetch
    BY <2>1, <2>2, <2>3 DEF Refetch, Accounted, Sent, NoFetch
  <2>4. CASE ServerReads /\ ~Answer401
    BY <2>1, <2>2, <2>4 DEF ServerReads, Accounted, NoFetch
  <2>5. CASE Arrives
    BY <2>1, <2>2, <2>5 DEF Arrives, Accounted, NoFetch
  <2>6. CASE Ages
    BY <2>1, <2>2, <2>6, <1>1 DEF Ages, Accounted
  <2>7. CASE Dropped
    BY <2>1, <2>2, <2>7 DEF Dropped, Accounted, NoEntry
  <2> QED BY <2>3, <2>4, <2>5, <2>6, <2>7, <1>2, <1>3 DEF ShellPolls
<1> QED BY <1>2, <1>3, <1>4 DEF Refetch, ServerReads, Arrives, Ages, Dropped, ShellPolls

\* The server carries a request out: what the tab's answers now lack is pending.
LEMMA WriteAccounts ==
  ASSUME ClientTyped, Accounted, ServerWrites
  PROVE  Accounted'
<1>1. /\ entry \in [held : {"none", "fresh", "old"}, lacks : SUBSET look.reads,
                    missed : SUBSET look.reads]
      /\ fetch \in [at : {"none", "sent", "read"}, lacks : SUBSET look.reads,
                    missed : SUBSET look.reads]
  BY DEF ClientTyped, CacheTyped
<1>2. CASE Answer401
  BY <1>2, NothingLacking DEF Answer401, Reload, NoEntry, NoFetch
<1>3. CASE ~Answer401
  <2> DEFINE tables == act.button.writes \intersect look.reads
             here == Mounted(tab) /\ tab = act.from
  <2>1. /\ entry' = IF entry.held = "none" THEN entry ELSE Behind(entry, tables)
        /\ fetch' = IF fetch.at = "read" THEN Behind(fetch, tables) ELSE fetch
        /\ act # None /\ act.at = "sent" /\ act' = [act EXCEPT !.at = "written"]
        /\ tab' = tab /\ look' = look
    BY <1>3 DEF ServerWrites
  <2>2. Unseen(tab)' = Unseen(tab) /\ (Mounted(tab)' <=> Mounted(tab))
    BY <2>1, StaysPut DEF Mounted
  <2>3. Pending(tab) = {}
    BY <2>1 DEF Pending
  <2>4. act \in Requests
    BY <2>1 DEF ClientTyped, ActTyped
  <2>5. act' \in Requests /\ act'.from = act.from /\ act'.button = act.button /\ act'.at = "written"
    BY <2>1, <2>4 DEF Requests
  <2>6. act' # None
    BY <2>5, NoneAssumption
  <2>7. here => tables \subseteq Pending(tab)'
    BY <2>1, <2>2, <2>5, <2>6 DEF Pending, Mounted
  <2>8. /\ entry'.lacks = entry.lacks \/ (here /\ entry'.lacks = entry.lacks \union tables)
        /\ fetch'.lacks = fetch.lacks \/ (here /\ fetch'.lacks = fetch.lacks \union tables)
        /\ fetch'.at = fetch.at
    BY <1>1, <2>1 DEF Behind
  <2> HIDE DEF tables
  <2> QED BY <2>2, <2>3, <2>7, <2>8 DEF Accounted
<1> QED BY <1>2, <1>3


\* Success: the query is fetched anew, or is gone from the screen, or never showed what was
\* written.
LEMMA SuccessAccounts ==
  ASSUME ClientTyped, Accounted, Succeeds
  PROVE  Accounted'
<1> DEFINE a == act.button
           t == IF a.closes THEN Bare(tab) ELSE tab
<1>1. /\ act # None /\ act.at = "written" /\ act' = None
      /\ tab' = t /\ look' = look
      /\ IF Refreshes(a, look.key) /\ Mounted(t) THEN FetchedAnew /\ UNCHANGED entry
         ELSE /\ fetch' = IF Mounted(t) THEN fetch ELSE [fetch EXCEPT !.lacks = {}]
              /\ entry'.lacks = IF Mounted(t) THEN entry.lacks ELSE {}
  BY DEF Succeeds
<1>2. tab' \in Tabs /\ tab'.page = tab.page /\ tab'.role = tab.role
  BY SuccessTab DEF ClientTyped
<1>3. Unseen(tab)' = Unseen(tab)
  BY <1>1, <1>2, StaysPut
<1>4. Mounted(tab)' <=> Mounted(t)
  BY <1>1 DEF Mounted
<1>5. /\ act.from \in Tabs /\ a \in Offered(act.from)
  BY <1>1 DEF ClientTyped, ActTyped
<1>6. fetch \in [at : {"none", "sent", "read"}, lacks : SUBSET look.reads,
                 missed : SUBSET look.reads]
      /\ entry.lacks \subseteq look.reads
  BY DEF ClientTyped, CacheTyped
<1>7. CASE Refreshes(a, look.key) /\ Mounted(t)
  <2>1. fetch' = Sent /\ entry' = entry
    BY <1>1, <1>7 DEF FetchedAnew
  <2> QED BY <2>1, <1>4, <1>7 DEF Accounted, Sent, NoFetch
<1>8. CASE ~Mounted(t)
  <2>1. entry'.lacks = {} /\ fetch'.lacks = {}
    BY <1>1, <1>6, <1>8
  <2> QED BY <2>1, NothingLacking
<1>9. CASE Mounted(t) /\ ~Refreshes(a, look.key)
  <2>1. fetch' = fetch /\ entry'.lacks = entry.lacks
    BY <1>1, <1>9
  <2>2. ASSUME NEW x \in Pending(tab), x \in look.reads PROVE x \in Unseen(tab)
    <3>1. /\ act.from.page = tab.page /\ act.from.role = tab.role /\ Mounted(act.from)
          /\ x \in a.writes
      BY <2>2 DEF Pending
    <3>2. a.closes => Mounted(Bare(act.from))
      <4>1. SUFFICES ASSUME a.closes PROVE Mounted(Bare(act.from))
        OBVIOUS
      <4>2. /\ tab \in [page : Pages, open : SUBSET Dialogs,
                        role : Staff \union {None}]
            /\ act.from \in [page : Pages, open : SUBSET Dialogs,
                             role : Staff \union {None}]
        BY <1>5, LoginAlone DEF ClientTyped, TabTyped
      <4>3. Bare(act.from) = Bare(tab)
        BY <4>2, <3>1 DEF Bare
      <4> QED BY <4>1, <4>3, <1>9
    <3>3. ASSUME NEW u \in Tabs, u.page = tab.page, u.role = tab.role,
                 NEW q \in QueriesOf(u, look.key)
          PROVE  q.main # x
      <4>1. q.main \notin a.writes
        BY <1>5, <1>9, <3>1, <3>2, <3>3, ButtonsAccountForWrites
      <4> QED BY <4>1, <3>1
    <3> QED BY <2>2, <3>3 DEF Unseen
  <2>3. Unseen(tab) \union Pending(tab) \subseteq Unseen(tab) \union (Pending(tab) \ look.reads)
    BY <2>2
  <2>4. fetch.lacks \subseteq Unseen(tab)
    BY <2>3, <1>6 DEF Accounted
  <2>5. fetch.at = "none" => entry.lacks \subseteq Unseen(tab)
    BY <2>3, <1>6 DEF Accounted
  <2> QED BY <1>3, <1>4, <1>9, <2>1, <2>4, <2>5 DEF Accounted
<1> QED BY <1>7, <1>8, <1>9

LEMMA AccountedStep == ClientTyped /\ Accounted /\ [ClientNext]_clientVars => Accounted'
<1> SUFFICES ASSUME ClientTyped, Accounted, [ClientNext]_clientVars PROVE Accounted'
  OBVIOUS
<1>1. CASE SignIn \/ SignOut \/ Go \/ OpenDialog \/ CloseDialog
  BY <1>1, MovesAccount
<1>2. CASE \/ Refetch \/ ServerReads \/ Arrives \/ FetchFails \/ Ages \/ Dropped \/ AnswerLost
           \/ ShellPolls
  BY <1>2, CacheAccounts
<1>3. CASE ServerWrites
  BY <1>3, WriteAccounts
<1>4. CASE Succeeds
  BY <1>4, SuccessAccounts
<1>5. CASE TokenExpires \/ Hydrate \/ Type \/ UNCHANGED clientVars
  <2>1. UNCHANGED <<tab, look, entry, fetch, act>>
    BY <1>5 DEF TokenExpires, Hydrate, Type, clientVars
  <2> QED BY <2>1, StaysPut, StillAccounts
<1>6. CASE Click \/ ActFails
  <2>1. UNCHANGED <<tab, look, entry, fetch>> /\ (act = None \/ act.at = "sent")
    BY <1>6 DEF Click, ActFails
  <2>2. Pending(tab) = {}
    BY <2>1 DEF Pending
  <2> QED BY <2>1, <2>2, StillAccounts
<1> QED BY <1>1, <1>2, <1>3, <1>4, <1>5, <1>6 DEF ClientNext

LEMMA AccountedAlways == ClientSpec => []Accounted
<1>1. ClientTyped /\ ClientTyped' /\ Accounted /\ [ClientNext]_clientVars => Accounted'
  BY AccountedStep
<1> QED BY <1>1, AccountedInit, ClientTypedAlways, PTL DEF ClientSpec

\* Once a request of this tab has succeeded, no list or record of the table it wrote stays on the
\* screen as it was before, whatever answers were on their way and wherever the user went.
THEOREM OwnWritesAreShown == ClientSpec => []OwnWritesShown
<1>1. ClientTyped /\ Accounted => OwnWritesShown
  <2> SUFFICES ASSUME ClientTyped, Accounted, act = None, fetch.at = "none",
                      NEW q \in MountedQueries(tab)
               PROVE  q.main \notin entry.lacks
    BY DEF OwnWritesShown
  <2>1. entry.lacks \subseteq Unseen(tab)
    BY DEF Accounted, Pending
  <2>2. q \in QueriesOf(tab, look.key) /\ tab \in Tabs
    BY DEF MountedQueries, ClientTyped, TabTyped
  <2> QED BY <2>1, <2>2 DEF Unseen
<1> QED BY <1>1, ClientTypedAlways, AccountedAlways, PTL
=============================================================================
