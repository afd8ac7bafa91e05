\* Each part on its own: two sign-ins, two visits, two invoices being issued, two imports, two
\* requests on one storage key, two scans over three days, two requests for a number.
CONSTANTS
  Parts = {"signIn", "access", "credit", "imports", "files", "reminders", "numbers"}
  Logins = {c1, c2}
  Users = {u1}
  MaxFailed = 2
  LockTicks = 1
  Visits = {v1, v2}
  Members = {m1}
  Roles = {"Viewer"}
  Servers = {s1}
  Grants <- MCGrants
  TTL = 1
  Officers = {o1, o2}
  Debts = {d1, d2}
  Values = {1, 2}
  Terms <- MCTerms
  Currencies = {"MYR", "USD"}
  Base = "MYR"
  FxRates = {None, 2}
  MaxChanges = 1
  Uploads = {l1, l2}
  Names = {n1}
  Lanes = {k1}
  Dates = {1, 2}
  MaxLength = 2
  MaxRows = 2
  Clerks = {p1, p2}
  Jobs = {j1}
  Customers = {g1}
  Vendors = {}
  Files = {f1}
  Scans = {cron, manual}
  Debtors = {i1}
  Unreachable = {}
  Sailings = {b1}
  Quotes = {q1}
  Deadline <- MCDeadline
  Gap = 1
  Ahead = 1
  Behind = 0
  Callers = {w1, w2}
  Receipted = {r1}
  Connections = 2
  Hosts = {h1, h2}
  LastYear = 2
  MaxDraws = 2
  Horizon = 3
  MaxCrashes = 1
  None = None
SPECIFICATION OfficeSpec
SYMMETRY Symmetry
CONSTRAINTS OneTable PlainStart
INVARIANTS OfficeTypeOK
PROPERTIES LockoutHolds RevocationTakesHold CreditControlled SheetsStoredOnce   NumbersFresh
CHECK_DEADLOCK FALSE
