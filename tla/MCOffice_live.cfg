\* Liveness: one document to recognise, an overdue invoice beside one that cannot be mailed, two
\* requests at two connections.
CONSTANTS
  Parts = {"files", "reminders", "numbers"}
  Logins = {c1, c2}
  Users = {u1}
  MaxFailed = 2
  LockTicks = 1
  Visits = {v1, v2}
  Members = {m1}
  Roles = {"Viewer"}
  Servers = {s1}
  Grants <- MCGrants
  TTL = 1
  Officers = {o1, o2}
  Debts = {d1, d2}
  Values = {1, 2}
  Terms <- MCTerms
  Currencies = {"MYR", "USD"}
  Base = "MYR"
  FxRates = {None, 2}
  MaxChanges = 1
  Uploads = {l1, l2}
  Names = {n1}
  Lanes = {k1}
  Dates = {1, 2}
  MaxLength = 2
  MaxRows = 2
  Clerks = {p1, p2}
  Jobs = {j1}
  Customers = {}
  Vendors = {}
  Files = {f1}
  Scans = {cron, manual}
  Debtors = {i1, i2}
  Unreachable = {i2}
  Sailings = {}
  Quotes = {}
  Deadline <- MCDeadline
  Gap = 1
  Ahead = 1
  Behind = 0
  Callers = {w1, w2}
  Receipted = {r1}
  Connections = 2
  Hosts = {h1, h2}
  LastYear = 2
  MaxDraws = 1
  Horizon = 2
  MaxCrashes = 1
  None = None
SPECIFICATION FairSpec
PROPERTIES RecognitionAnswered EveryDebtorReminded CallsEnd
CHECK_DEADLOCK FALSE
