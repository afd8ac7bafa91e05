------------------------------- MODULE Routes -------------------------------
(***************************************************************************)
(* The routes of the HTTP API: the permission each of them requires, its   *)
(* handler, and what the handler may change: nothing, the notices of users *)
(* and the reminders of invoices, or business data.                        *)
(***************************************************************************)
EXTENDS Sequences

RoutesOf(right, changes, handlers) ==
  {[right |-> right, changes |-> changes, handler |-> h] : h \in handlers}

Reads(right, handlers) == RoutesOf(right, "nothing", handlers)

Writes(right, handlers) == RoutesOf(right, "data", handlers)

\* A route without @RequirePermission is open to every signed-in user.
Anyone == "any user"

CustomerRoutes ==
  Reads("customers.read", {"list", "ranking", "creditSummary", "overLimit", "credit",
                           "statement", "get"})
  \union Reads("invoices.write", {"emailStatement"})
  \union Writes("customers.write", {"create", "update", "remove"})

VendorRoutes == Reads("vendors.read", {"list", "ranking", "get"})
                \union Writes("vendors.write", {"create", "update", "remove"})

ServiceRoutes == Reads("services.read", {"list"})
                 \union Writes("services.write", {"create", "update", "remove"})

RatingRoutes == Reads("ratings.read", {"vendorHistory", "customerHistory"})
                \union Writes("ratings.write", {"rateVendor", "rateCustomer"})

RateRoutes == Reads("rates.read", {"search", "compare"})
              \union Writes("rates.write", {"create", "import", "update", "remove"})

ImportRoutes == Writes("customers.write", {"customers"})
                \union Writes("vendors.write", {"vendors"})
                \union Writes("rates.write", {"rates"})
                \union Reads("rates.write", {"parseRates"})

QuotationRoutes ==
  Reads("quotations.read", {"list", "get", "revisions"})
  \union Writes("quotations.write", {"create", "update", "setStatus", "remove"})
  \union Reads("quotations.write", {"email"})
  \union Writes("approvals.write", {"approve", "reject"})

BookingRoutes ==
  Reads("bookings.read", {"list", "get"})
  \union Writes("bookings.write", {"createFromQuotation", "create", "update", "confirm", "cancel"})

JobRoutes ==
  Reads("jobs.read", {"costVariance", "list", "inTransit", "get", "tracking"})
  \union Writes("jobs.write", {"create", "update", "remove", "addTracking", "advanceMilestone"})

DocumentRoutes == Reads("jobs.read", {"list", "download"})
                  \union Writes("jobs.write", {"upload", "extract", "remove"})

CustomerAttachmentRoutes == Reads("customers.read", {"list", "download"})
                            \union Writes("customers.write", {"upload", "remove"})

VendorAttachmentRoutes == Reads("vendors.read", {"list", "download"})
                          \union Writes("vendors.write", {"upload", "remove"})

InvoiceRoutes ==
  Reads("invoices.read", {"list", "aging", "get", "creditCheck"})
  \union Writes("invoices.write", {"reversePayment", "create", "fromJob", "update", "issue",
                                   "cancel", "recordPayment"})
  \union Reads("invoices.write", {"email"})

NoteRoutes == Reads("invoices.read", {"list", "get"})
              \union Reads("invoices.write", {"fromInvoice"})
              \union Writes("invoices.write", {"create", "update", "issue", "cancel"})

PayableRoutes ==
  Reads("payables.read", {"list", "aging", "get"})
  \union Writes("payables.write", {"reversePayment", "create", "update", "approve", "void",
                                   "recordPayment"})

RecycleRoutes == Reads("recycle.read", {"list"})
                 \union Writes("recycle.write", {"restore", "purge"})

UserRoutes == Reads("users.read", {"list"}) \union Writes("users.write", {"create", "update"})

RoleRoutes == Reads("users.read", {"list", "permissions"})
              \union Writes("users.write", {"create", "setPermissions"})

SettingRoutes == Reads(Anyone, {"company"}) \union Reads("settings.read", {"all"})
                 \union Writes("settings.write", {"setCompany", "set"})

FxRoutes == Reads("settings.read", {"list", "baseCurrency"})
            \union Writes("settings.write", {"create", "remove"})

NotificationRoutes ==
  Reads("notifications.read", {"list"})
  \union RoutesOf("notifications.read", "notices", {"scan", "markRead", "markAllRead"})

ReportRoutes == Reads("reports.read", {"export", "pnl"})

DashboardRoutes == Reads("dashboard.read", {"summary"})

AuthRoutes == Reads(Anyone, {"me"})

AllRoutes ==
  CustomerRoutes \union VendorRoutes \union ServiceRoutes \union RatingRoutes
  \union RateRoutes \union ImportRoutes \union QuotationRoutes \union BookingRoutes
  \union JobRoutes \union DocumentRoutes \union CustomerAttachmentRoutes
  \union VendorAttachmentRoutes \union InvoiceRoutes \union NoteRoutes \union PayableRoutes
  \union RecycleRoutes \union UserRoutes \union RoleRoutes \union SettingRoutes
  \union FxRoutes \union NotificationRoutes \union ReportRoutes \union DashboardRoutes
  \union AuthRoutes

-----------------------------------------------------------------------------
Groups == {"customers", "vendors", "services", "rates", "quotations", "bookings", "jobs",
           "ratings", "reports", "dashboard", "settings", "users", "notifications",
           "invoices", "payables", "recycle", "approvals"}

ReadRights == {g \o ".read" : g \in Groups}

WriteRights ==
  {"customers.write", "vendors.write", "services.write", "rates.write", "quotations.write",
   "bookings.write", "jobs.write", "ratings.write", "reports.write", "dashboard.write",
   "settings.write", "users.write", "notifications.write", "invoices.write", "payables.write",
   "recycle.write", "approvals.write", "credit.override"}

AllRights == ReadRights \union WriteRights

ReadOf(groups) == {g \o ".read" : g \in groups}

WriteOf(groups) == {g \o ".write" : g \in groups}

EverydayReads == {"customers", "vendors", "services", "rates", "quotations", "bookings", "jobs",
                  "dashboard", "notifications"}

\* The roles as seeded; Administrator is let through by name.
RoleMatrix ==
  [Administrator |-> AllRights,
   Manager |-> ReadOf(Groups \ {"settings", "users"})
               \union WriteOf(Groups \ {"settings", "users", "reports", "dashboard",
                                        "notifications"})
               \union {"credit.override"},
   Sales |-> ReadOf((EverydayReads \union {"ratings", "invoices"}))
             \union WriteOf({"customers", "quotations", "bookings"}),
   Operation |-> ReadOf(EverydayReads \union {"ratings"})
                 \union WriteOf({"bookings", "jobs", "ratings"}),
   Finance |-> ReadOf(EverydayReads \union {"reports", "invoices", "payables"})
               \union WriteOf({"invoices", "payables"}),
   Viewer |-> ReadOf(EverydayReads \union {"invoices"})]
=============================================================================
