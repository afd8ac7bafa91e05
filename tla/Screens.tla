------------------------------ MODULE Screens ------------------------------
(***************************************************************************)
(* The components of the web client: which query of the API each of them   *)
(* mounts and from which tables it is answered, which requests its buttons *)
(* send, what they write, and which cached queries are invalidated when    *)
(* they succeed.  Layout, wording and client-side previews are left out.   *)
(***************************************************************************)
EXTENDS Routes

RightOf(routes, handler) == (CHOOSE r \in routes : r.handler = handler).right

\* A query: its cache key (without record ids), the table whose rows it shows, the other
\* tables its answer is drawn from, and the right its route requires.
Q(key, main, also, routes, handler) ==
  [key |-> key, main |-> main, reads |-> also \union {main},
   needs |-> RightOf(routes, handler), asks |-> Anyone, tolerant |-> FALSE]

\* enabled: hasPermission(right); a query whose refusal is caught and read as an empty list.
If(right, q) == [q EXCEPT !.asks = right]
Tolerant(q) == [q EXCEPT !.tolerant = TRUE]

\* A button: shown when the user has right; on success it refreshes keys, and may close its dialog.
Act(right, routes, handler, writes, refreshes) ==
  [asks |-> right, name |-> handler, needs |-> RightOf(routes, handler), writes |-> writes,
   refreshes |-> refreshes, closes |-> FALSE]

Submit(right, routes, handler, writes, refreshes) ==
  [Act(right, routes, handler, writes, refreshes) EXCEPT !.closes = TRUE]

\* A component: its queries, its buttons, the dialogs it opens (with the right asked for),
\* the components it embeds, and the query its form is filled from.
Component(queries, acts, opens, embeds, key) ==
  [queries |-> queries, acts |-> acts, opens |-> opens, embeds |-> embeds, form |-> key]

NoForm == "no form"
Opens(right, dialogs) == {[asks |-> right, dialog |-> d] : d \in dialogs}
Embeds(right, parts) == {[asks |-> right, part |-> p] : p \in parts}
InShell == Embeds(Anyone, {"Shell"})

\* Lookups shared by the forms.
CustomerChoice == Q("customers-all", "customers", {}, CustomerRoutes, "list")
VendorChoice == Q("vendors-all", "vendors", {}, VendorRoutes, "list")
JobChoice == Q("jobs-all", "jobs", {"customers"}, JobRoutes, "list")
InvoiceChoice == Q("invoices-all", "invoices", {"customers"}, InvoiceRoutes, "list")
ServiceList == Q("services", "services", {"rates"}, ServiceRoutes, "list")
UserList == Q("users", "users", {"roles"}, UserRoutes, "list")
CompanyQuery == Q("company-profile", "company", {}, SettingRoutes, "company")

Money == {"invoices", "receipts", "notes", "fx"}

-----------------------------------------------------------------------------
Shell == Component({If("notifications.read",
                       Q("notifications", "notifications", {}, NotificationRoutes, "list"))},
                   {}, Opens(Anyone, {"GlobalSearch"}), {}, NoForm)

GlobalSearch ==
  Component({If("customers.read", Q("global-search", "customers", {}, CustomerRoutes, "list")),
             If("vendors.read", Q("global-search", "vendors", {}, VendorRoutes, "list")),
             If("quotations.read", Q("global-search", "quotations", {}, QuotationRoutes, "list")),
             If("jobs.read", Q("global-search", "jobs", {}, JobRoutes, "list"))},
            {}, {}, {}, NoForm)

DashboardPage ==
  Component({Q("dashboard", "dashboard", {"quotations", "jobs", "invoices", "customers",
                                          "vendors", "fx"}, DashboardRoutes, "summary")},
            {}, {}, InShell \union Embeds("jobs.read", {"InTransitPanel"}), NoForm)

InTransitPanel == Component({If("jobs.read", Q("jobs-in-transit", "jobs", {"customers"},
                                               JobRoutes, "inTransit"))}, {}, {}, {}, NoForm)

QuotationsPage ==
  Component({Q("quotations", "quotations", {"customers", "users"}, QuotationRoutes, "list")},
            {Act("approvals.write", QuotationRoutes, h, {"quotations"}, {"quotations"})
               : h \in {"approve", "reject"}},
            Opens("quotations.write", {"QuotationBuilder", "QuoteEmail"})
            \union Opens(Anyone, {"RevisionsModal"}), InShell, NoForm)

RevisionsModal == Component({Q("quotation-revisions", "revisions", {"users"},
                               QuotationRoutes, "revisions")}, {}, {}, {}, NoForm)

\* EmailDialog with the endpoint of a quotation, an invoice or a statement.
EmailDialog(right, routes, handler) ==
  Component({}, {Act(right, routes, handler, {}, {})}, {}, {}, NoForm)

ConsultantChoice == If("users.read", Q("users-active", "users", {"roles"}, UserRoutes, "list"))

QuotationBuilder ==
  Component({Q("quotation-edit", "quotations", {"customers"}, QuotationRoutes, "get"),
             CustomerChoice, ServiceList, VendorChoice,
             ConsultantChoice,
             Tolerant(Q("fx", "fx", {}, FxRoutes, "list"))},
            {Submit("quotations.write", QuotationRoutes, "update", {"quotations", "revisions"},
                    {"quotations", "quotation"})},
            {}, {}, "quotation-edit")

QuotationDetailPage ==
  Component({Q("quotation", "quotations", {"customers", "bookings", "jobs"},
               QuotationRoutes, "get")},
            {Act("quotations.write", QuotationRoutes, "setStatus", {"quotations"},
                 {"quotation", "quotations"}),
             Act("bookings.write", BookingRoutes, "createFromQuotation", {"bookings"},
                 {"every key"})},
            {}, InShell, NoForm)

BookingsPage ==
  Component({Q("bookings", "bookings", {"customers", "vendors", "jobs"}, BookingRoutes, "list")},
            {Act("bookings.write", BookingRoutes, "confirm", {"bookings", "jobs"},
                 {"bookings", "jobs"}),
             Act("bookings.write", BookingRoutes, "cancel", {"bookings"}, {"bookings"})},
            Opens("bookings.write", {"BookingModal"}), InShell, NoForm)

\* Its form starts from the row of the list.
BookingModal ==
  Component({CustomerChoice, VendorChoice},
            {Submit("bookings.write", BookingRoutes, "update", {"bookings"}, {"bookings"})},
            {}, {}, NoForm)

JobsPage ==
  Component({Q("jobs", "jobs", {"customers", "quotations", "documents"}, JobRoutes, "list")},
            {Act("invoices.write", InvoiceRoutes, "fromJob", {"invoices"}, {"jobs"})},
            Opens("jobs.write", {"JobModal", "MilestoneModal"})
            \union Opens(Anyone, {"TrackingModal", "DocumentsModal", "JobCostPanel"}),
            InShell, NoForm)

MilestoneModal ==
  Component({}, {Submit("jobs.write", JobRoutes, "advanceMilestone", {"jobs", "tracking"},
                        {"jobs", "job-tracking"})}, {}, {}, NoForm)

TrackingModal ==
  Component({Q("job-tracking", "tracking", {"users"}, JobRoutes, "tracking")},
            {Act("jobs.write", JobRoutes, "addTracking", {"tracking"}, {"job-tracking"})},
            {}, {}, NoForm)

DocumentsModal ==
  Component({Q("job-docs", "documents", {}, DocumentRoutes, "list")},
            {Act("jobs.write", DocumentRoutes, h, {"documents"}, {"job-docs"})
               : h \in {"upload", "extract", "remove"}}
            \union {Act("jobs.write", JobRoutes, "update", {"jobs"}, {"jobs"})},
            {}, {}, NoForm)

JobModal ==
  Component({CustomerChoice, VendorChoice},
            {Submit("jobs.write", JobRoutes, "update", {"jobs"}, {"jobs"})}, {}, {}, NoForm)

JobCostPanel == Component({Q("job-cost-variance", "bills", {"jobs", "quotations", "fx"},
                             JobRoutes, "costVariance")}, {}, {}, {}, NoForm)

InvoicesPage ==
  Component({Q("invoices", "invoices", {"customers", "jobs", "receipts"}, InvoiceRoutes, "list")},
            {Act("invoices.write", InvoiceRoutes, "cancel", {"invoices"}, {"invoices"})},
            Opens("invoices.write", {"InvoiceModal", "CreditIssueDialog", "NoteModal",
                                     "InvoiceEmail", "PaymentModal"})
            \union Opens(Anyone, {"AgingModal"}), InShell, NoForm)

InvoiceModal ==
  Component({Q("invoice-full", "invoices", {"customers", "jobs"}, InvoiceRoutes, "get"),
             CustomerChoice, JobChoice},
            {Submit("invoices.write", InvoiceRoutes, "update", {"invoices"}, {"invoices"})},
            {}, {}, "invoice-full")

PaymentModal ==
  Component({Q("invoice-detail", "receipts", {"invoices"}, InvoiceRoutes, "get")},
            {Act("invoices.write", InvoiceRoutes, h, {"invoices", "receipts"},
                 {"invoices", "invoice-detail"}) : h \in {"recordPayment", "reversePayment"}},
            {}, {}, NoForm)

AgingModal ==
  Component({Q("invoices-aging", "aging", Money, InvoiceRoutes, "aging"),
             If("customers.read", Q("customer-credit-at-risk", "credit",
                                    Money \union {"customers"}, CustomerRoutes, "overLimit"))},
            {}, {}, {}, NoForm)

CreditIssueDialog ==
  Component({Q("invoice-credit-check", "credit", Money \union {"customers"},
               InvoiceRoutes, "creditCheck")},
            {Submit("invoices.write", InvoiceRoutes, "issue", {"invoices"},
                    {"invoices", "customer-credit"})}, {}, {}, NoForm)

NoteListPage ==
  Component({Q("notes", "notes", {"customers", "invoices"}, NoteRoutes, "list")},
            {Act("invoices.write", NoteRoutes, h, {"notes"}, {"notes", "invoices"})
               : h \in {"issue", "cancel"}},
            Opens("invoices.write", {"NoteModal"}), InShell, NoForm)

NoteModal ==
  Component({Q("note-full", "notes", {"customers", "invoices"}, NoteRoutes, "get"),
             InvoiceChoice, CustomerChoice},
            {Act("invoices.write", NoteRoutes, "fromInvoice", {}, {}),
             Submit("invoices.write", NoteRoutes, "update", {"notes"}, {"notes", "invoices"})},
            {}, {}, "note-full")

PayablesPage ==
  Component({Q("payables", "bills", {"vendors", "jobs"}, PayableRoutes, "list")},
            {Act("payables.write", PayableRoutes, h, {"bills"}, {"payables"})
               : h \in {"approve", "void"}},
            Opens("payables.write", {"BillForm"})
            \union Opens(Anyone, {"PaymentDialog", "ApAgingModal"}), InShell, NoForm)

BillForm ==
  Component({Q("payable-full", "bills", {"vendors", "jobs"}, PayableRoutes, "get"),
             VendorChoice, JobChoice},
            {Submit("payables.write", PayableRoutes, "update", {"bills"}, {"payables"})},
            {}, {}, "payable-full")

PaymentDialog ==
  Component({Q("payable-payments", "bills", {}, PayableRoutes, "get")},
            {Act("payables.write", PayableRoutes, h, {"bills"},
                 {"payable-payments", "payables", "job-cost-variance"})
               : h \in {"recordPayment", "reversePayment"}}, {}, {}, NoForm)

ApAgingModal == Component({Q("ap-aging", "aging", {"bills", "vendors", "fx"},
                             PayableRoutes, "aging")}, {}, {}, {}, NoForm)

CustomersPage ==
  Component({Q("customers", "customers", {"quotations"}, CustomerRoutes, "list"),
             Q("customer-credit-summary", "credit", Money \union {"customers"},
               CustomerRoutes, "creditSummary"),
             Q("customer-credit-at-risk", "credit", Money \union {"customers"},
               CustomerRoutes, "overLimit")},
            {Act("customers.write", CustomerRoutes, "remove", {"customers"}, {"customers"})},
            Opens("customers.write", {"CustomerModal", "CustomerImport"})
            \union Opens("ratings.write", {"CustomerRating"})
            \union Opens(Anyone, {"CreditPanel", "StatementPanel", "CustomerRanking"}),
            InShell, NoForm)

CustomerModal ==
  Component({Q("customer-full", "customers", {"quotations"}, CustomerRoutes, "get"),
             Tolerant(UserList)},
            {Submit("customers.write", CustomerRoutes, "update", {"customers"}, {"customers"})},
            {}, Embeds(Anyone, {"CustomerFiles"}), "customer-full")

\* AttachmentsPanel of a customer or a vendor.
AttachmentsPanel(right, routes) ==
  Component({Q("attachments", "attachments", {}, routes, "list")},
            {Act(right, routes, h, {"attachments"}, {"attachments"})
               : h \in {"upload", "remove"}}, {}, {}, NoForm)

\* RatingModal and ImportDialog, each of customers or of vendors.
RatingModal(handler, table) ==
  Component({}, {Submit("ratings.write", RatingRoutes, handler, {table}, {table})}, {}, {}, NoForm)

ImportDialog(right, handler) ==
  Component({}, {Act(right, ImportRoutes, handler, {handler}, {handler})}, {}, {}, NoForm)

RankingModal(key, routes) ==
  Component({Q(key, "ranking", {"quotations", "ratings"}, routes, "ranking")}, {}, {}, {}, NoForm)

CreditPanel == Component({Q("customer-credit", "credit", Money \union {"customers"},
                            CustomerRoutes, "credit")}, {}, {}, {}, NoForm)

StatementPanel ==
  Component({Q("customer-statement", "statement", Money \union {"customers"},
               CustomerRoutes, "statement")},
            {}, Opens(Anyone, {"StatementEmail"}), {}, NoForm)

VendorsPage ==
  Component({Q("vendors", "vendors", {"rates"}, VendorRoutes, "list")},
            {Act("vendors.write", VendorRoutes, "remove", {"vendors"}, {"vendors"})},
            Opens("vendors.write", {"VendorModal", "VendorImport"})
            \union Opens("ratings.write", {"VendorRating"})
            \union Opens(Anyone, {"VendorRanking"}), InShell, NoForm)

VendorModal ==
  Component({Q("vendor-full", "vendors", {"rates"}, VendorRoutes, "get"), Tolerant(UserList)},
            {Submit("vendors.write", VendorRoutes, "update", {"vendors"}, {"vendors"})},
            {}, Embeds(Anyone, {"VendorFiles"}), "vendor-full")

ServicesPage ==
  Component({ServiceList},
            {Act("services.write", ServiceRoutes, "remove", {"services"}, {"services"})},
            Opens("services.write", {"ServiceModal"}), InShell, NoForm)

ServiceModal ==
  Component({}, {Submit("services.write", ServiceRoutes, "update", {"services"}, {"services"})},
            {}, {}, NoForm)

RatesPage ==
  Component({ServiceList, VendorChoice,
             Q("rates", "rates", {"vendors", "services"}, RateRoutes, "search")},
            {Act("rates.write", RateRoutes, "remove", {"rates"}, {"rates"})},
            Opens("rates.write", {"RateModal", "RateImportDialog"}), InShell, NoForm)

RateModal ==
  Component({}, {Submit("rates.write", RateRoutes, "update", {"rates"}, {"rates"})},
            {}, {}, NoForm)

RateImportDialog ==
  Component({VendorChoice, ServiceList},
            {Act("rates.write", ImportRoutes, "parseRates", {}, {}),
             Act("rates.write", ImportRoutes, "rates", {"rates"}, {"rates"})}, {}, {}, NoForm)

ComparePage ==
  Component({ServiceList, Q("compare", "comparison", {"rates", "vendors", "ratings", "fx"},
                            RateRoutes, "compare")}, {}, {}, InShell, NoForm)

PnlPage == Component({Q("pnl", "pnl", {"jobs", "quotations", "fx"}, ReportRoutes, "pnl")},
                     {}, {}, InShell, NoForm)

ReportsPage == Component({}, {}, {}, InShell, NoForm)

RecycleBinPage ==
  Component({Q("recycle-bin", "bin", {"customers", "vendors", "services", "jobs", "quotations"},
               RecycleRoutes, "list")},
            {Act("recycle.write", RecycleRoutes, h,
                 {"bin", "customers", "vendors", "services", "jobs", "quotations"},
                 {"recycle-bin"}) : h \in {"restore", "purge"}}, {}, InShell, NoForm)

SettingsPage ==
  Component({}, {}, {},
            InShell
            \union Embeds("settings.read", {"CompanyProfileSection", "ExchangeRatesSection",
                                            "SystemSettingsSection"})
            \union Embeds("users.read", {"UsersSection", "RolesSection"}), NoForm)

CompanyProfileSection ==
  Component({CompanyQuery},
            {Act("settings.write", SettingRoutes, "setCompany", {"company"}, {"company-profile"})},
            {}, {}, NoForm)

ExchangeRatesSection ==
  Component({Q("fx", "fx", {}, FxRoutes, "list"),
             Q("fx-base", "base", {"settings"}, FxRoutes, "baseCurrency")},
            {Act("settings.write", FxRoutes, h, {"fx"}, {"fx", "dashboard"})
               : h \in {"create", "remove"}}, {}, {}, NoForm)

UsersSection ==
  Component({UserList, Q("roles", "roles", {"users"}, RoleRoutes, "list")},
            {Act("users.write", UserRoutes, "update", {"users"}, {"users"})},
            Opens("users.write", {"AddUserModal", "EditUserModal"}), {}, NoForm)

AddUserModal ==
  Component({}, {Submit("users.write", UserRoutes, "create", {"users"}, {"users"})}, {}, {}, NoForm)

EditUserModal ==
  Component({}, {Submit("users.write", UserRoutes, "update", {"users"}, {"users"})}, {}, {}, NoForm)

RolesSection ==
  Component({Q("roles", "roles", {"users"}, RoleRoutes, "list"),
             Q("permissions", "permissions", {}, RoleRoutes, "permissions")},
            {Act(Anyone, RoleRoutes, "setPermissions", {"roles"}, {"roles"})}, {}, {}, NoForm)

\* A setting other than the company profile, which the list shows too.
SystemSettingsSection ==
  Component({Q("settings", "settings", {"company"}, SettingRoutes, "all")},
            {Act("settings.write", SettingRoutes, "set", {"settings"}, {"settings"})},
            {}, {}, NoForm)

\* The print views stand outside the shell: the record and the letterhead.
PrintPage(key, main, routes) ==
  Component({Q(key, main, {"customers"}, routes, "get"), CompanyQuery}, {}, {}, {}, NoForm)

StatementPrint ==
  Component({Q("statement-print", "statement", Money \union {"customers"},
               CustomerRoutes, "statement"), CompanyQuery}, {}, {}, {}, NoForm)

LoginPage == Component({}, {}, {}, {}, NoForm)

-----------------------------------------------------------------------------
\* Every component by its name: the pages, the dialogs and the parts of pages and dialogs.
Named ==
  [Dashboard |-> DashboardPage, Quotations |-> QuotationsPage, Bookings |-> BookingsPage,
   Jobs |-> JobsPage, Invoices |-> InvoicesPage, Notes |-> NoteListPage,
   Payables |-> PayablesPage, Customers |-> CustomersPage, Vendors |-> VendorsPage,
   Services |-> ServicesPage, Rates |-> RatesPage, Compare |-> ComparePage, Pnl |-> PnlPage,
   Reports |-> ReportsPage, Settings |-> SettingsPage, RecycleBin |-> RecycleBinPage,
   Quotation |-> QuotationDetailPage,
   QuotationPrint |-> PrintPage("quotation", "quotations", QuotationRoutes),
   InvoicePrint |-> PrintPage("invoice", "invoices", InvoiceRoutes),
   NotePrint |-> PrintPage("note-print", "notes", NoteRoutes),
   BookingPrint |-> PrintPage("booking-print", "bookings", BookingRoutes),
   StatementPrint |-> StatementPrint, Login |-> LoginPage,

   GlobalSearch |-> GlobalSearch, RevisionsModal |-> RevisionsModal,
   QuotationBuilder |-> QuotationBuilder, BookingModal |-> BookingModal,
   MilestoneModal |-> MilestoneModal, TrackingModal |-> TrackingModal,
   DocumentsModal |-> DocumentsModal, JobModal |-> JobModal, JobCostPanel |-> JobCostPanel,
   InvoiceModal |-> InvoiceModal, PaymentModal |-> PaymentModal, AgingModal |-> AgingModal,
   CreditIssueDialog |-> CreditIssueDialog, NoteModal |-> NoteModal, BillForm |-> BillForm,
   PaymentDialog |-> PaymentDialog, ApAgingModal |-> ApAgingModal,
   CustomerModal |-> CustomerModal, CreditPanel |-> CreditPanel,
   StatementPanel |-> StatementPanel, VendorModal |-> VendorModal,
   ServiceModal |-> ServiceModal, RateModal |-> RateModal,
   RateImportDialog |-> RateImportDialog, AddUserModal |-> AddUserModal,
   EditUserModal |-> EditUserModal,
   QuoteEmail |-> EmailDialog("quotations.write", QuotationRoutes, "email"),
   InvoiceEmail |-> EmailDialog("invoices.write", InvoiceRoutes, "email"),
   StatementEmail |-> EmailDialog(Anyone, CustomerRoutes, "emailStatement"),
   CustomerRating |-> RatingModal("rateCustomer", "customers"),
   VendorRating |-> RatingModal("rateVendor", "vendors"),
   CustomerImport |-> ImportDialog("customers.write", "customers"),
   VendorImport |-> ImportDialog("vendors.write", "vendors"),
   CustomerRanking |-> RankingModal("customer-ranking", CustomerRoutes),
   VendorRanking |-> RankingModal("vendor-ranking", VendorRoutes),

   Shell |-> Shell, InTransitPanel |-> InTransitPanel,
   CompanyProfileSection |-> CompanyProfileSection,
   ExchangeRatesSection |-> ExchangeRatesSection,
   SystemSettingsSection |-> SystemSettingsSection,
   UsersSection |-> UsersSection, RolesSection |-> RolesSection,
   CustomerFiles |-> AttachmentsPanel("customers.write", CustomerAttachmentRoutes),
   VendorFiles |-> AttachmentsPanel("vendors.write", VendorAttachmentRoutes)]

\* NAV of the sidebar; the pages a link or a button leads to ask for what their list asks for.
NavRight ==
  [Dashboard |-> "dashboard.read", Quotations |-> "quotations.read",
   Bookings |-> "bookings.read", Jobs |-> "jobs.read", Invoices |-> "invoices.read",
   Notes |-> "invoices.read", Payables |-> "payables.read", Customers |-> "customers.read",
   Vendors |-> "vendors.read", Services |-> "services.read", Rates |-> "rates.read",
   Compare |-> "rates.read", Pnl |-> "reports.read", Reports |-> "reports.read",
   Settings |-> "settings.read", RecycleBin |-> "recycle.read",
   Quotation |-> "quotations.read", QuotationPrint |-> "quotations.read",
   InvoicePrint |-> "invoices.read", NotePrint |-> "invoices.read",
   BookingPrint |-> "bookings.read", StatementPrint |-> "customers.read", Login |-> Anyone]

Pages == DOMAIN NavRight

Parts == {"Shell", "InTransitPanel", "CompanyProfileSection", "ExchangeRatesSection",
          "SystemSettingsSection", "UsersSection", "RolesSection", "CustomerFiles", "VendorFiles"}

Dialogs == DOMAIN Named \ (Pages \union Parts)
=============================================================================
