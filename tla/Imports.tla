------------------------------- MODULE Imports -------------------------------
(***************************************************************************)
(* Bulk imports.  Customers and vendors, and rates of one vendor, come     *)
(* from a sheet read in the browser (modules/imports/imports.service.ts);  *)
(* a tariff comes from an Excel file (modules/rates/                       *)
(* excel-importer.service.ts).  Rows are stored one by one, without a      *)
(* transaction; what was there already is read once, or row by row.  Rates *)
(* and masters are also added, changed and removed by hand.                *)
(***************************************************************************)
EXTENDS Naturals, FiniteSets, Sequences, Server

CONSTANTS Uploads,       \* imports in flight
          Names,         \* names of customers
          Lanes, Dates,  \* of rates: origin, destination and container; day they take effect
          MaxLength,     \* bound on the rows of a sheet
          MaxRows        \* bound on the rows of a table

\* Neither a key nor a number of rows is null.
ASSUME ImportsAssumption ==
  /\ None \notin Lanes \union Dates /\ None \notin Nat
  /\ MaxLength \in Nat /\ MaxRows \in Nat

VARIABLES masters,       \* customers, as they were inserted; a removed one keeps its row
          rates,         \* vendor_service_rates of the vendor, Gone when deleted
          upload,        \* local state of the imports
          doubled,       \* history: names and lanes added by hand, or by two imports at a time
          disturbed      \* history: lanes a rate of which was removed or given another date

importVars == <<masters, rates, upload, doubled, disturbed>>

Gone == [lane |-> None, date |-> None]
NoUpload == [at |-> "idle", kind |-> None, sheet |-> <<>>, done |-> 0, date |-> None,
             seen |-> {}, before |-> {}, match |-> None]

SheetsOf(keys) == UNION {[1 .. n -> keys] : n \in 1 .. MaxLength}

ImportsInit ==
  /\ masters = <<>> /\ rates = <<>>
  /\ upload = [u \in Uploads |-> NoUpload]
  /\ doubled = {} /\ disturbed = {}

Copies(n) == {i \in DOMAIN masters : masters[i] = [name |-> n, live |-> TRUE]}
RatesOn(lane) == {i \in DOMAIN rates : rates[i].lane = lane}
RatesFrom(lane, date) == {i \in RatesOn(lane) : rates[i].date = date}

Others(u) == \E v \in Uploads \ {u} : upload[v].kind = upload[u].kind

-----------------------------------------------------------------------------
\* The names, or the lanes with a rate of that date, which are there already are read first.
BeginImport(u, kind, sheet, date) ==
  LET there == CASE kind = "masters" -> {n \in Names : Copies(n) # {}}
                 [] kind = "rates" -> {l \in Lanes : RatesFrom(l, date) # {}}
                 [] OTHER -> {}
  IN /\ upload[u].at = "idle"
     /\ upload' = [upload EXCEPT ![u] =
          [NoUpload EXCEPT !.at = "row", !.kind = kind, !.sheet = sheet, !.date = date,
                           !.seen = there, !.before = there]]
     /\ UNCHANGED <<masters, rates, doubled, disturbed>>

Row(u) == upload[u].sheet[upload[u].done + 1]
AtRow(u, kind) ==
  upload[u].at = "row" /\ upload[u].kind = kind /\ upload[u].done < Len(upload[u].sheet)
NextRow(u) == [upload[u] EXCEPT !.at = "row", !.done = @ + 1, !.match = None]

SkipRow(u, kind) ==
  /\ AtRow(u, kind)
  /\ Row(u) \in upload[u].seen
  /\ upload' = [upload EXCEPT ![u] = NextRow(u)]
  /\ UNCHANGED <<masters, rates, doubled, disturbed>>

SeenNothingNew(u) == NextRow(u)

SeenToo(u) == [NextRow(u) EXCEPT !.seen = @ \union {Row(u)}]

\* A name that comes twice in the sheet is imported once.
ImportMaster(u) ==
  /\ AtRow(u, "masters")
  /\ Row(u) \notin upload[u].seen
  /\ Len(masters) < MaxRows
  /\ masters' = Append(masters, [name |-> Row(u), live |-> TRUE])
  /\ upload' = [upload EXCEPT ![u] = SeenToo(u)]
  /\ doubled' = IF Others(u) THEN doubled \union {Row(u)} ELSE doubled
  /\ UNCHANGED <<rates, disturbed>>

\* A lane that comes twice is two offers: both are imported.
ImportRate(u) ==
  /\ AtRow(u, "rates")
  /\ Row(u) \notin upload[u].seen
  /\ Len(rates) < MaxRows
  /\ rates' = Append(rates, [lane |-> Row(u), date |-> upload[u].date])
  /\ upload' = [upload EXCEPT ![u] = NextRow(u)]
  /\ doubled' = doubled \union {Row(u)}
  /\ UNCHANGED <<masters, disturbed>>

\* upsertRate: any rate of the lane is looked for, whatever its date.
FindRate(u) ==
  /\ AtRow(u, "tariff")
  /\ \E i \in IF RatesOn(Row(u)) = {} THEN {None} ELSE RatesOn(Row(u)) :
       upload' = [upload EXCEPT ![u].at = "write", ![u].match = i]
  /\ UNCHANGED <<masters, rates, doubled, disturbed>>

\* The rate that was found is overwritten, its date too; otherwise one is created.
WriteRate(u) ==
  LET i == upload[u].match
      rate == [lane |-> Row(u), date |-> upload[u].date]
  IN /\ upload[u].at = "write"
     /\ IF i = None
        THEN /\ Len(rates) < MaxRows
             /\ rates' = Append(rates, rate)
             /\ doubled' = IF Others(u) THEN doubled \union {Row(u)} ELSE doubled
             /\ UNCHANGED disturbed
        ELSE /\ rates[i] # Gone
             /\ rates' = [rates EXCEPT ![i] = rate]
             /\ disturbed' = disturbed \union {Row(u)}
             /\ UNCHANGED doubled
     /\ upload' = [upload EXCEPT ![u] = NextRow(u)]
     /\ UNCHANGED masters

\* The rate that was found is gone: the row is reported, the next one is read.
ReportRate(u) ==
  /\ upload[u].at = "write"
  /\ upload[u].match # None /\ rates[upload[u].match] = Gone
  /\ upload' = [upload EXCEPT ![u] = NextRow(u)]
  /\ UNCHANGED <<masters, rates, doubled, disturbed>>

\* The summary is returned.
EndImport(u) ==
  /\ upload[u].at = "row" /\ upload[u].done = Len(upload[u].sheet)
  /\ upload' = [upload EXCEPT ![u] = NoUpload]
  /\ UNCHANGED <<masters, rates, doubled, disturbed>>

\* A failing insert or a crash: the rows stored so far stay.
BreakImport(u) ==
  /\ upload[u].at # "idle"
  /\ upload' = [upload EXCEPT ![u] = NoUpload]
  /\ UNCHANGED <<masters, rates, doubled, disturbed>>

(* -------------------------------- by hand -------------------------------- *)

AddMaster(n) ==
  /\ Len(masters) < MaxRows
  /\ masters' = Append(masters, [name |-> n, live |-> TRUE])
  /\ doubled' = doubled \union {n}
  /\ UNCHANGED <<rates, upload, disturbed>>

\* Removal to the recycle bin, and back.
BinMaster(i) ==
  /\ masters' = [masters EXCEPT ![i].live = ~@]
  /\ doubled' = IF masters[i].live THEN doubled ELSE doubled \union {masters[i].name}
  /\ UNCHANGED <<rates, upload, disturbed>>

AddRate(lane, date) ==
  /\ Len(rates) < MaxRows
  /\ rates' = Append(rates, [lane |-> lane, date |-> date])
  /\ doubled' = doubled \union {lane}
  /\ UNCHANGED <<masters, upload, disturbed>>

\* Another date, or deletion.
ChangeOffer(i) ==
  /\ rates[i] # Gone
  /\ \E r \in {Gone} \union {[rates[i] EXCEPT !.date = d] : d \in Dates} :
       rates' = [rates EXCEPT ![i] = r]
  /\ disturbed' = disturbed \union {rates[i].lane}
  /\ UNCHANGED <<masters, upload, doubled>>

-----------------------------------------------------------------------------
UploadStep(u) ==
  \/ \E sheet \in SheetsOf(Names) : BeginImport(u, "masters", sheet, None)
  \/ \E kind \in {"rates", "tariff"}, sheet \in SheetsOf(Lanes), date \in Dates :
       BeginImport(u, kind, sheet, date)
  \/ \E kind \in {"masters", "rates"} : SkipRow(u, kind)
  \/ ImportMaster(u) \/ ImportRate(u) \/ FindRate(u) \/ WriteRate(u) \/ ReportRate(u)
  \/ EndImport(u) \/ BreakImport(u)

ImportsNext ==
  \/ \E u \in Uploads : UploadStep(u)
  \/ \E n \in Names : AddMaster(n)
  \/ \E i \in DOMAIN masters : BinMaster(i)
  \/ \E lane \in Lanes, date \in Dates : AddRate(lane, date)
  \/ \E i \in DOMAIN rates : ChangeOffer(i)

ImportsTypeOK ==
  /\ masters \in Seq([name : Names, live : BOOLEAN]) /\ Len(masters) <= MaxRows
  /\ rates \in Seq([lane : Lanes, date : Dates] \union {Gone}) /\ Len(rates) <= MaxRows
  /\ \A u \in Uploads : /\ upload[u].done \in 0 .. Len(upload[u].sheet)
                        /\ upload[u].at = "write" => upload[u].done < Len(upload[u].sheet)
                        /\ upload[u].match # None => upload[u].match \in DOMAIN rates

NothingDoubled ==
  /\ \A n \in Names : Cardinality(Copies(n)) > 1 => n \in doubled
  /\ \A l \in Lanes : Cardinality(RatesOn(l)) > 1 => l \in doubled

OffersKept(u) ==
  \A l \in Lanes \ (upload[u].before \union disturbed) :
    Cardinality(RatesFrom(l, upload[u].date))
      >= Cardinality({n \in DOMAIN upload[u].sheet : upload[u].sheet[n] = l})

\* Uploading a sheet again, or one that repeats itself, doubles no customer and no lane of a
\* tariff ("re-uploading the same sheet doesn't create duplicates", imports.service.ts:27-28):
\* doubles come from a second import at the same time, from the recycle bin or by hand.  All
\* the offers of a lane that had none when the import began are stored when it ends, however
\* many the sheet has ("carrier alternates should all import").
SheetsStoredOnce ==
  [][/\ NothingDoubled'
     /\ \A u \in Uploads :
          EndImport(u) /\ upload[u].kind = "rates" => OffersKept(u)]_importVars
=============================================================================
