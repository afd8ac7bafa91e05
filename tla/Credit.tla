------------------------------- MODULE Credit -------------------------------
(***************************************************************************)
(* Credit control of one customer: issuing an invoice reads the customer's *)
(* terms, the balances of its invoices, their notes and the exchange rates *)
(* one after the other, decides, and writes the status by id, while other  *)
(* requests issue, edit, collect, credit, and change terms and rates.      *)
(* Amounts are whole units; rates are whole numbers of the base currency.  *)
(***************************************************************************)
EXTENDS StatusRules, FiniteSetsExt, Server

CONSTANTS Officers,     \* requests that issue an invoice
          Debts,        \* the customer's invoices
          Values,       \* totals of invoices
          Terms,        \* limits (None: not set) and hold a customer may have
          Currencies, Base,
          FxRates,      \* rates to the base currency, None when there is none
          MaxChanges    \* bound on what other requests do

\* Finitely many invoices are worth whole amounts; limits and rates are whole, or not set.
ASSUME CreditAssumption ==
  /\ IsFiniteSet(Debts) /\ Values \subseteq Nat /\ Base \in Currencies
  /\ None \notin Int /\ FxRates \subseteq Nat \union {None} /\ MaxChanges \in Nat
  /\ Terms \subseteq [creditLimit : Nat \union {None}, outstandingLimit : Nat \union {None},
                      hold : BOOLEAN]

VARIABLES debts,        \* status, currency, total, paid, and net of ISSUED notes
          terms,        \* the customer's two limits and the hold
          fx,           \* the latest rate of each currency
          issuing,      \* local state of the requests
          changes,      \* history: what other requests have done, counted
          upset         \* history: what they have added since a request read the terms

creditVars == <<debts, terms, fx, issuing, changes, upset>>

Owed(d) == debts[d].status \in {"ISSUED", "PARTIALLY_PAID", "PAID"}

NoIssue == [at |-> "idle", debt |-> None, total |-> 0, terms |-> None, balances |-> <<>>,
            unknown |-> FALSE, override |-> FALSE]

\* Nothing has changed; added counts in the currency of each invoice, more in the base currency.
Calm == [steady |-> TRUE, added |-> [d \in Debts |-> 0], more |-> 0]

CreditInit ==
  /\ debts \in [Debts -> [status : {"DRAFT"}, currency : Currencies, total : Values,
                           paid : {0}, net : {0}]]
  /\ terms \in Terms
  /\ fx \in [Currencies \ {Base} -> FxRates]
  /\ issuing = [p \in Officers |-> NoIssue]
  /\ changes = 0
  /\ upset = [p \in Officers |-> Calm]

-----------------------------------------------------------------------------
\* effectiveLimit: the tighter of the limits that are set; None is no ceiling, 0 is one of zero.
EffectiveLimit(t) ==
  LET set == {t.creditLimit, t.outstandingLimit} \ {None}
  IN IF set = {} THEN None ELSE Min(set)

\* FxService.converter: a currency without a rate is taken 1:1 and reported as missing.
RateKnown(c) == c = Base \/ fx[c] # None

ToBase(amount, c) == IF c = Base \/ fx[c] = None THEN amount ELSE amount * fx[c]

InBase(d, amount) == ToBase(amount, debts[d].currency)

BalanceWithoutNotes(d) == debts[d].total - debts[d].paid

Owing(d) == BalanceWithoutNotes(d) + debts[d].net

\* The sum of amounts of either sign, one of each invoice in the domain.
Total(amounts) ==
  LET S == DOMAIN amounts
  IN SumOf([d \in S |-> [amount |-> amounts[d]]], S)
       - SumOf([d \in S |-> [amount |-> -amounts[d]]], S)

\* customerExposures: what the customer owes, in the base currency; S are the invoices counted.
ExposureOf(S) == Total([d \in S |-> InBase(d, Owing(d))])

Exposure == ExposureOf({d \in Debts : Owed(d)})

\* The invoices that count once invoice d is issued, and the exposure then.
Counted(d) == {e \in Debts : Owed(e)} \union {d}

Prospect(d) == ExposureOf(Counted(d))

\* evaluateCredit: hold first, then what cannot be computed, then the limit.
AllowedUnconverted(t, unknown, projected) ==
  /\ ~t.hold
  /\ EffectiveLimit(t) # None => projected <= EffectiveLimit(t)

Allowed(t, unknown, projected) ==
  /\ ~t.hold
  /\ ~unknown
  /\ EffectiveLimit(t) # None => projected <= EffectiveLimit(t)

-----------------------------------------------------------------------------
\* issue: the status is read and the transition asked for, then the credit check begins.
BeginIssuing(p) ==
  /\ issuing[p].at = "idle"
  /\ \E d \in Debts :
       /\ CanMove(InvoiceEdges, debts[d].status, "ISSUED")
       /\ issuing' = [issuing EXCEPT ![p] = [NoIssue EXCEPT !.at = "terms", !.debt = d]]
  /\ UNCHANGED <<debts, terms, fx, changes>>

ReadTerms(p) ==
  /\ issuing[p].at = "terms"
  /\ issuing' = [issuing EXCEPT ![p].at = "balances", ![p].terms = terms,
                                ![p].total = debts[issuing[p].debt].total]
  /\ UNCHANGED <<debts, terms, fx, changes>>

ReadBalances(p) ==
  /\ issuing[p].at = "balances"
  /\ issuing' = [issuing EXCEPT ![p].at = "notes",
                   ![p].balances = [d \in {e \in Debts : Owed(e)} |-> BalanceWithoutNotes(d)]]
  /\ UNCHANGED <<debts, terms, fx, changes>>

\* issuedNoteNetMap: the notes of the invoices just read.
ReadNotes(p) ==
  LET b == issuing[p].balances
  IN /\ issuing[p].at = "notes"
     /\ issuing' = [issuing EXCEPT ![p].at = "rates",
                      ![p].balances = [d \in DOMAIN b |-> b[d] + debts[d].net]]
     /\ UNCHANGED <<debts, terms, fx, changes>>

ReadRates(p) ==
  LET b == issuing[p].balances
  IN /\ issuing[p].at = "rates"
     /\ issuing' = [issuing EXCEPT ![p].at = "decide",
                      ![p].balances = [d \in DOMAIN b |-> InBase(d, b[d])],
                      ![p].unknown = \E d \in DOMAIN b : ~RateKnown(debts[d].currency)]
     /\ UNCHANGED <<debts, terms, fx, changes>>

\* The invoice itself is converted with rates read anew.  A refusal can be overridden by who
\* gives a reason and holds the right; both outcomes are audited.
Decide(p) ==
  LET r == issuing[p]
      c == debts[r.debt].currency
      ok == Allowed(r.terms, r.unknown \/ ~RateKnown(c), Total(r.balances) + ToBase(r.total, c))
  IN /\ r.at = "decide"
     /\ \/ issuing' = [issuing EXCEPT ![p].at = "write", ![p].balances = <<>>,
                                      ![p].override = ~ok]
        \/ ~ok /\ issuing' = [issuing EXCEPT ![p] = NoIssue]
     /\ UNCHANGED <<debts, terms, fx, changes>>

\* The status is written by id, whatever it has become.
WriteIssued(p) ==
  /\ issuing[p].at = "write"
  /\ debts' = [debts EXCEPT ![issuing[p].debt].status = "ISSUED"]
  /\ issuing' = [issuing EXCEPT ![p] = NoIssue]
  /\ UNCHANGED <<terms, fx, changes>>

-----------------------------------------------------------------------------
\* What other requests do to the rows the decision is drawn from (Receivables has the details).
Elsewhere == changes < MaxChanges /\ changes' = changes + 1 /\ UNCHANGED issuing

EditDraft(d) ==
  /\ debts[d].status = "DRAFT"
  /\ \E v \in Values \ {debts[d].total} : debts' = [debts EXCEPT ![d].total = v]
  /\ Elsewhere /\ UNCHANGED <<terms, fx>>

CancelDebt(d) ==
  /\ debts[d].status \in {"DRAFT", "ISSUED"} /\ debts[d].paid = 0 /\ debts[d].net = 0
  /\ debts' = [debts EXCEPT ![d].status = "CANCELLED"]
  /\ Elsewhere /\ UNCHANGED <<terms, fx>>

Collect(d) ==
  LET left == Owing(d)
  IN /\ debts[d].status \in {"ISSUED", "PARTIALLY_PAID"}
     /\ \E a \in 1 .. left :
          debts' = [debts EXCEPT ![d].paid = @ + a,
                                 ![d].status = IF a = left THEN "PAID" ELSE "PARTIALLY_PAID"]
     /\ Elsewhere /\ UNCHANGED <<terms, fx>>

\* The one receipt of an invoice is reversed.
Refund(d) ==
  /\ debts[d].status \in {"PARTIALLY_PAID", "PAID"}
  /\ debts' = [debts EXCEPT ![d].paid = 0, ![d].status = "ISSUED"]
  /\ Elsewhere /\ UNCHANGED <<terms, fx>>

\* A debit note is issued against any invoice but a cancelled one; a credit note only within
\* what is unpaid; an issued note is cancelled.
NoteIssued(d) ==
  /\ debts[d].status # "CANCELLED"
  /\ \E n \in {-1, 0, 1} \ {debts[d].net} :
       /\ n = -1 => BalanceWithoutNotes(d) >= 1
       /\ debts' = [debts EXCEPT ![d].net = n]
  /\ Elsewhere /\ UNCHANGED <<terms, fx>>

ChangeTerms ==
  /\ \E t \in Terms \ {terms} : terms' = t
  /\ Elsewhere /\ UNCHANGED <<debts, fx>>

\* fx: a newer rate is entered, or the only one is removed.
ChangeRate(c) ==
  /\ \E r \in FxRates \ {fx[c]} : fx' = [fx EXCEPT ![c] = r]
  /\ Elsewhere /\ UNCHANGED <<debts, terms>>

Positive(n) == IF n > 0 THEN n ELSE 0

\* What invoice e adds to the exposure once invoice d is issued, in the currency of e.
Share(d, e) == IF e \in Counted(d) THEN Owing(e) ELSE 0

\* The decision never sees the notes already issued against a draft.
Unseen(d) == IF Owed(d) THEN 0 ELSE Positive(debts[d].net)

\* Until the rates are read, what is added counts at the rate that will be read; then as it is.
UpsetAfter(p) ==
  LET d == issuing[p].debt
      u == upset[p]
      calm == u.steady /\ <<debts, terms, fx>>' = <<debts, terms, fx>>
      left == issuing[p].at
      now == issuing'[p].at
  IN IF now \in {"idle", "terms"} THEN Calm
     ELSE IF left = "terms" THEN [Calm EXCEPT !.added[d] = Unseen(d)]
     ELSE IF now \in {"balances", "notes", "rates"}
          THEN [u EXCEPT !.steady = calm,
                         !.added = [e \in Debts |-> @[e] + Positive(Share(d, e)' - Share(d, e))]]
     ELSE IF left = "rates"
          THEN [u EXCEPT !.added = Calm.added,
                         !.more = Total([e \in Debts |-> InBase(e, u.added[e])])]
     ELSE [u EXCEPT !.steady = calm,
                    !.more = @ + Total([e \in Debts |->
                       Positive(InBase(e, Share(d, e))' - InBase(e, Share(d, e)))])]

Upset == upset' = [p \in Officers |-> UpsetAfter(p)]

CreditStep ==
  \/ \E p \in Officers :
       \/ BeginIssuing(p) \/ ReadTerms(p) \/ ReadBalances(p) \/ ReadNotes(p) \/ ReadRates(p)
       \/ Decide(p) \/ WriteIssued(p)
  \/ \E d \in Debts : \/ EditDraft(d) \/ CancelDebt(d) \/ Collect(d) \/ Refund(d)
                      \/ NoteIssued(d)
  \/ ChangeTerms
  \/ \E c \in Currencies \ {Base} : ChangeRate(c)

CreditNext == CreditStep /\ Upset

-----------------------------------------------------------------------------
CreditTypeOK ==
  /\ debts \in [Debts -> [status : InvoiceStatus, currency : Currencies, total : Values,
                           paid : Nat, net : {-1, 0, 1}]]
  /\ terms \in Terms
  /\ fx \in [Currencies \ {Base} -> FxRates]
  /\ \A p \in Officers : issuing[p].at \in {"idle", "terms", "balances", "notes", "rates",
                                            "decide", "write"}
  /\ changes \in 0 .. MaxChanges
  /\ upset \in [Officers -> [steady : BOOLEAN, added : [Debts -> Nat], more : Nat]]

Issues(p) == issuing[p].at = "write" /\ issuing'[p].at = "idle" /\ ~issuing[p].override

OvershootExplained(p) ==
  LET limit == EffectiveLimit(issuing[p].terms)
  IN limit # None => Exposure' <= limit + upset[p].more

FailsClosed(p) ==
  ~terms.hold /\ \A d \in Counted(issuing[p].debt) : RateKnown(debts[d].currency)

\* An invoice issued without an override leaves the customer within the limit that was read,
\* but for what other requests added meanwhile, another invoice that passed the same check
\* among it, and for notes issued against the draft (invoices.service.ts:404-442).  When nothing
\* changed meanwhile, the customer is not on hold and no rate its exposure needs is missing
\* ("callers must fail closed", invoices.service.ts:630).
CreditControlled ==
  [][\A p \in Officers : Issues(p) =>
       OvershootExplained(p) /\ (upset[p].steady => FailsClosed(p))]_creditVars

\* "Exposure + this invoice, in base currency" (credit.logic.ts:43) never passes the limit: when
\* nothing changed meanwhile, the issued invoice leaves the customer within it.
LimitHolds ==
  [][\A p \in Officers : Issues(p) /\ upset[p].steady =>
       (EffectiveLimit(terms) # None => Exposure' <= EffectiveLimit(terms))]_creditVars
=============================================================================
