---------------------------- MODULE CreditProofs ----------------------------
(***************************************************************************)
(* Proofs about credit control.  An exposure is a sum over the invoices of *)
(* a customer of amounts of either sign; what is proved of such sums comes *)
(* first, and then that no invoice passes the limit but for what others    *)
(* added meanwhile.                                                        *)
(***************************************************************************)
EXTENDS Office, SumLemmas

(* --------------------------------- sums --------------------------------- *)

\* The units of amounts f, and how many they are: Total counts them twice, once negated.
Units(f) == CentsOf([x \in DOMAIN f |-> [amount |-> f[x]]], DOMAIN f)
AddUp(f) == SumOf([x \in DOMAIN f |-> [amount |-> f[x]]], DOMAIN f)

LEMMA UnitsAre ==
  ASSUME NEW S, NEW f, DOMAIN f = S
  PROVE  \A u : u \in Units(f) <=> \E x \in S : \E i \in 1 .. f[x] : u = <<x, i>>
BY DEF Units, CentsOf

LEMMA AddUpType ==
  ASSUME NEW S, IsFiniteSet(S), NEW f \in [S -> Nat]
  PROVE  IsFiniteSet(Units(f)) /\ AddUp(f) = Cardinality(Units(f)) /\ AddUp(f) \in Nat
<1> DEFINE table == [x \in S |-> [amount |-> f[x]]]
<1>1. HasAmounts(table, S)
  BY DEF HasAmounts
<1>2. DOMAIN f = S
  OBVIOUS
<1>3. IsFiniteSet(CentsOf(table, S)) /\ SumOf(table, S) \in Nat
  <2> HIDE DEF table
  <2> QED
    BY <1>1, SumType
<1> QED
  BY <1>2, <1>3 DEF Units, AddUp, SumOf

\* Larger amounts add up to no less.
LEMMA AddUpMonotone ==
  ASSUME NEW S, IsFiniteSet(S), NEW f \in [S -> Nat], NEW g \in [S -> Nat],
         \A x \in S : f[x] <= g[x]
  PROVE  AddUp(f) <= AddUp(g)
<1>1. Units(f) \subseteq Units(g)
  <2> SUFFICES ASSUME NEW x \in S, NEW i \in 1 .. f[x] PROVE <<x, i>> \in Units(g)
    BY UnitsAre
  <2>1. i \in 1 .. g[x]
    <3>1. f[x] \in Nat /\ g[x] \in Nat /\ f[x] <= g[x]
      OBVIOUS
    <3> QED
      BY <3>1
  <2> QED
    BY <2>1, UnitsAre
<1> QED
  BY <1>1, AddUpType, FS_Subset

\* Amounts added one by one add up to the sum of what each adds up to.
LEMMA AddUpPlus ==
  ASSUME NEW S, IsFiniteSet(S), NEW f \in [S -> Nat], NEW g \in [S -> Nat]
  PROVE  AddUp([x \in S |-> f[x] + g[x]]) = AddUp(f) + AddUp(g)
<1> DEFINE both == [x \in S |-> f[x] + g[x]]
           above == {u \in Units(both) : u[2] > f[u[1]]}
           shift == [u \in Units(g) |-> <<u[1], f[u[1]] + u[2]>>]
<1>1. both \in [S -> Nat]
  OBVIOUS
<1>2. \A x \in S : f[x] \in Nat /\ g[x] \in Nat /\ both[x] = f[x] + g[x]
  OBVIOUS
<1>3. DOMAIN f = S /\ DOMAIN g = S /\ DOMAIN both = S
  OBVIOUS
<1> HIDE DEF both
<1>4. Units(both) = Units(f) \cup above
  <2>1. ASSUME NEW x \in S, NEW i \in 1 .. f[x] PROVE <<x, i>> \in Units(both)
    <3>1. i \in 1 .. both[x]
      BY <1>2
    <3> QED
      BY <3>1, <1>3, UnitsAre
  <2>2. ASSUME NEW x \in S, NEW i \in 1 .. both[x], ~(i > f[x]) PROVE <<x, i>> \in Units(f)
    <3>1. i \in 1 .. f[x]
      BY <2>2, <1>2
    <3> QED
      BY <3>1, <1>3, UnitsAre
  <2>3. \A u \in Units(both) : u \in Units(f) \/ u \in above
    BY <2>2, <1>3, UnitsAre
  <2>4. \A u \in Units(f) : u \in Units(both)
    BY <2>1, <1>3, UnitsAre
  <2> QED
    BY <2>3, <2>4
<1>5. Units(f) \cap above = {}
  <2>1. ASSUME NEW x \in S, NEW i \in 1 .. f[x] PROVE ~(i > f[x])
    BY <1>2
  <2> QED
    BY <2>1, <1>3, UnitsAre
<1>6. shift \in Bijection(Units(g), above)
  <2>1. ASSUME NEW u \in Units(g) PROVE shift[u] \in above
    <3>1. PICK x \in S : \E i \in 1 .. g[x] : u = <<x, i>>
      BY <1>3, UnitsAre
    <3>2. PICK i \in 1 .. g[x] : u = <<x, i>>
      BY <3>1
    <3>3. f[x] + i \in 1 .. both[x] /\ f[x] + i > f[x]
      BY <1>2
    <3>4. <<x, f[x] + i>> \in Units(both)
      BY <3>3, <1>3, UnitsAre
    <3>5. shift[u] = <<x, f[x] + i>>
      BY <3>2
    <3> QED
      BY <3>3, <3>4, <3>5
  <2>2. ASSUME NEW u \in Units(g), NEW v \in Units(g), shift[u] = shift[v] PROVE u = v
    <3>1. PICK x \in S : \E i \in 1 .. g[x] : u = <<x, i>>
      BY <1>3, UnitsAre
    <3>2. PICK y \in S : \E j \in 1 .. g[y] : v = <<y, j>>
      BY <1>3, UnitsAre
    <3>3. PICK i \in 1 .. g[x] : u = <<x, i>>
      BY <3>1
    <3>4. PICK j \in 1 .. g[y] : v = <<y, j>>
      BY <3>2
    <3>5. <<x, f[x] + i>> = <<y, f[y] + j>>
      BY <3>3, <3>4, <2>2
    <3>6. x = y /\ f[x] + i = f[x] + j
      BY <3>5
    <3>7. i = j
      BY <3>6, <1>2
    <3> QED
      BY <3>3, <3>4, <3>6, <3>7
  <2>3. ASSUME NEW w \in above PROVE \E u \in Units(g) : shift[u] = w
    <3>1. PICK x \in S : \E i \in 1 .. both[x] : w = <<x, i>>
      BY <1>3, UnitsAre
    <3>2. PICK i \in 1 .. both[x] : w = <<x, i>>
      BY <3>1
    <3>3. i > f[x] /\ i - f[x] \in 1 .. g[x] /\ f[x] + (i - f[x]) = i
      BY <3>2, <1>2
    <3>4. <<x, i - f[x]>> \in Units(g)
      BY <3>3, <1>3, UnitsAre
    <3>5. shift[<<x, i - f[x]>>] = <<x, f[x] + (i - f[x])>>
      BY <3>4
    <3> QED
      BY <3>2, <3>3, <3>4, <3>5
  <2>4. DOMAIN shift = Units(g)
    OBVIOUS
  <2>5. shift \in [Units(g) -> above]
    <3> HIDE DEF above
    <3> QED
      BY <2>1
  <2> HIDE DEF above, shift
  <2> QED
    BY <2>1, <2>2, <2>3, <2>4, <2>5 DEF Bijection, Injection, Surjection, IsInjective
<1>7. IsFiniteSet(above) /\ Cardinality(above) = AddUp(g)
  <2>1. ExistsBijection(Units(g), above)
    <3> HIDE DEF above, shift
    <3> QED
      BY <1>6 DEF ExistsBijection
  <2> HIDE DEF above
  <2> QED
    BY <2>1, AddUpType, FS_Bijection
<1>8. Cardinality(Units(f) \cup above) = AddUp(f) + AddUp(g)
  <2> HIDE DEF above
  <2>1. Cardinality({}) = 0
    BY FS_EmptySet
  <2>2. IsFiniteSet(Units(f)) /\ Cardinality(Units(f)) = AddUp(f) /\ AddUp(f) \in Nat
        /\ AddUp(g) \in Nat
    BY AddUpType
  <2>3. Cardinality(Units(f) \cup above)
          = Cardinality(Units(f)) + Cardinality(above) - Cardinality(Units(f) \cap above)
    BY <1>7, <2>2, FS_Union
  <2> QED
    BY <1>5, <1>7, <2>1, <2>2, <2>3
<1>9. AddUp(both) = Cardinality(Units(both))
  BY <1>1, AddUpType
<1> QED
  BY <1>4, <1>8, <1>9 DEF both

\* A sum of amounts of either sign: what the positive ones add up to less what the others do.
LEMMA TotalSplit ==
  ASSUME NEW S, IsFiniteSet(S), NEW f \in [S -> Int]
  PROVE  /\ Total(f) = AddUp([x \in S |-> Positive(f[x])]) - AddUp([x \in S |-> Positive(-f[x])])
         /\ Total(f) \in Int
<1> DEFINE up == [x \in S |-> Positive(f[x])]
           down == [x \in S |-> Positive(-f[x])]
           minus == [x \in S |-> -f[x]]
<1>1. up \in [S -> Nat] /\ down \in [S -> Nat]
  BY DEF Positive
<1>2. \A x \in S : 1 .. up[x] = 1 .. f[x] /\ 1 .. down[x] = 1 .. minus[x]
  <2> SUFFICES ASSUME NEW x \in S
               PROVE  1 .. up[x] = 1 .. f[x] /\ 1 .. down[x] = 1 .. minus[x]
    OBVIOUS
  <2>1. f[x] \in Int
    OBVIOUS
  <2>2. CASE f[x] > 0
    BY <2>1, <2>2 DEF Positive
  <2>3. CASE ~(f[x] > 0)
    BY <2>1, <2>3 DEF Positive
  <2> QED
    BY <2>2, <2>3
<1>3. DOMAIN f = S /\ DOMAIN up = S /\ DOMAIN down = S /\ DOMAIN minus = S
  OBVIOUS
<1>4. SumOf([x \in S |-> [amount |-> f[x]]], S) = AddUp(up)
  <2>1. Units(up) = Units(f)
    <3>1. \A u : u \in Units(up) <=> \E x \in S : \E i \in 1 .. up[x] : u = <<x, i>>
      BY <1>3, UnitsAre
    <3>2. \A u : u \in Units(f) <=> \E x \in S : \E i \in 1 .. f[x] : u = <<x, i>>
      BY <1>3, UnitsAre
    <3> HIDE DEF up
    <3>3. \A u : u \in Units(up) <=> u \in Units(f)
      BY <1>2, <3>1, <3>2
    <3>4. Units(up) = {u \in Units(up) : TRUE} /\ Units(f) = {u \in Units(f) : TRUE}
      OBVIOUS
    <3> QED
      BY <3>3, <3>4
  <2>2. AddUp(up) = Cardinality(Units(up))
    BY DEF AddUp, Units, SumOf
  <2>3. SumOf([x \in S |-> [amount |-> f[x]]], S) = Cardinality(Units(f))
    BY <1>3 DEF Units, SumOf
  <2> QED
    BY <2>1, <2>2, <2>3
<1>5. SumOf([x \in S |-> [amount |-> -f[x]]], S) = AddUp(down)
  <2>1. Units(down) = Units(minus)
    <3>1. \A u : u \in Units(down) <=> \E x \in S : \E i \in 1 .. down[x] : u = <<x, i>>
      BY <1>3, UnitsAre
    <3>2. \A u : u \in Units(minus) <=> \E x \in S : \E i \in 1 .. minus[x] : u = <<x, i>>
      BY <1>3, UnitsAre
    <3> HIDE DEF down, minus
    <3>3. \A u : u \in Units(down) <=> u \in Units(minus)
      BY <1>2, <3>1, <3>2
    <3>4. Units(down) = {u \in Units(down) : TRUE} /\ Units(minus) = {u \in Units(minus) : TRUE}
      OBVIOUS
    <3> QED
      BY <3>3, <3>4
  <2>2. [x \in S |-> [amount |-> -f[x]]] = [x \in S |-> [amount |-> minus[x]]]
    OBVIOUS
  <2>3. AddUp(down) = Cardinality(Units(down))
    BY DEF AddUp, Units, SumOf
  <2>4. SumOf([x \in S |-> [amount |-> minus[x]]], S) = Cardinality(Units(minus))
    <3> HIDE DEF minus
    <3> QED
      BY <1>3 DEF Units, SumOf
  <2> QED
    BY <2>1, <2>2, <2>3, <2>4
<1> HIDE DEF up, down
<1>6. AddUp(up) \in Nat /\ AddUp(down) \in Nat
  BY <1>1, AddUpType
<1>7. Total(f) = AddUp(up) - AddUp(down)
  BY <1>3, <1>4, <1>5 DEF Total
<1> QED
  BY <1>6, <1>7 DEF up, down

\* Amounts that exceed others by no more than given ones have a sum that does not either.
LEMMA TotalBound ==
  ASSUME NEW S, IsFiniteSet(S), NEW f \in [S -> Int], NEW g \in [S -> Int], NEW h \in [S -> Nat],
         \A x \in S : f[x] <= g[x] + h[x]
  PROVE  Total(f) <= Total(g) + AddUp(h)
<1> DEFINE Up(e) == [x \in S |-> Positive(e[x])]
           Down(e) == [x \in S |-> Positive(-e[x])]
           less == [x \in S |-> Up(f)[x] + Down(g)[x]]
           most == [x \in S |-> Up(g)[x] + h[x]]
           more == [x \in S |-> most[x] + Down(f)[x]]
<1>1. /\ Up(f) \in [S -> Nat] /\ Up(g) \in [S -> Nat]
     /\ Down(f) \in [S -> Nat] /\ Down(g) \in [S -> Nat]
  BY DEF Positive
<1>2. \A x \in S : less[x] <= more[x]
  BY DEF Positive
<1>3. Total(f) = AddUp(Up(f)) - AddUp(Down(f)) /\ Total(g) = AddUp(Up(g)) - AddUp(Down(g))
  BY TotalSplit
<1>4. /\ AddUp(Up(f)) \in Nat /\ AddUp(Up(g)) \in Nat
     /\ AddUp(Down(f)) \in Nat /\ AddUp(Down(g)) \in Nat
      /\ AddUp(h) \in Nat
  <2> HIDE DEF Up, Down
  <2> QED
    BY <1>1, AddUpType
<1>5. less \in [S -> Nat] /\ most \in [S -> Nat] /\ more \in [S -> Nat]
  <2> HIDE DEF Up, Down
  <2>1. most \in [S -> Nat]
    BY <1>1
  <2> QED
    BY <1>1, <2>1
<1>6. AddUp(less) = AddUp(Up(f)) + AddUp(Down(g))
  <2> HIDE DEF Up, Down
  <2> QED
    BY <1>1, AddUpPlus
<1>7. AddUp(most) = AddUp(Up(g)) + AddUp(h)
  <2> HIDE DEF Up, Down
  <2> QED
    BY <1>1, AddUpPlus
<1>8. AddUp(more) = AddUp(most) + AddUp(Down(f))
  <2> HIDE DEF Up, Down, most
  <2> QED
    BY <1>1, <1>5, AddUpPlus
<1>9. AddUp(less) <= AddUp(more)
  <2> HIDE DEF less, more
  <2> QED
    BY <1>2, <1>5, AddUpMonotone
<1> HIDE DEF less, most, more, Up, Down
<1> QED
  BY <1>3, <1>4, <1>6, <1>7, <1>8, <1>9

\* Amounts that are not negative: counting them is summing them up.
LEMMA TotalNat ==
  ASSUME NEW S, IsFiniteSet(S), NEW f \in [S -> Nat]
  PROVE  Total(f) = AddUp(f) /\ Total(f) \in Nat
<1> DEFINE up == [x \in S |-> Positive(f[x])]
           down == [x \in S |-> Positive(-f[x])]
<1>1. \A x \in S : up[x] = f[x] /\ down[x] = 0
  BY DEF Positive
<1>2. up = f
  BY <1>1
<1>3. down \in [S -> Nat]
  BY <1>1
<1>4. Units(down) = {}
  <2>1. DOMAIN down = S
    OBVIOUS
  <2>2. \A x \in S : 1 .. down[x] = {}
    BY <1>1
  <2> HIDE DEF down
  <2> QED
    BY <2>1, <2>2, UnitsAre
<1>5. AddUp(down) = 0
  <2> HIDE DEF down
  <2> QED
    BY <1>3, <1>4, AddUpType, FS_EmptySet
<1>6. Total(f) = AddUp(up) - AddUp(down)
  <2>1. f \in [S -> Int]
    OBVIOUS
  <2> QED
    BY <2>1, TotalSplit
<1>7. AddUp(f) \in Nat
  BY AddUpType
<1> HIDE DEF up, down
<1> QED
  BY <1>2, <1>5, <1>6, <1>7

\* Invoices that count for nothing do not change the sum.
LEMMA TotalWider ==
  ASSUME NEW S, NEW T \in SUBSET S, NEW f, DOMAIN f = T
  PROVE  Total([x \in S |-> IF x \in T THEN f[x] ELSE 0]) = Total(f)
<1> DEFINE wide == [x \in S |-> IF x \in T THEN f[x] ELSE 0]
           Amounts(e) == [x \in DOMAIN e |-> [amount |-> e[x]]]
           Negated(e) == [x \in DOMAIN e |-> [amount |-> -e[x]]]
<1>1. \A x \in T : wide[x] = f[x]
  OBVIOUS
<1>2. \A x \in S \ T : 1 .. wide[x] = {} /\ 1 .. (-wide[x]) = {}
  OBVIOUS
<1>3. DOMAIN wide = S
  OBVIOUS
<1> HIDE DEF wide
<1>4. CentsOf(Amounts(wide), S) = CentsOf(Amounts(f), T)
  BY <1>1, <1>2, <1>3 DEF CentsOf
<1>5. CentsOf(Negated(wide), S) = CentsOf(Negated(f), T)
  BY <1>1, <1>2, <1>3 DEF CentsOf
<1>6. Total(wide) = Total(f)
  BY <1>3, <1>4, <1>5 DEF Total, SumOf
<1> QED
  BY <1>6 DEF wide

\* The sum of one amount is that amount.
LEMMA TotalOne ==
  ASSUME NEW S, IsFiniteSet(S), NEW y \in S, NEW n \in Nat
  PROVE  AddUp([x \in S |-> IF x = y THEN n ELSE 0]) = n
<1> DEFINE alone == [x \in S |-> IF x = y THEN n ELSE 0]
<1>1. alone \in [S -> Nat]
  OBVIOUS
<1>2. Units(alone) = {y} \X (1 .. n)
  <2>1. DOMAIN alone = S /\ alone[y] = n
    OBVIOUS
  <2>2. \A x \in S : x # y => 1 .. alone[x] = {}
    OBVIOUS
  <2> HIDE DEF alone
  <2> QED
    BY <2>1, <2>2, UnitsAre
<1> HIDE DEF alone
<1> QED
  BY <1>1, <1>2, AddUpType, CentsOfOne DEF alone

(* ------------------------------- invariant ------------------------------ *)

\* A step of the server is one of credit control or changes nothing of it.
LEMMA CreditRuns == [OfficeNext]_officeVars => [CreditNext]_creditVars
  BY DEF OfficeNext, officeVars, OfSignIn, OfAccess, OfCredit, OfImports, OfFiles, OfReminders,
         OfNumbers

\* Request p has read the invoice and the terms.
Begun(p) == issuing[p].at \notin {"idle", "terms"}

\* Request p holds the balances it read.
HoldsBalances(p) == issuing[p].at \in {"notes", "rates", "decide"}

\* What p has read and will read of invoice e, while its notes are still to come or not.
Seen(p, e) ==
  LET r == issuing[p]
  IN IF e \in DOMAIN r.balances
     THEN IF r.at = "notes" THEN r.balances[e] + debts[e].net ELSE r.balances[e]
     ELSE IF e = r.debt THEN r.total ELSE 0

\* What p counts invoice e as, in the base currency, once the rates are read.
Charged(p, e) ==
  LET r == issuing[p]
  IN IF e \in DOMAIN r.balances THEN r.balances[e]
     ELSE IF e = r.debt THEN InBase(e, r.total) ELSE 0

\* What is missing from the decision of p about invoice e.
Missing(p, e) == Positive(InBase(e, Share(issuing[p].debt, e)) - Charged(p, e))

Held == {<<>>} \union UNION {[S -> Int] : S \in SUBSET Debts}

Request ==
  [at : {"idle", "terms", "balances", "notes", "rates", "decide", "write"},
   debt : Debts \union {None}, total : Nat, terms : Terms \union {None}, balances : Held,
   unknown : BOOLEAN, override : BOOLEAN]

ReadsTyped(p) ==
  /\ issuing[p].at # "idle" => issuing[p].debt \in Debts
  /\ Begun(p) => issuing[p].terms \in Terms
  /\ HoldsBalances(p) =>
       /\ DOMAIN issuing[p].balances \subseteq Debts
       /\ \A e \in DOMAIN issuing[p].balances :
            issuing[p].balances[e] \in Int /\ debts[e].status # "DRAFT"

\* Before the balances are read, a draft may have grown since its total was read.
DraftTold(p) ==
  LET d == issuing[p].debt
  IN issuing[p].at = "balances" =>
       /\ debts[d].total - issuing[p].total <= upset[p].added[d]
       /\ ~Owed(d) => Owing(d) - issuing[p].total <= upset[p].added[d]

\* Until the rates are read, what an invoice adds and was not read was added meanwhile.
AddedTold(p) ==
  issuing[p].at \in {"notes", "rates"} =>
    \A e \in Debts : Share(issuing[p].debt, e) - Seen(p, e) <= upset[p].added[e]

\* After that, what the decision misses was.
MissingTold(p) ==
  issuing[p].at = "decide" => Total([e \in Debts |-> Missing(p, e)]) <= upset[p].more

\* An invoice about to be issued leaves the customer within the limit, but for that.
LimitTold(p) ==
  LET limit == EffectiveLimit(issuing[p].terms)
  IN issuing[p].at = "write" /\ ~issuing[p].override /\ limit # None =>
       Prospect(issuing[p].debt) <= limit + upset[p].more

\* When nothing changed, what was read is what there is.
ReadsHold(p) ==
  LET r == issuing[p]
  IN Begun(p) /\ upset[p].steady =>
       /\ terms = r.terms
       /\ HoldsBalances(p) => DOMAIN r.balances = {e \in Debts : Owed(e)}
       /\ r.at = "decide" =>
            (r.unknown <=> \E e \in Debts : Owed(e) /\ ~RateKnown(debts[e].currency))
       /\ r.at = "write" /\ ~r.override => FailsClosed(p)

IssuingInv(p) ==
  /\ ReadsTyped(p) /\ DraftTold(p) /\ AddedTold(p) /\ MissingTold(p) /\ LimitTold(p)
  /\ ReadsHold(p)

\* Invoices, rates and history have their types, and no request is misled.
CreditInv ==
  /\ CreditTypeOK /\ issuing \in [Officers -> Request]
  /\ \A p \in Officers : IssuingInv(p)

\* The service starts with nothing told and nothing to explain.
LEMMA CreditStarts ==
  ASSUME CreditInit
  PROVE  CreditInv
<1> USE CreditAssumption
<1>1. CreditTypeOK
  <2>1. debts \in [Debts -> [status : InvoiceStatus, currency : Currencies, total : Values,
                             paid : Nat, net : {-1, 0, 1}]]
    BY DEF CreditInit, InvoiceStatus
  <2>2. upset \in [Officers -> [steady : BOOLEAN, added : [Debts -> Nat], more : Nat]]
    BY DEF CreditInit, Calm
  <2> QED
    BY <2>1, <2>2 DEF CreditInit, CreditTypeOK, NoIssue
<1>2. \A p \in Officers : issuing[p].at = "idle"
  BY DEF CreditInit, NoIssue
<1>3. \A p \in Officers : IssuingInv(p)
  BY <1>2 DEF IssuingInv, ReadsTyped, DraftTold, AddedTold, MissingTold, LimitTold, ReadsHold,
              Begun, HoldsBalances
<1>4. issuing \in [Officers -> Request]
  <2>1. NoIssue \in Request
    BY DEF NoIssue, Request, Held
  <2> QED
    BY <2>1 DEF CreditInit
<1> QED
  BY <1>1, <1>3, <1>4 DEF CreditInv

(* -------------------------------- steps --------------------------------- *)

\* What a step may do to one invoice: it is issued, edited, cancelled, settled further or less,
\* or its notes change.
Reissued(e) == debts'[e] = [debts[e] EXCEPT !.status = "ISSUED"]
Edited(e) ==
  /\ debts[e].status = "DRAFT"
  /\ \E v \in Values : debts'[e] = [debts[e] EXCEPT !.total = v]
CalledOff(e) ==
  /\ debts[e].paid = 0 /\ debts[e].net = 0
  /\ debts'[e] = [debts[e] EXCEPT !.status = "CANCELLED"]
Settled(e) ==
  /\ debts[e].status \in {"ISSUED", "PARTIALLY_PAID", "PAID"}
  /\ \E n \in Nat : \E s \in {"ISSUED", "PARTIALLY_PAID", "PAID"} :
       debts'[e] = [debts[e] EXCEPT !.paid = n, !.status = s]
Noted(e) ==
  /\ debts[e].status # "CANCELLED"
  /\ \E n \in {-1, 0, 1} : debts'[e] = [debts[e] EXCEPT !.net = n]

DebtMoves(e) ==
  debts'[e] = debts[e] \/ Reissued(e) \/ Edited(e) \/ CalledOff(e) \/ Settled(e) \/ Noted(e)

Debt == [status : InvoiceStatus, currency : Currencies, total : Values, paid : Nat,
         net : {-1, 0, 1}]

\* A step does to each invoice one of these things, or leaves it alone.
LEMMA DebtsMove ==
  ASSUME CreditInv, CreditStep
  PROVE  debts' = [x \in Debts |-> debts'[x]] /\ \A e \in Debts : DebtMoves(e)
<1> USE CreditAssumption
<1>1. debts \in [Debts -> Debt]
  BY DEF CreditInv, CreditTypeOK, Debt
<1>2. ASSUME NEW p \in Officers, WriteIssued(p)
      PROVE  /\ debts' = [x \in Debts |-> debts'[x]]
             /\ \A e \in Debts : debts'[e] = debts[e] \/ Reissued(e)
  BY <1>1, <1>2 DEF WriteIssued, Reissued
<1>3. ASSUME NEW d \in Debts, EditDraft(d)
      PROVE  /\ debts' = [x \in Debts |-> debts'[x]]
             /\ \A e \in Debts : debts'[e] = debts[e] \/ Edited(e)
  BY <1>1, <1>3 DEF EditDraft, Edited
<1>4. ASSUME NEW d \in Debts, CancelDebt(d)
      PROVE  /\ debts' = [x \in Debts |-> debts'[x]]
             /\ \A e \in Debts : debts'[e] = debts[e] \/ CalledOff(e)
  BY <1>1, <1>4 DEF CancelDebt, CalledOff
<1>5. ASSUME NEW d \in Debts, Collect(d)
      PROVE  /\ debts' = [x \in Debts |-> debts'[x]]
             /\ \A e \in Debts : debts'[e] = debts[e] \/ Settled(e)
  <2>1. PICK a \in 1 .. Owing(d) :
          debts' = [debts EXCEPT ![d].paid = @ + a,
                                 ![d].status = IF a = Owing(d) THEN "PAID" ELSE "PARTIALLY_PAID"]
    BY <1>5 DEF Collect
  <2>2. debts[d] \in Debt
    BY <1>1
  <2>3. debts[d].paid + a \in Nat
    BY <2>2 DEF Debt, Owing, BalanceWithoutNotes
  <2>4. PICK s \in {"ISSUED", "PARTIALLY_PAID", "PAID"} :
          s = IF a = Owing(d) THEN "PAID" ELSE "PARTIALLY_PAID"
    OBVIOUS
  <2>5. debts'[d] = [debts[d] EXCEPT !.paid = debts[d].paid + a, !.status = s]
    BY <1>1, <2>1, <2>4
  <2>6. Settled(d)
    BY <1>5, <2>3, <2>5 DEF Settled, Collect
  <2> QED
    BY <1>1, <2>1, <2>6
<1>6. ASSUME NEW d \in Debts, Refund(d)
      PROVE  /\ debts' = [x \in Debts |-> debts'[x]]
             /\ \A e \in Debts : debts'[e] = debts[e] \/ Settled(e)
  <2>1. debts' = [debts EXCEPT ![d].paid = 0, ![d].status = "ISSUED"]
    BY <1>6 DEF Refund
  <2>2. debts'[d] = [debts[d] EXCEPT !.paid = 0, !.status = "ISSUED"]
    BY <1>1, <2>1
  <2>3. Settled(d)
    BY <1>6, <2>2 DEF Settled, Refund
  <2> QED
    BY <1>1, <2>1, <2>3
<1>7. ASSUME NEW d \in Debts, NoteIssued(d)
      PROVE  /\ debts' = [x \in Debts |-> debts'[x]]
             /\ \A e \in Debts : debts'[e] = debts[e] \/ Noted(e)
  BY <1>1, <1>7 DEF NoteIssued, Noted
<1>8. ASSUME UNCHANGED debts
      PROVE  debts' = [x \in Debts |-> debts'[x]] /\ \A e \in Debts : debts'[e] = debts[e]
  BY <1>1, <1>8
<1>9. CASE \E p \in Officers : WriteIssued(p)
  BY <1>2, <1>9 DEF DebtMoves
<1>10. CASE \E d \in Debts : \/ EditDraft(d) \/ CancelDebt(d) \/ Collect(d) \/ Refund(d)
                             \/ NoteIssued(d)
  BY <1>3, <1>4, <1>5, <1>6, <1>7, <1>10 DEF DebtMoves
<1>11. CASE UNCHANGED debts
  BY <1>8, <1>11 DEF DebtMoves
<1>12. CASE \E p \in Officers :
              \/ BeginIssuing(p) \/ ReadTerms(p) \/ ReadBalances(p) \/ ReadNotes(p)
              \/ ReadRates(p) \/ Decide(p)
  BY <1>11, <1>12 DEF BeginIssuing, ReadTerms, ReadBalances, ReadNotes, ReadRates, Decide
<1>13. CASE ChangeTerms \/ \E c \in Currencies \ {Base} : ChangeRate(c)
  BY <1>11, <1>13 DEF ChangeTerms, ChangeRate
<1> QED
  BY <1>9, <1>10, <1>12, <1>13 DEF CreditStep


\* An invoice keeps its currency, and no invoice becomes a draft again.
LEMMA DebtKept ==
  ASSUME NEW e, debts[e] \in Debt, DebtMoves(e)
  PROVE  /\ debts'[e] \in Debt /\ debts'[e].currency = debts[e].currency
         /\ debts[e].status # "DRAFT" => debts'[e].status # "DRAFT"
BY DEF DebtMoves, Reissued, Edited, CalledOff, Settled, Noted, Debt, InvoiceStatus

\* The rows the decision is drawn from have their types ...
Tables ==
  debts \in [Debts -> Debt] /\ terms \in Terms /\ fx \in [Currencies \ {Base} -> FxRates]

\* ... and so what is counted of them is a number; a conversion multiplies by a rate, 1 when
\* there is none.
RateOf(e) ==
  LET c == debts[e].currency
  IN IF c = Base \/ fx[c] = None THEN 1 ELSE fx[c]

Measured ==
  \A e \in Debts :
    /\ debts[e].total \in Nat /\ debts[e].paid \in Nat /\ debts[e].net \in Int
    /\ Owing(e) = debts[e].total - debts[e].paid + debts[e].net /\ Owing(e) \in Int
    /\ \A d : Share(d, e) \in Int
    /\ RateOf(e) \in Nat
    /\ \A n \in Int : InBase(e, n) = n * RateOf(e) /\ InBase(e, n) \in Int

LEMMA TablesMeasured == Tables => Measured
<1> SUFFICES ASSUME Tables, NEW e \in Debts
             PROVE  /\ debts[e].total \in Nat /\ debts[e].paid \in Nat /\ debts[e].net \in Int
                    /\ Owing(e) = debts[e].total - debts[e].paid + debts[e].net /\ Owing(e) \in Int
                    /\ \A d : Share(d, e) \in Int
                    /\ RateOf(e) \in Nat
                    /\ \A n \in Int : InBase(e, n) = n * RateOf(e) /\ InBase(e, n) \in Int
  BY DEF Measured
<1>1. /\ debts[e].total \in Values /\ debts[e].paid \in Nat /\ debts[e].net \in {-1, 0, 1}
      /\ debts[e].currency \in Currencies
  BY DEF Tables, Debt
<1>2. debts[e].total \in Nat /\ debts[e].net \in Int
  <2>1. Values \subseteq Nat
    BY CreditAssumption
  <2>2. debts[e].net = -1 \/ debts[e].net = 0 \/ debts[e].net = 1
    BY <1>1
  <2>3. -1 \in Int /\ 0 \in Int /\ 1 \in Int
    OBVIOUS
  <2>4. debts[e].net \in Int
    BY <2>2, <2>3, Zenon
  <2>5. debts[e].total \in Nat
    BY <1>1, <2>1, Zenon
  <2> QED
    BY <2>4, <2>5
<1>3. Owing(e) = debts[e].total - debts[e].paid + debts[e].net /\ Owing(e) \in Int
  BY <1>1, <1>2 DEF Owing, BalanceWithoutNotes
<1>4. \A d : Share(d, e) \in Int
  BY <1>3 DEF Share
<1>5. RateOf(e) \in Nat
  <2>1. debts[e].currency # Base => fx[debts[e].currency] \in Nat \union {None}
    BY <1>1, CreditAssumption DEF Tables
  <2> QED
    BY <2>1 DEF RateOf
<1>6. ASSUME NEW n \in Int PROVE InBase(e, n) = n * RateOf(e) /\ InBase(e, n) \in Int
  <2>1. InBase(e, n) = n * RateOf(e)
    BY DEF InBase, ToBase, RateOf
  <2> QED
    BY <1>5, <2>1
<1> QED
  BY <1>1, <1>2, <1>3, <1>4, <1>5, <1>6

LEMMA TablesMove ==
  ASSUME Tables, CreditStep, changes \in 0 .. MaxChanges,
         debts' = [x \in Debts |-> debts'[x]], \A e \in Debts : DebtMoves(e)
  PROVE  Tables' /\ changes' \in 0 .. MaxChanges
<1>7. debts' \in [Debts -> Debt]
  <2>1. \A e \in Debts : debts'[e] \in Debt
    BY DebtKept DEF Tables
  <2> QED
    BY <2>1
<1> SUFFICES /\ fx' \in [Currencies \ {Base} -> FxRates] /\ terms' \in Terms
             /\ changes' \in 0 .. MaxChanges
  BY <1>7 DEF Tables
<1>1. /\ fx \in [Currencies \ {Base} -> FxRates] /\ terms \in Terms
      /\ changes \in 0 .. MaxChanges /\ MaxChanges \in Nat
  BY CreditAssumption DEF Tables
<1>2. Elsewhere => changes' \in 0 .. MaxChanges
  BY <1>1 DEF Elsewhere
<1>3. CASE \E p \in Officers :
             \/ BeginIssuing(p) \/ ReadTerms(p) \/ ReadBalances(p) \/ ReadNotes(p)
             \/ ReadRates(p) \/ Decide(p) \/ WriteIssued(p)
  <2>1. UNCHANGED <<terms, fx, changes>>
    BY <1>3 DEF BeginIssuing, ReadTerms, ReadBalances, ReadNotes, ReadRates, Decide, WriteIssued
  <2> QED
    BY <1>1, <2>1
<1>4. CASE \E d \in Debts : \/ EditDraft(d) \/ CancelDebt(d) \/ Collect(d) \/ Refund(d)
                            \/ NoteIssued(d)
  <2>1. Elsewhere /\ UNCHANGED <<terms, fx>>
    BY <1>4 DEF EditDraft, CancelDebt, Collect, Refund, NoteIssued
  <2> QED
    BY <1>1, <1>2, <2>1
<1>5. CASE ChangeTerms
  BY <1>1, <1>2, <1>5 DEF ChangeTerms
<1>6. CASE \E c \in Currencies \ {Base} : ChangeRate(c)
  <2>1. Elsewhere /\ UNCHANGED <<debts, terms>> /\ fx' \in [Currencies \ {Base} -> FxRates]
    BY <1>1, <1>6 DEF ChangeRate
  <2> QED
    BY <1>1, <1>2, <2>1
<1> QED
  BY <1>3, <1>4, <1>5, <1>6 DEF CreditStep


(* ------------------------------ the requests ---------------------------- *)

Own(p) ==
  \/ BeginIssuing(p) \/ ReadTerms(p) \/ ReadBalances(p) \/ ReadNotes(p) \/ ReadRates(p)
  \/ Decide(p) \/ WriteIssued(p)

\* Every read by p of something is a step that leaves p with a larger record.
Puts(p, r) == issuing' = [issuing EXCEPT ![p] = r]

LEMMA HeldBalances ==
  ASSUME NEW T \in SUBSET Debts, NEW f, f = [e \in T |-> f[e]], \A e \in T : f[e] \in Int
  PROVE  f \in Held
<1>1. f \in [T -> Int]
  OBVIOUS
<1> QED
  BY <1>1 DEF Held

\* What each of its steps makes of a request.
LEMMA ReadTermsPuts ==
  ASSUME issuing \in [Officers -> Request], Tables, NEW p \in Officers, ReadTerms(p),
         issuing[p].debt \in Debts
  PROVE  /\ Puts(p, issuing'[p]) /\ issuing'[p] \in Request
         /\ issuing'[p].at = "balances" /\ issuing'[p].debt = issuing[p].debt
         /\ issuing'[p].total = debts[issuing[p].debt].total /\ issuing'[p].terms = terms
<1>1. issuing' = [issuing EXCEPT ![p] =
        [issuing[p] EXCEPT !.at = "balances", !.terms = terms,
                           !.total = debts[issuing[p].debt].total]]
  BY DEF ReadTerms
<1>2. debts[issuing[p].debt].total \in Nat /\ terms \in Terms
  BY TablesMeasured DEF Measured, Tables
<1>3. issuing[p] \in Request
  OBVIOUS
<1>4. issuing'[p] = [issuing[p] EXCEPT !.at = "balances", !.terms = terms,
                                       !.total = debts[issuing[p].debt].total]
  BY <1>1
<1>5. Puts(p, issuing'[p])
  BY <1>1, <1>4 DEF Puts
<1> QED
  BY <1>2, <1>3, <1>4, <1>5 DEF Request

LEMMA ReadBalancesPuts ==
  ASSUME issuing \in [Officers -> Request], Tables, NEW p \in Officers, ReadBalances(p)
  PROVE  /\ Puts(p, issuing'[p]) /\ issuing'[p] \in Request
         /\ issuing'[p] = [issuing[p] EXCEPT !.at = "notes",
                             !.balances = [d \in {e \in Debts : Owed(e)} |->
                                             BalanceWithoutNotes(d)]]
<1> DEFINE b == [d \in {e \in Debts : Owed(e)} |-> BalanceWithoutNotes(d)]
<1>1. issuing' = [issuing EXCEPT ![p] = [issuing[p] EXCEPT !.at = "notes", !.balances = b]]
  BY DEF ReadBalances
<1>2. b \in Held
  <2>1. \A e \in Debts : BalanceWithoutNotes(e) \in Int
    BY TablesMeasured DEF Measured, BalanceWithoutNotes
  <2>2. \A e \in {x \in Debts : Owed(x)} : b[e] \in Int
    BY <2>1
  <2>3. b = [e \in {x \in Debts : Owed(x)} |-> b[e]]
    OBVIOUS
  <2> HIDE DEF b
  <2> QED
    BY <2>2, <2>3, HeldBalances
<1> HIDE DEF b
<1>3. issuing'[p] = [issuing[p] EXCEPT !.at = "notes", !.balances = b]
  BY <1>1
<1>4. issuing'[p] \in Request
  BY <1>2, <1>3 DEF Request
<1>5. Puts(p, issuing'[p])
  BY <1>1, <1>3 DEF Puts
<1> QED
  BY <1>3, <1>4, <1>5 DEF b

LEMMA ReadNotesPuts ==
  ASSUME issuing \in [Officers -> Request], Tables, NEW p \in Officers, ReadNotes(p),
         ReadsTyped(p)
  PROVE  /\ Puts(p, issuing'[p]) /\ issuing'[p] \in Request
         /\ issuing'[p] = [issuing[p] EXCEPT !.at = "rates",
              !.balances = [d \in DOMAIN issuing[p].balances |->
                              issuing[p].balances[d] + debts[d].net]]
<1> DEFINE T == DOMAIN issuing[p].balances
           b == [d \in T |-> issuing[p].balances[d] + debts[d].net]
<1>1. issuing' = [issuing EXCEPT ![p] = [issuing[p] EXCEPT !.at = "rates", !.balances = b]]
  BY DEF ReadNotes
<1>2. b \in Held
  <2>1. T \subseteq Debts /\ \A e \in T : issuing[p].balances[e] \in Int
    BY DEF ReadsTyped, HoldsBalances, ReadNotes
  <2>2. \A e \in T : debts[e].net \in Int
    BY <2>1, TablesMeasured DEF Measured
  <2>3. \A e \in T : b[e] \in Int
    BY <2>1, <2>2
  <2>4. b = [e \in T |-> b[e]]
    OBVIOUS
  <2> HIDE DEF b, T
  <2> QED
    BY <2>1, <2>3, <2>4, HeldBalances
<1> HIDE DEF b
<1>3. issuing'[p] = [issuing[p] EXCEPT !.at = "rates", !.balances = b]
  BY <1>1
<1>4. issuing'[p] \in Request
  BY <1>2, <1>3 DEF Request
<1>5. Puts(p, issuing'[p])
  BY <1>1, <1>3 DEF Puts
<1> QED
  BY <1>3, <1>4, <1>5 DEF b

LEMMA ReadRatesPuts ==
  ASSUME issuing \in [Officers -> Request], Tables, NEW p \in Officers, ReadRates(p),
         ReadsTyped(p)
  PROVE  /\ Puts(p, issuing'[p]) /\ issuing'[p] \in Request
         /\ issuing'[p] = [issuing[p] EXCEPT !.at = "decide",
              !.balances = [d \in DOMAIN issuing[p].balances |->
                              InBase(d, issuing[p].balances[d])],
              !.unknown = \E d \in DOMAIN issuing[p].balances : ~RateKnown(debts[d].currency)]
<1> DEFINE T == DOMAIN issuing[p].balances
           b == [d \in T |-> InBase(d, issuing[p].balances[d])]
           lacks == \E d \in T : ~RateKnown(debts[d].currency)
<1>1. issuing' = [issuing EXCEPT ![p] =
                    [issuing[p] EXCEPT !.at = "decide", !.balances = b, !.unknown = lacks]]
  BY DEF ReadRates
<1>2. b \in Held
  <2>1. T \subseteq Debts /\ \A e \in T : issuing[p].balances[e] \in Int
    BY DEF ReadsTyped, HoldsBalances, ReadRates
  <2>2. \A e \in T : \A n \in Int : InBase(e, n) \in Int
    BY <2>1, TablesMeasured DEF Measured
  <2>3. \A e \in T : b[e] \in Int
    BY <2>1, <2>2
  <2>4. b = [e \in T |-> b[e]]
    OBVIOUS
  <2> HIDE DEF b, T
  <2> QED
    BY <2>1, <2>3, <2>4, HeldBalances
<1>3. lacks \in BOOLEAN
  OBVIOUS
<1> HIDE DEF b, lacks
<1>4. issuing'[p] = [issuing[p] EXCEPT !.at = "decide", !.balances = b, !.unknown = lacks]
  BY <1>1
<1>5. issuing'[p] \in Request
  BY <1>2, <1>3, <1>4 DEF Request
<1>6. Puts(p, issuing'[p])
  BY <1>1, <1>4 DEF Puts
<1> QED
  BY <1>4, <1>5, <1>6 DEF b, lacks


LEMMA BeginIssuingPuts ==
  ASSUME issuing \in [Officers -> Request], NEW p \in Officers, BeginIssuing(p)
  PROVE  /\ Puts(p, issuing'[p]) /\ issuing'[p] \in Request
         /\ issuing'[p].at = "terms" /\ issuing'[p].debt \in Debts
<1>1. PICK d \in Debts :
        issuing' = [issuing EXCEPT ![p] = [NoIssue EXCEPT !.at = "terms", !.debt = d]]
  BY DEF BeginIssuing
<1>2. issuing'[p] = [NoIssue EXCEPT !.at = "terms", !.debt = d]
  BY <1>1
<1>3. NoIssue \in Request
  BY DEF NoIssue, Request, Held
<1>4. issuing'[p] \in Request
  BY <1>2, <1>3 DEF Request
<1>5. issuing'[p].at = "terms" /\ issuing'[p].debt \in Debts
  BY <1>2 DEF NoIssue
<1> QED
  BY <1>1, <1>2, <1>4, <1>5 DEF Puts

\* What p concludes when it decides.
Verdict(p) ==
  LET r == issuing[p]
      c == debts[r.debt].currency
  IN Allowed(r.terms, r.unknown \/ ~RateKnown(c), Total(r.balances) + ToBase(r.total, c))

LEMMA DecidePuts ==
  ASSUME issuing \in [Officers -> Request], NEW p \in Officers, Decide(p)
  PROVE  /\ Puts(p, issuing'[p]) /\ issuing'[p] \in Request
         /\ \/ issuing'[p] = NoIssue
            \/ issuing'[p] = [issuing[p] EXCEPT !.at = "write", !.balances = <<>>,
                                                !.override = ~Verdict(p)]
<1> DEFINE no == ~Verdict(p)
           after == [issuing[p] EXCEPT !.at = "write", !.balances = <<>>, !.override = no]
<1>1. issuing' = [issuing EXCEPT ![p] = after] \/ issuing' = [issuing EXCEPT ![p] = NoIssue]
  BY DEF Decide, Verdict
<1>2. no \in BOOLEAN
  OBVIOUS
<1> HIDE DEF no
<1>3. after \in Request
  BY <1>2 DEF Request, Held
<1>4. NoIssue \in Request
  BY DEF NoIssue, Request, Held
<1>5. issuing'[p] = after \/ issuing'[p] = NoIssue
  BY <1>1
<1>6. Puts(p, issuing'[p])
  <2> HIDE DEF after
  <2> QED
    BY <1>1 DEF Puts
<1> QED
  BY <1>3, <1>4, <1>5, <1>6 DEF no

LEMMA WriteIssuedPuts ==
  ASSUME issuing \in [Officers -> Request], NEW p \in Officers, WriteIssued(p)
  PROVE  Puts(p, issuing'[p]) /\ issuing'[p] \in Request /\ issuing'[p] = NoIssue
<1>1. issuing' = [issuing EXCEPT ![p] = NoIssue]
  BY DEF WriteIssued
<1>2. issuing'[p] = NoIssue
  BY <1>1
<1>3. NoIssue \in Request
  BY DEF NoIssue, Request, Held
<1> QED
  BY <1>1, <1>2, <1>3 DEF Puts

\* A step is of one request, and leaves the others as they are.
LEMMA OwnPuts ==
  ASSUME CreditInv, Tables, NEW p \in Officers, Own(p)
  PROVE  Puts(p, issuing'[p]) /\ issuing'[p] \in Request
<1>1. issuing \in [Officers -> Request] /\ ReadsTyped(p)
  BY DEF CreditInv, IssuingInv
<1>2. ReadTerms(p) => issuing[p].debt \in Debts
  BY <1>1 DEF ReadTerms, ReadsTyped
<1> QED
  BY <1>1, <1>2, BeginIssuingPuts, ReadTermsPuts, ReadBalancesPuts, ReadNotesPuts, ReadRatesPuts,
     DecidePuts, WriteIssuedPuts DEF Own

LEMMA OneMoves ==
  ASSUME CreditInv, CreditStep, NEW p \in Officers
  PROVE  issuing' \in [Officers -> Request] /\ (Own(p) \/ issuing'[p] = issuing[p])
<1>1. issuing \in [Officers -> Request] /\ Tables
  BY DEF CreditInv, CreditTypeOK, Tables, Debt
<1>2. ASSUME NEW q \in Officers, Own(q)
      PROVE  issuing' \in [Officers -> Request] /\ (Own(p) \/ issuing'[p] = issuing[p])
  <2>1. Puts(q, issuing'[q]) /\ issuing'[q] \in Request
    BY <1>1, <1>2, OwnPuts
  <2>2. issuing' \in [Officers -> Request]
    BY <1>1, <2>1 DEF Puts
  <2>3. p = q \/ issuing'[p] = issuing[p]
    BY <1>1, <2>1 DEF Puts
  <2> QED
    BY <1>2, <2>2, <2>3
<1>3. CASE UNCHANGED issuing
  BY <1>1, <1>3
<1>4. CASE \E d \in Debts : \/ EditDraft(d) \/ CancelDebt(d) \/ Collect(d) \/ Refund(d)
                            \/ NoteIssued(d)
  BY <1>3, <1>4 DEF EditDraft, CancelDebt, Collect, Refund, NoteIssued, Elsewhere
<1>5. CASE ChangeTerms \/ \E c \in Currencies \ {Base} : ChangeRate(c)
  BY <1>3, <1>5 DEF ChangeTerms, ChangeRate, Elsewhere
<1>6. CASE \E q \in Officers : Own(q)
  BY <1>2, <1>6
<1> QED
  BY <1>4, <1>5, <1>6 DEF CreditStep, Own

\* New rates come alone, and so do new terms.
LEMMA RatesAlone ==
  ASSUME CreditStep
  PROVE  fx' = fx \/ debts' = debts
<1>1. CASE \E q \in Officers : Own(q)
  BY <1>1 DEF Own, BeginIssuing, ReadTerms, ReadBalances, ReadNotes, ReadRates, Decide,
     WriteIssued
<1>2. CASE ~\E q \in Officers : Own(q)
  BY <1>2 DEF CreditStep, Own, EditDraft, CancelDebt, Collect, Refund, NoteIssued, ChangeTerms,
     ChangeRate
<1> QED
  BY <1>1, <1>2


(* ----------------------------- what is added ---------------------------- *)

History == [steady : BOOLEAN, added : [Debts -> Nat], more : Nat]

\* What a step adds to the share of invoice e in the exposure once d is issued, in the currency
\* of e and in the base currency.
Grown(d, e) == Positive(Share(d, e)' - Share(d, e))
GrownInBase(d, e) == Positive(InBase(e, Share(d, e))' - InBase(e, Share(d, e)))

StillCalm(p) == upset[p].steady /\ <<debts, terms, fx>>' = <<debts, terms, fx>>

LEMMA PositiveNat == \A n \in Int : Positive(n) \in Nat /\ Positive(n) >= n
BY DEF Positive

\* The history of request p after a step, by what the request does in it.
LEMMA UpsetQuiet ==
  ASSUME Upset, NEW p \in Officers, issuing'[p].at \in {"idle", "terms"}
  PROVE  upset'[p] = Calm
<1>1. upset'[p] = UpsetAfter(p)
  BY DEF Upset
<1> QED
  BY <1>1 DEF UpsetAfter

LEMMA UpsetBegins ==
  ASSUME Upset, NEW p \in Officers, issuing[p].at = "terms", issuing'[p].at = "balances"
  PROVE  upset'[p] = [Calm EXCEPT !.added[issuing[p].debt] = Unseen(issuing[p].debt)]
<1>1. upset'[p] = UpsetAfter(p)
  BY DEF Upset
<1> QED
  BY <1>1 DEF UpsetAfter

LEMMA UpsetAdds ==
  ASSUME Upset, NEW p \in Officers, NEW d, issuing[p].debt = d, issuing'[p].debt = d,
         issuing[p].at # "terms", issuing'[p].at \in {"balances", "notes", "rates"}
  PROVE  upset'[p] = [upset[p] EXCEPT !.steady = StillCalm(p),
                        !.added = [e \in Debts |-> upset[p].added[e] + Grown(d, e)]]
<1>1. upset'[p] = UpsetAfter(p)
  BY DEF Upset
<1>2. \A e : Share(issuing[p].debt, e)' = Share(d, e)'
  OBVIOUS
<1> QED
  BY <1>1, <1>2 DEF UpsetAfter, Grown, StillCalm


LEMMA UpsetConverts ==
  ASSUME Upset, NEW p \in Officers, issuing[p].at = "rates", issuing'[p].at = "decide"
  PROVE  upset'[p] = [upset[p] EXCEPT !.added = Calm.added,
                        !.more = Total([e \in Debts |-> InBase(e, upset[p].added[e])])]
<1>1. upset'[p] = UpsetAfter(p)
  BY DEF Upset
<1> QED
  BY <1>1 DEF UpsetAfter

LEMMA UpsetAddsInBase ==
  ASSUME Upset, NEW p \in Officers, NEW d, issuing[p].debt = d, issuing'[p].debt = d,
         issuing[p].at \in {"decide", "write"}, issuing'[p].at \in {"decide", "write"}
  PROVE  upset'[p] = [upset[p] EXCEPT !.steady = StillCalm(p),
                        !.more = upset[p].more + Total([e \in Debts |-> GrownInBase(d, e)])]
<1>1. upset'[p] = UpsetAfter(p)
  BY DEF Upset
<1>2. \A e : InBase(e, Share(issuing[p].debt, e))' = InBase(e, Share(d, e))'
  OBVIOUS
<1> QED
  BY <1>1, <1>2 DEF UpsetAfter, GrownInBase, StillCalm

\* The ways a request goes on: it starts or ends, it reads the terms, it reads the rates, or it
\* stays with its invoice on the same side of the rates.
LEMMA Stages ==
  ASSUME CreditInv, CreditStep, NEW p \in Officers
  PROVE  \/ issuing'[p].at \in {"idle", "terms"}
         \/ ReadTerms(p)
         \/ ReadRates(p)
         \/ /\ issuing'[p].debt = issuing[p].debt /\ issuing[p].debt \in Debts
            /\ issuing[p].at \in {"balances", "notes", "rates"}
            /\ issuing'[p].at \in {"balances", "notes", "rates"}
         \/ /\ issuing'[p].debt = issuing[p].debt /\ issuing[p].debt \in Debts
            /\ issuing[p].at \in {"decide", "write"} /\ issuing'[p].at \in {"decide", "write"}
<1>1. issuing \in [Officers -> Request] /\ Tables /\ ReadsTyped(p)
  BY DEF CreditInv, CreditTypeOK, Tables, Debt, IssuingInv
<1>2. issuing[p] \in Request
  BY <1>1
<1>3. CASE issuing'[p] = issuing[p]
  BY <1>1, <1>2, <1>3 DEF Request, ReadsTyped
<1>4. CASE BeginIssuing(p)
  BY <1>1, <1>4, BeginIssuingPuts
<1>5. CASE ReadBalances(p)
  <2>1. issuing'[p].debt = issuing[p].debt /\ issuing'[p].at = "notes"
    BY <1>1, <1>2, <1>5, ReadBalancesPuts DEF Request
  <2> QED
    BY <1>1, <1>5, <2>1 DEF ReadBalances, ReadsTyped
<1>6. CASE ReadNotes(p)
  <2>1. issuing'[p].debt = issuing[p].debt /\ issuing'[p].at = "rates"
    BY <1>1, <1>2, <1>6, ReadNotesPuts DEF Request
  <2> QED
    BY <1>1, <1>6, <2>1 DEF ReadNotes, ReadsTyped
<1>7. CASE Decide(p)
  <2>1. \/ issuing'[p] = NoIssue
        \/ /\ issuing'[p].debt = issuing[p].debt
           /\ issuing'[p].at = "write"
    BY <1>1, <1>2, <1>7, DecidePuts DEF Request
  <2> QED
    BY <1>1, <1>7, <2>1 DEF Decide, ReadsTyped, NoIssue
<1>8. CASE WriteIssued(p)
  BY <1>1, <1>8, WriteIssuedPuts DEF NoIssue
<1> QED
  BY <1>3, <1>4, <1>5, <1>6, <1>7, <1>8, OneMoves DEF Own

LEMMA GrownNat ==
  ASSUME Measured, Measured', NEW d, NEW e \in Debts
  PROVE  Grown(d, e) \in Nat /\ GrownInBase(d, e) \in Nat
<1>1. Share(d, e) \in Int /\ Share(d, e)' \in Int
  BY DEF Measured
<1>2. InBase(e, Share(d, e)) \in Int /\ InBase(e, Share(d, e))' \in Int
  <2>1. InBase(e, Share(d, e)) \in Int
    BY <1>1 DEF Measured
  <2>2. PICK n \in Int : n = Share(d, e)'
    BY <1>1
  <2>3. InBase(e, n)' \in Int
    BY DEF Measured
  <2>4. InBase(e, Share(d, e))' = InBase(e, n)'
    BY <2>2
  <2> QED
    BY <2>1, <2>3, <2>4
<1> QED
  BY <1>1, <1>2 DEF Grown, GrownInBase, Positive

LEMMA HistoryTyped ==
  ASSUME CreditInv, Measured, Measured', CreditStep, Upset, NEW p \in Officers
  PROVE  upset'[p] \in History
<1>1. upset[p] \in History /\ IsFiniteSet(Debts) /\ ReadsTyped(p)
  BY CreditAssumption DEF CreditInv, CreditTypeOK, IssuingInv, History
<1>2. issuing[p].debt = issuing[p].debt
  OBVIOUS
<1>3. Calm \in History
  BY DEF Calm, History
<1>4. CASE issuing'[p].at \in {"idle", "terms"}
  BY <1>3, <1>4, UpsetQuiet
<1>5. CASE ReadTerms(p)
  <2>1. issuing[p].at = "terms" /\ issuing'[p].at = "balances" /\ issuing[p].debt \in Debts
    BY <1>5, <1>1, ReadTermsPuts DEF ReadTerms, ReadsTyped, CreditInv, CreditTypeOK, Tables, Debt
  <2>2. Unseen(issuing[p].debt) \in Nat
    BY <2>1, PositiveNat DEF Unseen, Measured
  <2>3. upset'[p] = [Calm EXCEPT !.added[issuing[p].debt] = Unseen(issuing[p].debt)]
    BY <2>1, UpsetBegins
  <2> QED
    BY <1>3, <2>2, <2>3 DEF History, Calm
<1>6. CASE ReadRates(p)
  <2>1. issuing[p].at = "rates" /\ issuing'[p].at = "decide"
    <3>1. issuing[p] \in Request /\ Tables /\ issuing \in [Officers -> Request]
      BY DEF CreditInv, CreditTypeOK, Tables, Debt
    <3> QED
      BY <1>1, <1>6, <3>1, ReadRatesPuts DEF ReadRates, Request
  <2>2. \A e \in Debts : upset[p].added[e] \in Nat
    BY <1>1 DEF History
  <2>3. \A e \in Debts : InBase(e, upset[p].added[e]) \in Nat
    <3> SUFFICES ASSUME NEW e \in Debts PROVE InBase(e, upset[p].added[e]) \in Nat
      OBVIOUS
    <3>1. PICK n \in Nat : n = upset[p].added[e]
      BY <2>2
    <3>2. InBase(e, n) = n * RateOf(e) /\ RateOf(e) \in Nat
      BY DEF Measured
    <3> QED
      BY <3>1, <3>2
  <2>4. Total([e \in Debts |-> InBase(e, upset[p].added[e])]) \in Nat
    <3>1. [e \in Debts |-> InBase(e, upset[p].added[e])] \in [Debts -> Nat]
      BY <2>3
    <3> QED
      BY <1>1, <3>1, TotalNat
  <2>5. upset'[p] = [upset[p] EXCEPT !.added = Calm.added,
                       !.more = Total([e \in Debts |-> InBase(e, upset[p].added[e])])]
    BY <2>1, UpsetConverts
  <2> QED
    BY <1>1, <1>3, <2>4, <2>5 DEF History
<1>7. ASSUME issuing'[p].debt = issuing[p].debt, issuing[p].debt \in Debts,
             issuing[p].at \in {"balances", "notes", "rates"},
             issuing'[p].at \in {"balances", "notes", "rates"}
      PROVE  upset'[p] \in History
  <2>1. PICK d \in Debts : d = issuing[p].debt
    BY <1>7
  <2>2. upset'[p] = [upset[p] EXCEPT !.steady = StillCalm(p),
                       !.added = [e \in Debts |-> upset[p].added[e] + Grown(d, e)]]
    <3>1. issuing[p].debt = d /\ issuing'[p].debt = d
      BY <1>7, <2>1
    <3>2. issuing[p].at # "terms" /\ issuing'[p].at \in {"balances", "notes", "rates"}
      BY <1>7
    <3> QED
      BY <3>1, <3>2, UpsetAdds
  <2>3. [e \in Debts |-> upset[p].added[e] + Grown(d, e)] \in [Debts -> Nat]
    <3>1. \A e \in Debts : Grown(d, e) \in Nat /\ upset[p].added[e] \in Nat
      BY <1>1, GrownNat DEF History
    <3> QED
      BY <3>1
  <2>4. StillCalm(p) \in BOOLEAN
    BY <1>1 DEF StillCalm, History
  <2> QED
    BY <1>1, <2>2, <2>3, <2>4 DEF History
<1>8. ASSUME issuing'[p].debt = issuing[p].debt, issuing[p].debt \in Debts,
             issuing[p].at \in {"decide", "write"}, issuing'[p].at \in {"decide", "write"}
      PROVE  upset'[p] \in History
  <2>1. PICK d \in Debts : d = issuing[p].debt
    BY <1>8
  <2>2. upset'[p] = [upset[p] EXCEPT !.steady = StillCalm(p),
                       !.more = upset[p].more + Total([e \in Debts |-> GrownInBase(d, e)])]
    <3>1. issuing[p].debt = d /\ issuing'[p].debt = d
      BY <1>8, <2>1
    <3> QED
      BY <1>8, <3>1, UpsetAddsInBase
  <2>3. Total([e \in Debts |-> GrownInBase(d, e)]) \in Nat
    <3>1. [e \in Debts |-> GrownInBase(d, e)] \in [Debts -> Nat]
      BY GrownNat
    <3> QED
      BY <1>1, <3>1, TotalNat
  <2>4. StillCalm(p) \in BOOLEAN
    BY <1>1 DEF StillCalm, History
  <2>5. upset[p].more + Total([e \in Debts |-> GrownInBase(d, e)]) \in Nat
    BY <1>1, <2>3 DEF History
  <2> QED
    BY <1>1, <2>2, <2>4, <2>5 DEF History
<1> QED
  BY <1>4, <1>5, <1>6, <1>7, <1>8, Stages


(* --------------------------- before the rates --------------------------- *)

\* What an invoice adds counts in full, its own share once it is issued.
LEMMA ShareOwn == ASSUME NEW d PROVE Share(d, d) = Owing(d) /\ Share(d, d)' = Owing(d)'
BY DEF Share, Counted

LEMMA ShareOwed ==
  ASSUME NEW d, NEW e \in Debts
  PROVE  /\ Owed(e) => Share(d, e) = Owing(e)
         /\ Owed(e)' => Share(d, e)' = Owing(e)'
         /\ ~Owed(e) /\ e # d => Share(d, e) = 0
BY DEF Share, Counted

\* What a draft may have grown by since its total was read was added meanwhile.
LEMMA DraftStays ==
  ASSUME NEW d \in Debts, DebtMoves(d), debts[d] \in Debt, Measured, Measured',
         NEW t \in Nat, NEW a \in Nat,
         debts[d].total - t <= a, ~Owed(d) => Owing(d) - t <= a
  PROVE  /\ debts'[d].total - t <= a + Grown(d, d)
         /\ ~Owed(d)' => Owing(d)' - t <= a + Grown(d, d)
<1>1. /\ debts[d].total \in Nat /\ debts[d].paid \in Nat /\ debts[d].net \in Int
      /\ Owing(d) = debts[d].total - debts[d].paid + debts[d].net
  BY DEF Measured
<1>2. /\ debts'[d].total \in Nat /\ debts'[d].paid \in Nat /\ debts'[d].net \in Int
      /\ Owing(d)' = debts'[d].total - debts'[d].paid + debts'[d].net
  BY DEF Measured
<1>3. Grown(d, d) = Positive(Owing(d)' - Owing(d))
  BY ShareOwn DEF Grown
<1>4. Grown(d, d) \in Nat /\ Grown(d, d) >= Owing(d)' - Owing(d)
  BY <1>1, <1>2, <1>3, PositiveNat
<1>5. CASE debts'[d].total # debts[d].total
  <2>1. Edited(d)
    BY <1>5 DEF DebtMoves, Reissued, CalledOff, Settled, Noted, Debt
  <2>2. debts'[d].paid = debts[d].paid /\ debts'[d].net = debts[d].net /\ ~Owed(d)
    BY <2>1 DEF Edited, Debt, Owed
  <2> QED
    BY <1>1, <1>2, <1>4, <2>2
<1>6. CASE debts'[d].total = debts[d].total
  <2>1. ASSUME Owed(d), ~Owed(d)' PROVE Owing(d)' = debts[d].total
    <3>1. CalledOff(d)
      BY <2>1 DEF DebtMoves, Reissued, Edited, Settled, Noted, Debt, Owed
    <3>2. debts'[d].paid = 0 /\ debts'[d].net = 0
      BY <3>1 DEF CalledOff, Debt
    <3> QED
      BY <1>1, <1>2, <1>6, <3>2
  <2> QED
    BY <1>1, <1>2, <1>4, <1>6, <2>1
<1> QED
  BY <1>5, <1>6

\* A request has read all that a draft adds when it reads the terms, but for its notes.
LEMMA DraftBegins ==
  ASSUME NEW d \in Debts, Measured
  PROVE  ~Owed(d) => Owing(d) - debts[d].total <= Unseen(d)
<1>1. /\ debts[d].total \in Nat /\ debts[d].paid \in Nat /\ debts[d].net \in Int
      /\ Owing(d) = debts[d].total - debts[d].paid + debts[d].net
  BY DEF Measured
<1> QED
  BY <1>1 DEF Unseen, Positive

\* What is not seen of an invoice grows by no more than what is added.
LEMMA SeenStays ==
  ASSUME NEW p \in Officers, NEW d \in Debts, NEW e \in Debts, ReadsTyped(p),
         issuing[p].at \in {"notes", "rates"}, issuing[p].debt = d, issuing'[p] = issuing[p],
         issuing[p].total \in Nat, DebtMoves(e), debts[e] \in Debt, Measured, Measured'
  PROVE  Share(d, e)' - Seen(p, e)' <= Share(d, e) - Seen(p, e) + Grown(d, e)
<1>1. /\ debts[e].total \in Nat /\ debts[e].paid \in Nat /\ debts[e].net \in Int
      /\ Owing(e) = debts[e].total - debts[e].paid + debts[e].net
      /\ Share(d, e) \in Int
  BY DEF Measured
<1>2. /\ debts'[e].total \in Nat /\ debts'[e].paid \in Nat /\ debts'[e].net \in Int
      /\ Owing(e)' = debts'[e].total - debts'[e].paid + debts'[e].net
      /\ Share(d, e)' \in Int
  BY DEF Measured
<1>3. Grown(d, e) \in Nat /\ Grown(d, e) >= Share(d, e)' - Share(d, e)
  BY <1>1, <1>2, PositiveNat DEF Grown
<1>4. e \in DOMAIN issuing[p].balances =>
        issuing[p].balances[e] \in Int /\ debts[e].status # "DRAFT"
  BY DEF ReadsTyped, HoldsBalances
<1>5. Seen(p, e) \in Int
  BY <1>1, <1>4 DEF Seen
<1>6. CASE Seen(p, e)' = Seen(p, e)
  BY <1>1, <1>2, <1>3, <1>5, <1>6
<1>7. CASE Seen(p, e)' # Seen(p, e)
  <2>1. e \in DOMAIN issuing[p].balances /\ debts'[e].net # debts[e].net
        /\ Seen(p, e)' = issuing[p].balances[e] + debts'[e].net
        /\ Seen(p, e) = issuing[p].balances[e] + debts[e].net
    BY <1>7 DEF Seen
  <2>2. Noted(e)
    BY <2>1 DEF DebtMoves, Reissued, Edited, CalledOff, Settled, Debt
  <2>3. /\ debts'[e].total = debts[e].total /\ debts'[e].paid = debts[e].paid
        /\ debts'[e].status = debts[e].status
    BY <2>2 DEF Noted, Debt
  <2>4. Owed(e) /\ Owed(e)'
    BY <1>4, <2>1, <2>2, <2>3 DEF Noted, Debt, InvoiceStatus, Owed
  <2>5. Share(d, e) = Owing(e) /\ Share(d, e)' = Owing(e)'
    BY <2>4, ShareOwed
  <2> QED
    BY <1>1, <1>2, <1>3, <1>4, <2>1, <2>3, <2>5
<1> QED
  BY <1>6, <1>7


(* ---------------------------- after the rates --------------------------- *)

\* A larger factor makes more of an amount that is not negative.
LEMMA TimesMonotone ==
  ASSUME NEW m \in Int, NEW n \in Int, m <= n, NEW r \in Nat
  PROVE  m * r <= n * r
<1>1. PICK k \in Nat : k = n - m
  OBVIOUS
<1>2. n = m + k
  BY <1>1
<1>3. n * r = m * r + k * r
  BY <1>2
<1>4. k * r \in Nat
  OBVIOUS
<1>5. m * r \in Int
  OBVIOUS
<1> QED
  BY <1>3, <1>4, <1>5

\* Whether a rate rises or falls, what is owed beyond t grows by no more than what is owed does.
LEMMA RateMoves ==
  ASSUME NEW o \in Int, NEW t \in Nat, NEW r \in Nat, NEW s \in Nat
  PROVE  Positive(o * s - t * s) <= Positive(o * r - t * r) + Positive(o * s - o * r)
<1>1. o * s \in Int /\ t * s \in Int /\ o * r \in Int /\ t * r \in Int
  OBVIOUS
<1>2. CASE o <= t
  <2>1. o * s <= t * s
    BY <1>2, TimesMonotone
  <2> QED
    BY <1>1, <2>1 DEF Positive
<1>3. CASE o > t /\ s <= r
  <2>1. PICK k \in Nat : k = o - t
    BY <1>3
  <2>2. o * s - t * s = k * s /\ o * r - t * r = k * r
    BY <2>1
  <2>3. k * s <= k * r
    <3>1. s * k <= r * k
      BY <1>3, TimesMonotone
    <3> QED
      BY <3>1
  <2>4. k * s \in Int /\ k * r \in Int
    BY <2>1
  <2> QED
    BY <1>1, <2>2, <2>3, <2>4 DEF Positive
<1>4. CASE o > t /\ s > r
  <2>1. t * r <= t * s
    <3>1. r * t <= s * t
      BY <1>4, TimesMonotone
    <3> QED
      BY <3>1
  <2> QED
    BY <1>1, <2>1 DEF Positive
<1> QED
  BY <1>2, <1>3, <1>4

\* What the decision misses of an invoice grows by no more than what is added.
LEMMA MissingStays ==
  ASSUME NEW p \in Officers, NEW d \in Debts, NEW e \in Debts, ReadsTyped(p),
         issuing[p].at = "decide", issuing[p].debt = d, issuing'[p] = issuing[p],
         issuing[p].total \in Nat, DebtMoves(e), debts[e] \in Debt, Measured, Measured',
         fx' = fx \/ debts' = debts
  PROVE  Missing(p, e)' <= Missing(p, e) + GrownInBase(d, e)
<1> DEFINE b == issuing[p].balances
<1>1. /\ Share(d, e) \in Int /\ RateOf(e) \in Nat
      /\ \A n \in Int : InBase(e, n) = n * RateOf(e) /\ InBase(e, n) \in Int
  BY DEF Measured
<1>2. /\ Share(d, e)' \in Int /\ RateOf(e)' \in Nat
      /\ \A n \in Int : InBase(e, n)' = n * RateOf(e)' /\ InBase(e, n)' \in Int
  BY DEF Measured
<1>3. PICK m \in Int : m = InBase(e, Share(d, e))
  BY <1>1
<1>4. PICK m2 \in Int : m2 = InBase(e, Share(d, e))'
  <2>1. PICK n \in Int : n = Share(d, e)'
    BY <1>2
  <2>2. InBase(e, n)' \in Int
    BY <1>2
  <2>3. InBase(e, n)' = InBase(e, Share(d, e))'
    BY <2>1
  <2> QED
    BY <2>2, <2>3
<1>5. Missing(p, e) = Positive(m - Charged(p, e)) /\ Missing(p, e)' = Positive(m2 - Charged(p, e)')
  BY <1>3, <1>4 DEF Missing
<1>6. GrownInBase(d, e) = Positive(m2 - m)
  BY <1>3, <1>4 DEF GrownInBase
<1>7. CASE Charged(p, e)' = Charged(p, e) /\ Charged(p, e) \in Int
  BY <1>5, <1>6, <1>7 DEF Positive
<1>8. CASE e \in DOMAIN b
  <2>1. b[e] \in Int
    BY <1>8 DEF ReadsTyped, HoldsBalances
  <2>2. Charged(p, e)' = Charged(p, e) /\ Charged(p, e) = b[e]
    BY <1>8 DEF Charged
  <2> QED
    BY <1>7, <2>1, <2>2
<1>9. CASE e \notin DOMAIN b /\ e # d
  <2>1. Charged(p, e)' = 0 /\ Charged(p, e) = 0
    BY <1>9 DEF Charged
  <2> QED
    BY <1>7, <2>1
<1>10. CASE e \notin DOMAIN b /\ e = d
  <2>1. PICK t \in Nat : t = issuing[p].total
    OBVIOUS
  <2>2. Charged(p, e) = InBase(e, t) /\ Charged(p, e)' = InBase(e, t)'
    BY <1>10, <2>1 DEF Charged
  <2>3. Charged(p, e) = t * RateOf(e) /\ Charged(p, e)' = t * RateOf(e)'
        /\ Charged(p, e) \in Int
    BY <1>1, <1>2, <2>2
  <2>4. CASE fx' = fx
    <3>1. debts'[e].currency = debts[e].currency
      BY DebtKept
    <3>2. RateOf(e)' = RateOf(e)
      BY <2>4, <3>1 DEF RateOf
    <3> QED
      BY <1>7, <2>3, <3>2
  <2>5. CASE debts' = debts
    <3>1. PICK o \in Int : o = Share(d, e)
      BY <1>1
    <3>2. Share(d, e)' = o
      BY <2>5, <3>1 DEF Share, Counted, Owed, Owing, BalanceWithoutNotes
    <3>3. PICK r \in Nat : r = RateOf(e)
      BY <1>1
    <3>4. PICK s \in Nat : s = RateOf(e)'
      BY <1>2
    <3>5. m = o * r
      BY <1>1, <1>3, <3>1, <3>3
    <3>6. m2 = o * s
      <4>1. InBase(e, o)' = o * s
        BY <1>2, <3>4
      <4>2. InBase(e, o)' = InBase(e, Share(d, e))'
        BY <3>2
      <4> QED
        BY <1>4, <4>1, <4>2
    <3>7. Charged(p, e) = t * r /\ Charged(p, e)' = t * s
      BY <2>3, <3>3, <3>4
    <3> QED
      BY <1>5, <1>6, <3>5, <3>6, <3>7, RateMoves
  <2> QED
    BY <2>4, <2>5
<1> QED
  BY <1>8, <1>9, <1>10


\* The exposure once d is issued is the sum of the shares of all invoices.
ProspectAdds ==
  \A d \in Debts : Prospect(d) = Total([e \in Debts |-> InBase(e, Share(d, e))])

LEMMA ProspectOfShares == Measured => ProspectAdds
<1> SUFFICES ASSUME Measured, NEW d \in Debts
             PROVE  Prospect(d) = Total([e \in Debts |-> InBase(e, Share(d, e))])
  BY DEF ProspectAdds
<1> DEFINE T == Counted(d)
           f == [e \in T |-> InBase(e, Owing(e))]
<1>1. T \subseteq Debts
  BY DEF Counted
<1>2. \A e \in Debts : (IF e \in T THEN f[e] ELSE 0) = InBase(e, Share(d, e))
  <2> SUFFICES ASSUME NEW e \in Debts
               PROVE  (IF e \in T THEN f[e] ELSE 0) = InBase(e, Share(d, e))
    OBVIOUS
  <2>1. CASE e \in T
    <3>1. Share(d, e) = Owing(e)
      BY <2>1 DEF Share
    <3> QED
      BY <2>1, <3>1
  <2>2. CASE e \notin T
    <3>1. Share(d, e) = 0
      BY <2>2 DEF Share
    <3>2. InBase(e, 0) = 0 * RateOf(e) /\ RateOf(e) \in Nat
      BY DEF Measured
    <3> QED
      BY <2>2, <3>1, <3>2
  <2> QED
    BY <2>1, <2>2
<1>3. [e \in Debts |-> IF e \in T THEN f[e] ELSE 0] = [e \in Debts |-> InBase(e, Share(d, e))]
  <2> HIDE DEF f, T
  <2> QED
    BY <1>2
<1>4. DOMAIN f = T
  OBVIOUS
<1>5. Prospect(d) = Total(f)
  BY DEF Prospect, ExposureOf
<1>6. Total([e \in Debts |-> IF e \in T THEN f[e] ELSE 0]) = Total(f)
  <2> HIDE DEF f, T
  <2> QED
    BY <1>1, <1>4, TotalWider
<1> HIDE DEF f, T
<1> QED
  BY <1>3, <1>5, <1>6

LEMMA LimitTyped ==
  ASSUME NEW t \in Terms
  PROVE  EffectiveLimit(t) = None \/ EffectiveLimit(t) \in Nat
<1> DEFINE set == {t.creditLimit, t.outstandingLimit} \ {None}
<1>1. t.creditLimit \in Nat \union {None} /\ t.outstandingLimit \in Nat \union {None}
  BY CreditAssumption
<1>2. CASE set = {}
  BY <1>2 DEF EffectiveLimit
<1>3. CASE set # {}
  <2>1. \E x \in set : \A y \in set : x <= y
    BY <1>1, <1>3
  <2>2. Min(set) \in set
    BY <2>1 DEF Min
  <2>3. set \subseteq Nat
    BY <1>1
  <2>4. EffectiveLimit(t) = Min(set)
    BY <1>3 DEF EffectiveLimit
  <2> HIDE DEF set
  <2> QED
    BY <2>2, <2>3, <2>4
<1> QED
  BY <1>2, <1>3

\* What a request misses of one invoice when it reads the rates is what was added, converted.
LEMMA MissingBegins ==
  ASSUME NEW p \in Officers, NEW d \in Debts, NEW e \in Debts, ReadsTyped(p),
         issuing[p].at = "rates", issuing[p].debt = d, issuing[p].total \in Nat, Measured,
         issuing'[p].balances = [x \in DOMAIN issuing[p].balances |->
                                   InBase(x, issuing[p].balances[x])],
         issuing'[p].debt = d, issuing'[p].total = issuing[p].total, UNCHANGED <<debts, fx>>,
         NEW a \in Nat, Share(d, e) - Seen(p, e) <= a
  PROVE  Missing(p, e)' <= InBase(e, a)
<1> DEFINE b == issuing[p].balances
<1>1. /\ Share(d, e) \in Int /\ RateOf(e) \in Nat
      /\ \A n \in Int : InBase(e, n) = n * RateOf(e) /\ InBase(e, n) \in Int
  BY DEF Measured
<1>2. Seen(p, e) \in Int
  <2>1. e \in DOMAIN b => b[e] \in Int
    BY DEF ReadsTyped, HoldsBalances
  <2> QED
    BY <2>1 DEF Seen
<1>3. Charged(p, e)' = InBase(e, Seen(p, e))
  <2>1. CASE e \in DOMAIN b
    <3>1. Seen(p, e) = b[e]
      BY <2>1 DEF Seen
    <3>2. Charged(p, e)' = InBase(e, b[e])
      BY <2>1 DEF Charged
    <3> QED
      BY <3>1, <3>2
  <2>2. CASE e \notin DOMAIN b /\ e = d
    <3>1. Seen(p, e) = issuing[p].total
      BY <2>2 DEF Seen
    <3>2. PICK t \in Nat : t = issuing[p].total
      OBVIOUS
    <3>3. Charged(p, e)' = InBase(e, t)'
      BY <2>2, <3>2 DEF Charged
    <3>4. InBase(e, t)' = InBase(e, t)
      BY DEF InBase, ToBase
    <3> QED
      BY <3>1, <3>2, <3>3, <3>4
  <2>3. CASE e \notin DOMAIN b /\ e # d
    <3>1. Seen(p, e) = 0 /\ Charged(p, e)' = 0
      BY <2>3 DEF Seen, Charged
    <3>2. InBase(e, 0) = 0 * RateOf(e)
      BY <1>1
    <3> QED
      BY <1>1, <3>1, <3>2
  <2> QED
    BY <2>1, <2>2, <2>3
<1>4. InBase(e, Share(d, e))' = InBase(e, Share(d, e))
  BY DEF InBase, ToBase, Share, Counted, Owed, Owing, BalanceWithoutNotes
<1>5. Missing(p, e)' = Positive(InBase(e, Share(d, e)) - InBase(e, Seen(p, e)))
  <2>1. Missing(p, e)' = Positive(InBase(e, Share(d, e))' - Charged(p, e)')
    BY DEF Missing, Positive
  <2> QED
    BY <1>3, <1>4, <2>1
<1>6. PICK s \in Int : s = Share(d, e)
  BY <1>1
<1>7. PICK n \in Int : n = Seen(p, e)
  BY <1>2
<1>8. PICK r \in Nat : r = RateOf(e)
  BY <1>1
<1>9. s <= n + a
  BY <1>6, <1>7
<1>10. s * r <= (n + a) * r
  BY <1>9, TimesMonotone
<1>11. (n + a) * r = n * r + a * r /\ a * r \in Nat /\ n * r \in Int /\ s * r \in Int
  OBVIOUS
<1>12. InBase(e, a) = a * r /\ InBase(e, Seen(p, e)) = n * r /\ InBase(e, Share(d, e)) = s * r
  BY <1>1, <1>6, <1>7, <1>8
<1> QED
  BY <1>5, <1>10, <1>11, <1>12 DEF Positive


\* What all invoices miss when the rates are read is at most what was added, converted.
LEMMA MissingTotalBegins ==
  ASSUME NEW p \in Officers, NEW d \in Debts, ReadsTyped(p),
         issuing[p].at = "rates", issuing[p].debt = d, issuing[p].total \in Nat, Measured,
         Measured',
         issuing'[p].balances = [x \in DOMAIN issuing[p].balances |->
                                   InBase(x, issuing[p].balances[x])],
         issuing'[p].debt = d, issuing'[p].total = issuing[p].total, UNCHANGED <<debts, fx>>,
         upset[p] \in History, AddedTold(p)
  PROVE  Total([e \in Debts |-> Missing(p, e)'])
           <= Total([e \in Debts |-> InBase(e, upset[p].added[e])])
<1> DEFINE f == [e \in Debts |-> Missing(p, e)']
           g == [e \in Debts |-> InBase(e, upset[p].added[e])]
<1>1. \A e \in Debts : Missing(p, e)' <= InBase(e, upset[p].added[e])
                       /\ InBase(e, upset[p].added[e]) \in Nat
  <2> SUFFICES ASSUME NEW e \in Debts
               PROVE  Missing(p, e)' <= InBase(e, upset[p].added[e])
                      /\ InBase(e, upset[p].added[e]) \in Nat
    OBVIOUS
  <2>1. PICK a \in Nat : a = upset[p].added[e]
    BY DEF History
  <2>2. Share(d, e) - Seen(p, e) <= a
    BY <2>1 DEF AddedTold
  <2>3. Missing(p, e)' <= InBase(e, a)
    BY <2>2, MissingBegins
  <2>4. InBase(e, a) = a * RateOf(e) /\ RateOf(e) \in Nat
    BY DEF Measured
  <2> QED
    BY <2>1, <2>3, <2>4
<1>2. \A e \in Debts : Missing(p, e)' \in Nat
  <2> SUFFICES ASSUME NEW e \in Debts PROVE Missing(p, e)' \in Nat
    OBVIOUS
  <2>1. PICK n \in Int : n = Share(d, e)'
    BY DEF Measured
  <2>2. InBase(e, n)' \in Int
    BY DEF Measured
  <2>3. InBase(e, Share(issuing[p].debt, e))' = InBase(e, n)'
    BY <2>1
  <2>4. PICK t \in Nat : t = issuing[p].total
    OBVIOUS
  <2>5. InBase(e, t)' \in Int
    BY DEF Measured
  <2>6. Charged(p, e)' \in Int
    <3>1. e \in DOMAIN issuing[p].balances =>
            InBase(e, issuing[p].balances[e]) \in Int
      BY DEF Measured, ReadsTyped, HoldsBalances
    <3> QED
      BY <2>4, <2>5, <3>1 DEF Charged
  <2> QED
    BY <2>2, <2>3, <2>6 DEF Missing, Positive
<1>3. f \in [Debts -> Nat] /\ g \in [Debts -> Nat]
  BY <1>1, <1>2
<1>4. \A e \in Debts : f[e] <= g[e]
  BY <1>1
<1> HIDE DEF f, g
<1>5. AddUp(f) <= AddUp(g)
  BY <1>3, <1>4, AddUpMonotone, CreditAssumption
<1>6. Total(f) <= Total(g)
  BY <1>3, <1>5, TotalNat, CreditAssumption
<1> QED
  BY <1>6 DEF f, g

LEMMA MissingNat ==
  ASSUME NEW p \in Officers, NEW e \in Debts, ReadsTyped(p), issuing[p].at = "decide",
         issuing[p].total \in Nat, Measured
  PROVE  Missing(p, e) \in Nat /\ Charged(p, e) \in Int
         /\ InBase(e, Share(issuing[p].debt, e)) <= Charged(p, e) + Missing(p, e)
<1>1. InBase(e, Share(issuing[p].debt, e)) \in Int
  BY DEF Measured
<1>2. e \in DOMAIN issuing[p].balances => issuing[p].balances[e] \in Int
  BY DEF ReadsTyped, HoldsBalances
<1>3. InBase(e, issuing[p].total) \in Int
  BY DEF Measured
<1>4. Charged(p, e) \in Int
  BY <1>2, <1>3 DEF Charged
<1> QED
  BY <1>1, <1>4 DEF Missing, Positive

\* What p charges all invoices is the exposure it read, and its own invoice at most.
LEMMA ChargedTotal ==
  ASSUME NEW p \in Officers, NEW d \in Debts, ReadsTyped(p), issuing[p].at = "decide",
         issuing[p].debt = d, issuing[p].total \in Nat, Measured
  PROVE  /\ Total([e \in Debts |-> Charged(p, e)])
              <= Total(issuing[p].balances) + InBase(d, issuing[p].total)
         /\ Total(issuing[p].balances) \in Int /\ InBase(d, issuing[p].total) \in Nat
<1> DEFINE b == issuing[p].balances
           T == DOMAIN b
           n == InBase(d, issuing[p].total)
           k == [e \in Debts |-> Charged(p, e)]
           wide == [e \in Debts |-> IF e \in T THEN b[e] ELSE 0]
           alone == [e \in Debts |-> IF e = d THEN n ELSE 0]
<1>1. T \subseteq Debts /\ \A e \in T : b[e] \in Int
  BY DEF ReadsTyped, HoldsBalances
<1>2. n \in Nat
  <2>1. n = issuing[p].total * RateOf(d) /\ RateOf(d) \in Nat
    BY DEF Measured
  <2> QED
    BY <2>1
<1>3. k \in [Debts -> Int]
  BY MissingNat
<1>4. wide \in [Debts -> Int]
  BY <1>1
<1>5. alone \in [Debts -> Nat]
  <2> HIDE DEF n
  <2> QED
    BY <1>2
<1>6. \A e \in Debts : k[e] <= wide[e] + alone[e]
  <2> SUFFICES ASSUME NEW e \in Debts PROVE k[e] <= wide[e] + alone[e]
    OBVIOUS
  <2>1. CASE e \in T
    <3>1. k[e] = b[e] /\ wide[e] = b[e]
      BY <2>1 DEF Charged
    <3>2. alone[e] \in Nat
      BY <1>5
    <3> HIDE DEF k, wide, alone, T, b
    <3> QED
      BY <1>1, <2>1, <3>1, <3>2
  <2>2. CASE e \notin T /\ e = d
    <3>1. k[e] = n /\ wide[e] = 0 /\ alone[e] = n
      BY <2>2 DEF Charged
    <3> HIDE DEF k, wide, alone, n
    <3> QED
      BY <1>2, <3>1
  <2>3. CASE e \notin T /\ e # d
    <3>1. k[e] = 0 /\ wide[e] = 0 /\ alone[e] = 0
      BY <2>3 DEF Charged
    <3> HIDE DEF k, wide, alone
    <3> QED
      BY <3>1
  <2> QED
    BY <2>1, <2>2, <2>3
<1>7. Total(wide) = Total(b)
  <2> HIDE DEF b
  <2> QED
    BY <1>1, TotalWider
<1>8. AddUp(alone) = n
  <2> HIDE DEF n
  <2> QED
    BY <1>2, TotalOne, CreditAssumption
<1> HIDE DEF k, wide, alone
<1>9. Total(k) <= Total(wide) + AddUp(alone) /\ Total(wide) \in Int
  BY <1>3, <1>4, <1>5, <1>6, TotalBound, TotalSplit, CreditAssumption
<1> QED
  BY <1>2, <1>7, <1>8, <1>9 DEF k

\* An invoice that passes the check leaves the customer within the limit, but for what is missing.
LEMMA VerdictHolds ==
  ASSUME NEW p \in Officers, NEW d \in Debts, ReadsTyped(p), issuing[p].at = "decide",
         issuing[p].debt = d, issuing[p].total \in Nat, Measured,
         MissingTold(p), upset[p] \in History, Verdict(p),
         EffectiveLimit(issuing[p].terms) # None
  PROVE  Prospect(d) <= EffectiveLimit(issuing[p].terms) + upset[p].more
<1> DEFINE w == [e \in Debts |-> InBase(e, Share(d, e))]
           k == [e \in Debts |-> Charged(p, e)]
           m == [e \in Debts |-> Missing(p, e)]
<1>1. PICK limit \in Nat : limit = EffectiveLimit(issuing[p].terms)
  <2>1. issuing[p].terms \in Terms
    BY DEF ReadsTyped, Begun
  <2> QED
    BY <2>1, LimitTyped
<1>2. Total(issuing[p].balances) + InBase(d, issuing[p].total) <= limit
  BY <1>1 DEF Verdict, Allowed, InBase
<1>3. Prospect(d) = Total(w)
  BY ProspectOfShares DEF ProspectAdds
<1>4. w \in [Debts -> Int]
  BY DEF Measured
<1>5. k \in [Debts -> Int] /\ m \in [Debts -> Nat]
  BY MissingNat
<1>6. \A e \in Debts : w[e] <= k[e] + m[e]
  BY MissingNat
<1>7. Total(k) <= Total(issuing[p].balances) + InBase(d, issuing[p].total)
  BY ChargedTotal
<1>8. Total(m) <= upset[p].more
  BY DEF MissingTold
<1>9. upset[p].more \in Nat
  BY DEF History
<1>10. Total(issuing[p].balances) \in Int /\ InBase(d, issuing[p].total) \in Nat
  BY ChargedTotal
<1> HIDE DEF w, k, m
<1>11. Total(w) <= Total(k) + AddUp(m) /\ Total(m) = AddUp(m) /\ AddUp(m) \in Nat
  BY <1>4, <1>5, <1>6, TotalBound, TotalNat, AddUpType, CreditAssumption
<1>12. Total(w) \in Int /\ Total(k) \in Int
  BY <1>4, <1>5, TotalSplit, CreditAssumption
<1>13. PICK i \in Int : i = Total(issuing[p].balances) + InBase(d, issuing[p].total)
  BY <1>10
<1> QED
  BY <1>1, <1>2, <1>3, <1>7, <1>8, <1>9, <1>11, <1>12, <1>13

\* The exposure in prospect grows by no more than what is added.
LEMMA ProspectStays ==
  ASSUME NEW d \in Debts, Measured, Measured', ProspectAdds, ProspectAdds'
  PROVE  /\ Prospect(d)' <= Prospect(d) + Total([e \in Debts |-> GrownInBase(d, e)])
         /\ Prospect(d) \in Int /\ Prospect(d)' \in Int
         /\ Total([e \in Debts |-> GrownInBase(d, e)]) \in Nat
<1> DEFINE w == [e \in Debts |-> InBase(e, Share(d, e))]
           v == [e \in Debts |-> InBase(e, Share(d, e))']
           g == [e \in Debts |-> GrownInBase(d, e)]
<1>1. Prospect(d) = Total(w)
  BY DEF ProspectAdds
<1>2. Prospect(d)' = Total(v)
  <2>1. Prospect(d)' = Total([e \in Debts |-> InBase(e, Share(d, e))])'
    BY DEF ProspectAdds
  <2> QED
    BY <2>1 DEF Total
<1>3. \A e \in Debts : InBase(e, Share(d, e)) \in Int
  BY DEF Measured
<1>4. \A e \in Debts : InBase(e, Share(d, e))' \in Int
  <2> SUFFICES ASSUME NEW e \in Debts PROVE InBase(e, Share(d, e))' \in Int
    OBVIOUS
  <2>1. PICK n \in Int : n = Share(d, e)'
    BY DEF Measured
  <2>2. InBase(e, n)' \in Int
    BY DEF Measured
  <2>3. InBase(e, n)' = InBase(e, Share(d, e))'
    BY <2>1
  <2> QED
    BY <2>2, <2>3
<1>5. g \in [Debts -> Nat]
  BY GrownNat
<1>6. w \in [Debts -> Int]
  BY <1>3
<1>7. v \in [Debts -> Int]
  BY <1>4
<1>8. \A e \in Debts : v[e] <= w[e] + g[e]
  <2> SUFFICES ASSUME NEW e \in Debts PROVE v[e] <= w[e] + g[e]
    OBVIOUS
  <2>1. PICK m \in Int : m = InBase(e, Share(d, e))
    BY <1>3
  <2>2. PICK n \in Int : n = InBase(e, Share(d, e))'
    BY <1>4
  <2>3. GrownInBase(d, e) = Positive(n - m)
    BY <2>1, <2>2 DEF GrownInBase
  <2>4. n <= m + Positive(n - m)
    BY DEF Positive
  <2> QED
    BY <2>1, <2>2, <2>3, <2>4
<1> HIDE DEF w, v, g
<1>9. Total(v) <= Total(w) + AddUp(g) /\ Total(g) = AddUp(g) /\ Total(g) \in Nat
      /\ Total(v) \in Int /\ Total(w) \in Int
  BY <1>5, <1>6, <1>7, <1>8, TotalBound, TotalNat, TotalSplit, CreditAssumption
<1> QED
  BY <1>1, <1>2, <1>9 DEF g


(* ------------------------------ every step ------------------------------ *)

\* Rows, requests and history have their types, and what is counted is a number.
Sound ==
  /\ Tables /\ Measured /\ ProspectAdds
  /\ issuing \in [Officers -> Request] /\ upset \in [Officers -> History]

LEMMA InvSound == CreditInv => Sound
<1> SUFFICES ASSUME CreditInv PROVE Sound
  OBVIOUS
<1>1. Tables
  BY DEF CreditInv, CreditTypeOK, Tables, Debt
<1>2. issuing \in [Officers -> Request] /\ upset \in [Officers -> History]
  BY DEF CreditInv, CreditTypeOK, History
<1> QED
  BY <1>1, <1>2, TablesMeasured, ProspectOfShares DEF Sound

LEMMA RowsSound == Tables => Measured /\ ProspectAdds
  BY TablesMeasured, ProspectOfShares

LEMMA StepSound ==
  ASSUME CreditInv, CreditStep, Upset
  PROVE  Sound' /\ CreditTypeOK' /\ \A e \in Debts : DebtMoves(e)
<1>1. Sound /\ changes \in 0 .. MaxChanges
  BY InvSound DEF CreditInv, CreditTypeOK
<1>2. debts' = [x \in Debts |-> debts'[x]] /\ \A e \in Debts : DebtMoves(e)
  BY DebtsMove
<1>3. Tables' /\ changes' \in 0 .. MaxChanges
  BY <1>1, <1>2, TablesMove DEF Sound
<1>4. Measured' /\ ProspectAdds'
  BY <1>3, RowsSound, PTL
<1>5. issuing' \in [Officers -> Request]
  <2>1. CASE Officers = {}
    <3>1. UNCHANGED issuing
      BY <2>1 DEF CreditStep, EditDraft, CancelDebt, Collect, Refund, NoteIssued, ChangeTerms,
                  ChangeRate, Elsewhere
    <3> QED
      BY <1>1, <3>1 DEF Sound
  <2>2. CASE Officers # {}
    BY <2>2, OneMoves
  <2> QED
    BY <2>1, <2>2
<1>6. upset' \in [Officers -> History]
  <2>1. \A p \in Officers : upset'[p] \in History
    BY <1>1, <1>4, HistoryTyped DEF Sound
  <2>2. upset' = [p \in Officers |-> upset'[p]]
    BY DEF Upset
  <2> QED
    BY <2>1, <2>2
<1>7. \A p \in Officers : issuing'[p].at \in {"idle", "terms", "balances", "notes", "rates",
                                              "decide", "write"}
  BY <1>5 DEF Request
<1>8. CreditTypeOK'
  BY <1>3, <1>6, <1>7 DEF CreditTypeOK, Tables, Debt, History
<1> QED
  BY <1>2, <1>3, <1>4, <1>5, <1>6, <1>8 DEF Sound

\* While others move, a request is not misled.
Bystander(p) ==
  /\ Sound /\ CreditStep /\ Upset /\ \A e \in Debts : DebtMoves(e)
  /\ IssuingInv(p) /\ issuing'[p] = issuing[p]

LEMMA OthersAdd ==
  ASSUME NEW p \in Officers, Bystander(p), Sound', NEW d, issuing[p].debt = d,
         issuing[p].at \in {"balances", "notes", "rates"}
  PROVE  \A e \in Debts : /\ upset'[p].added[e] = upset[p].added[e] + Grown(d, e)
                          /\ upset[p].added[e] \in Nat /\ Grown(d, e) \in Nat
<1>1. issuing'[p].debt = d /\ issuing[p].at # "terms"
      /\ issuing'[p].at \in {"balances", "notes", "rates"}
  BY DEF Bystander
<1>2. upset'[p] = [upset[p] EXCEPT !.steady = StillCalm(p),
                     !.added = [e \in Debts |-> upset[p].added[e] + Grown(d, e)]]
  BY <1>1, UpsetAdds DEF Bystander
<1>3. upset[p] \in History
  BY DEF Bystander, Sound
<1>4. upset'[p].added = [e \in Debts |-> upset[p].added[e] + Grown(d, e)]
  BY <1>2, <1>3 DEF History
<1>5. \A e \in Debts : upset[p].added[e] \in Nat
  BY <1>3 DEF History
<1>6. \A e \in Debts : Grown(d, e) \in Nat
  BY GrownNat DEF Bystander, Sound
<1> QED
  BY <1>4, <1>5, <1>6

LEMMA OthersDraft ==
  ASSUME NEW p \in Officers, Bystander(p), Sound'
  PROVE  DraftTold(p)'
<1>1. CASE issuing[p].at # "balances"
  BY <1>1 DEF Bystander, DraftTold
<1>2. CASE issuing[p].at = "balances"
  <2>1. PICK d \in Debts : d = issuing[p].debt
    BY <1>2 DEF Bystander, IssuingInv, ReadsTyped
  <2>2. PICK a \in Nat : a = upset[p].added[d] /\ upset'[p].added[d] = a + Grown(d, d)
    BY <1>2, <2>1, OthersAdd
  <2>3. PICK t \in Nat : t = issuing[p].total
    BY DEF Bystander, Sound, Request
  <2>4. debts[d].total - t <= a /\ (~Owed(d) => Owing(d) - t <= a)
    BY <1>2, <2>1, <2>2, <2>3 DEF Bystander, IssuingInv, DraftTold
  <2>5. debts[d] \in Debt /\ DebtMoves(d) /\ Measured /\ Measured'
    BY DEF Bystander, Sound, Tables
  <2>6. /\ debts'[d].total - t <= a + Grown(d, d)
        /\ ~Owed(d)' => Owing(d)' - t <= a + Grown(d, d)
    BY <2>4, <2>5, DraftStays
  <2>7. issuing'[p].debt = d /\ issuing'[p].total = t /\ upset'[p].added[d] = a + Grown(d, d)
    BY <2>1, <2>2, <2>3 DEF Bystander
  <2> QED
    BY <2>6, <2>7 DEF DraftTold
<1> QED
  BY <1>1, <1>2

LEMMA OthersSeen ==
  ASSUME NEW p \in Officers, Bystander(p), Sound'
  PROVE  AddedTold(p)'
<1>1. CASE issuing[p].at \notin {"notes", "rates"}
  BY <1>1 DEF Bystander, AddedTold
<1>2. CASE issuing[p].at \in {"notes", "rates"}
  <2>1. PICK d \in Debts : d = issuing[p].debt
    BY <1>2 DEF Bystander, IssuingInv, ReadsTyped
  <2>2. ASSUME NEW e \in Debts
        PROVE  Share(d, e)' - Seen(p, e)' <= upset'[p].added[e]
    <3>1. PICK a \in Nat : a = upset[p].added[e] /\ upset'[p].added[e] = a + Grown(d, e)
      <4>1. issuing[p].at \in {"balances", "notes", "rates"} /\ issuing[p].debt = d
        BY <1>2, <2>1
      <4> QED
        BY <4>1, OthersAdd
    <3>2. Share(d, e) - Seen(p, e) <= a
      BY <1>2, <2>1, <3>1 DEF Bystander, IssuingInv, AddedTold
    <3>3. /\ debts[e] \in Debt /\ DebtMoves(e) /\ Measured /\ Measured' /\ ReadsTyped(p)
          /\ issuing[p].total \in Nat /\ issuing'[p] = issuing[p]
      BY DEF Bystander, Sound, Tables, IssuingInv, Request
    <3>4. Share(d, e)' - Seen(p, e)' <= Share(d, e) - Seen(p, e) + Grown(d, e)
      BY <1>2, <2>1, <3>3, SeenStays
    <3>5. Share(d, e) \in Int /\ Share(d, e)' \in Int /\ Grown(d, e) \in Nat
      BY <3>3, GrownNat DEF Measured
    <3>6. Seen(p, e) \in Int /\ Seen(p, e)' \in Int
      <4>1. e \in DOMAIN issuing[p].balances => issuing[p].balances[e] \in Int
        BY <1>2, <3>3 DEF ReadsTyped, HoldsBalances
      <4>2. debts[e].net \in Int /\ debts'[e].net \in Int
        BY <3>3 DEF Measured
      <4> QED
        BY <3>3, <4>1, <4>2 DEF Seen
    <3> QED
      BY <3>1, <3>2, <3>4, <3>5, <3>6
  <2>3. issuing'[p].debt = d
    BY <2>1 DEF Bystander
  <2> QED
    BY <2>2, <2>3 DEF AddedTold
<1> QED
  BY <1>1, <1>2

LEMMA OthersAddInBase ==
  ASSUME NEW p \in Officers, Bystander(p), Sound', NEW d, issuing[p].debt = d,
         issuing[p].at \in {"decide", "write"}
  PROVE  /\ upset'[p].more = upset[p].more + Total([e \in Debts |-> GrownInBase(d, e)])
         /\ upset[p].more \in Nat
<1>1. issuing'[p].debt = d /\ issuing'[p].at \in {"decide", "write"}
  BY DEF Bystander
<1>2. upset'[p] = [upset[p] EXCEPT !.steady = StillCalm(p),
                     !.more = upset[p].more + Total([e \in Debts |-> GrownInBase(d, e)])]
  BY <1>1, UpsetAddsInBase DEF Bystander
<1>3. upset[p] \in History
  BY DEF Bystander, Sound
<1> QED
  BY <1>2, <1>3 DEF History


LEMMA OthersMissing ==
  ASSUME NEW p \in Officers, Bystander(p), Sound'
  PROVE  MissingTold(p)'
<1>1. CASE issuing[p].at # "decide"
  BY <1>1 DEF Bystander, MissingTold
<1>2. CASE issuing[p].at = "decide"
  <2>1. PICK d \in Debts : d = issuing[p].debt
    BY <1>2 DEF Bystander, IssuingInv, ReadsTyped
  <2>2. /\ Measured /\ Measured' /\ ReadsTyped(p) /\ issuing[p].total \in Nat
        /\ \A e \in Debts : debts[e] \in Debt /\ DebtMoves(e)
        /\ fx' = fx \/ debts' = debts
    BY RatesAlone DEF Bystander, Sound, Tables, IssuingInv, Request
  <2> DEFINE m == [e \in Debts |-> Missing(p, e)]
             n == [e \in Debts |-> Missing(p, e)']
             g == [e \in Debts |-> GrownInBase(d, e)]
  <2>3. \A e \in Debts : Missing(p, e)' <= Missing(p, e) + GrownInBase(d, e)
    BY <1>2, <2>1, <2>2, MissingStays DEF Bystander
  <2>4. \A e \in Debts : Missing(p, e) \in Nat
    BY <1>2, <2>2, MissingNat
  <2>5. \A e \in Debts : GrownInBase(d, e) \in Nat
    BY <2>2, GrownNat
  <2>6. \A e \in Debts : Missing(p, e)' \in Int
    <3> SUFFICES ASSUME NEW e \in Debts PROVE Missing(p, e)' \in Int
      OBVIOUS
    <3>1. PICK i \in Int : i = Share(d, e)'
      BY <2>2 DEF Measured
    <3>2. InBase(e, i)' \in Int
      BY <2>2 DEF Measured
    <3>3. InBase(e, Share(issuing[p].debt, e))' = InBase(e, i)'
      BY <2>1, <3>1 DEF Bystander
    <3>4. PICK t \in Nat : t = issuing[p].total
      BY <2>2
    <3>5. InBase(e, t)' \in Int
      BY <2>2 DEF Measured
    <3>6. e \in DOMAIN issuing[p].balances => issuing[p].balances[e] \in Int
      BY <1>2, <2>2 DEF ReadsTyped, HoldsBalances
    <3>7. Charged(p, e)' \in Int
      BY <3>4, <3>5, <3>6 DEF Charged, Bystander
    <3> QED
      BY <3>2, <3>3, <3>7 DEF Missing, Positive
  <2>7. m \in [Debts -> Int] /\ n \in [Debts -> Int] /\ g \in [Debts -> Nat]
    BY <2>4, <2>5, <2>6
  <2>8. \A e \in Debts : n[e] <= m[e] + g[e]
    BY <2>3
  <2>9. Total(m) <= upset[p].more
    BY <1>2 DEF Bystander, IssuingInv, MissingTold
  <2>10. upset'[p].more = upset[p].more + Total(g) /\ upset[p].more \in Nat
    BY <1>2, <2>1, OthersAddInBase
  <2>11. MissingTold(p)' <=> Total(n) <= upset'[p].more
    BY <1>2 DEF Bystander, MissingTold, Total
  <2> HIDE DEF m, n, g
  <2>12. Total(n) <= Total(m) + AddUp(g) /\ Total(g) = AddUp(g) /\ Total(g) \in Nat
         /\ Total(m) \in Int /\ Total(n) \in Int
    BY <2>7, <2>8, TotalBound, TotalNat, TotalSplit, CreditAssumption
  <2> QED
    BY <2>9, <2>10, <2>11, <2>12
<1> QED
  BY <1>1, <1>2

LEMMA OthersLimit ==
  ASSUME NEW p \in Officers, Bystander(p), Sound'
  PROVE  LimitTold(p)'
<1>1. CASE ~(issuing[p].at = "write" /\ ~issuing[p].override
             /\ EffectiveLimit(issuing[p].terms) # None)
  BY <1>1 DEF Bystander, LimitTold, EffectiveLimit
<1>2. CASE issuing[p].at = "write" /\ ~issuing[p].override
           /\ EffectiveLimit(issuing[p].terms) # None
  <2>1. PICK d \in Debts : d = issuing[p].debt
    BY <1>2 DEF Bystander, IssuingInv, ReadsTyped
  <2>2. PICK limit \in Nat : limit = EffectiveLimit(issuing[p].terms)
    BY <1>2, LimitTyped DEF Bystander, IssuingInv, ReadsTyped, Begun
  <2>3. Prospect(d) <= limit + upset[p].more
    BY <1>2, <2>1, <2>2 DEF Bystander, IssuingInv, LimitTold
  <2>4. /\ upset'[p].more = upset[p].more + Total([e \in Debts |-> GrownInBase(d, e)])
        /\ upset[p].more \in Nat
    BY <1>2, <2>1, OthersAddInBase
  <2>5. /\ Prospect(d)' <= Prospect(d) + Total([e \in Debts |-> GrownInBase(d, e)])
        /\ Prospect(d) \in Int /\ Prospect(d)' \in Int
        /\ Total([e \in Debts |-> GrownInBase(d, e)]) \in Nat
    BY ProspectStays DEF Bystander, Sound
  <2>6. Prospect(d)' <= limit + upset'[p].more
    BY <2>3, <2>4, <2>5
  <2>7. issuing'[p].debt = d /\ EffectiveLimit(issuing[p].terms)' = limit
    BY <2>1, <2>2 DEF Bystander, EffectiveLimit
  <2> QED
    BY <2>6, <2>7 DEF LimitTold
<1> QED
  BY <1>1, <1>2

LEMMA OthersHold ==
  ASSUME NEW p \in Officers, Bystander(p), Sound'
  PROVE  ReadsHold(p)'
<1>1. CASE ~(Begun(p)' /\ upset'[p].steady)
  BY <1>1 DEF ReadsHold
<1>2. CASE Begun(p)' /\ upset'[p].steady
  <2>1. PICK d \in Debts : d = issuing[p].debt /\ issuing'[p].debt = d
    BY <1>2 DEF Bystander, IssuingInv, ReadsTyped, Begun
  <2>2. upset[p] \in History /\ issuing[p] \in Request
    BY DEF Bystander, Sound
  <2>3. StillCalm(p)
    <3>1. CASE issuing[p].at \in {"decide", "write"}
      <4>1. upset'[p] = [upset[p] EXCEPT !.steady = StillCalm(p),
                           !.more = upset[p].more + Total([e \in Debts |-> GrownInBase(d, e)])]
        BY <2>1, <3>1, UpsetAddsInBase DEF Bystander
      <4> QED
        BY <1>2, <2>2, <4>1 DEF History
    <3>2. CASE issuing[p].at \in {"balances", "notes", "rates"}
      <4>1. issuing[p].at # "terms" /\ issuing'[p].at \in {"balances", "notes", "rates"}
        BY <3>2 DEF Bystander
      <4>2. upset'[p] = [upset[p] EXCEPT !.steady = StillCalm(p),
                           !.added = [e \in Debts |-> upset[p].added[e] + Grown(d, e)]]
        BY <2>1, <4>1, UpsetAdds DEF Bystander
      <4> QED
        BY <1>2, <2>2, <4>2 DEF History
    <3> QED
      BY <1>2, <2>2, <3>1, <3>2 DEF Bystander, Begun, Request
  <2>4. Begun(p) /\ upset[p].steady
    BY <1>2, <2>3 DEF Bystander, Begun, StillCalm
  <2>5. ReadsHold(p) /\ debts' = debts /\ terms' = terms /\ fx' = fx /\ issuing'[p] = issuing[p]
    BY <2>3 DEF Bystander, IssuingInv, StillCalm
  <2> QED
    BY <2>4, <2>5 DEF ReadsHold, HoldsBalances, FailsClosed, Counted, Owed, RateKnown
<1> QED
  BY <1>1, <1>2

LEMMA OthersTyped ==
  ASSUME NEW p \in Officers, Bystander(p), Sound'
  PROVE  ReadsTyped(p)'
<1>1. \A e \in Debts : debts[e].status # "DRAFT" => debts'[e].status # "DRAFT"
  BY DebtKept DEF Bystander, Sound, Tables
<1>2. ReadsTyped(p) /\ issuing'[p] = issuing[p]
  BY DEF Bystander, IssuingInv
<1> QED
  BY <1>1, <1>2 DEF ReadsTyped, Begun, HoldsBalances

LEMMA OthersMove ==
  ASSUME NEW p \in Officers, Bystander(p), Sound'
  PROVE  IssuingInv(p)'
BY OthersDraft, OthersSeen, OthersMissing, OthersLimit, OthersHold, OthersTyped DEF IssuingInv


(* A request's own steps.                                                   *)

LEMMA QuietInv ==
  ASSUME NEW p \in Officers,
         \/ issuing'[p].at = "idle"
         \/ /\ issuing'[p].at = "terms"
            /\ issuing'[p].debt \in Debts
  PROVE  IssuingInv(p)'
BY DEF IssuingInv, ReadsTyped, DraftTold, AddedTold, MissingTold, LimitTold, ReadsHold, Begun,
       HoldsBalances

LEMMA TermsInv ==
  ASSUME NEW p \in Officers, Sound, Sound', Upset, IssuingInv(p), ReadTerms(p)
  PROVE  IssuingInv(p)'
<1>1. PICK d \in Debts : d = issuing[p].debt
  BY DEF IssuingInv, ReadsTyped, ReadTerms
<1>2. /\ issuing'[p].at = "balances" /\ issuing'[p].debt = d
      /\ issuing'[p].total = debts[d].total /\ issuing'[p].terms = terms
  BY <1>1, ReadTermsPuts DEF Sound
<1>3. issuing[p].at = "terms" /\ UNCHANGED <<debts, terms, fx>>
  BY DEF ReadTerms
<1>4. upset'[p].added[d] = Unseen(d)
  <2>1. upset'[p] = [Calm EXCEPT !.added[issuing[p].debt] = Unseen(issuing[p].debt)]
    BY <1>2, <1>3, UpsetBegins
  <2> QED
    BY <1>1, <2>1 DEF Calm
<1>5. ReadsTyped(p)'
  BY <1>2, <1>3 DEF ReadsTyped, Begun, HoldsBalances, Sound, Tables
<1>6. DraftTold(p)'
  <2>1. debts[d].total \in Nat /\ (~Owed(d) => Owing(d) - debts[d].total <= Unseen(d))
    BY DraftBegins DEF Sound, Measured
  <2>2. Unseen(d) \in Nat
    BY PositiveNat DEF Unseen, Sound, Measured
  <2>3. Owing(d)' = Owing(d) /\ Owed(d)' = Owed(d)
    BY <1>3 DEF Owing, Owed, BalanceWithoutNotes
  <2>4. debts'[d].total - issuing'[p].total <= upset'[p].added[d]
    BY <1>2, <1>3, <1>4, <2>1, <2>2
  <2>5. ~Owed(d)' => Owing(d)' - issuing'[p].total <= upset'[p].added[d]
    BY <1>2, <1>4, <2>1, <2>3
  <2> QED
    BY <1>2, <2>4, <2>5 DEF DraftTold
<1>7. AddedTold(p)' /\ MissingTold(p)' /\ LimitTold(p)'
  BY <1>2 DEF AddedTold, MissingTold, LimitTold
<1>8. ReadsHold(p)'
  BY <1>2, <1>3 DEF ReadsHold, HoldsBalances
<1> QED
  BY <1>5, <1>6, <1>7, <1>8 DEF IssuingInv

\* While the balances and their notes are read, the history stays.
LEMMA StillAdded ==
  ASSUME NEW p \in Officers, NEW d \in Debts, Sound, Sound', Upset, issuing[p].debt = d,
         issuing'[p].debt = d, issuing[p].at # "terms",
         issuing'[p].at \in {"balances", "notes", "rates"}, UNCHANGED <<debts, terms, fx>>
  PROVE  /\ upset'[p].steady = upset[p].steady
         /\ \A e \in Debts : upset'[p].added[e] = upset[p].added[e] /\ upset[p].added[e] \in Nat
<1>1. upset'[p] = [upset[p] EXCEPT !.steady = StillCalm(p),
                     !.added = [e \in Debts |-> upset[p].added[e] + Grown(d, e)]]
  BY UpsetAdds
<1>2. upset[p] \in History
  BY DEF Sound
<1>3. StillCalm(p) = upset[p].steady
  BY <1>2 DEF StillCalm, History
<1>4. \A e \in Debts : Grown(d, e) = 0
  <2> SUFFICES ASSUME NEW e \in Debts PROVE Grown(d, e) = 0
    OBVIOUS
  <2>1. Share(d, e)' = Share(d, e)
    BY DEF Share, Counted, Owed, Owing, BalanceWithoutNotes
  <2>2. Share(d, e) \in Int
    BY DEF Sound, Measured
  <2> QED
    BY <2>1, <2>2 DEF Grown, Positive
<1>5. upset'[p].added = [e \in Debts |-> upset[p].added[e] + Grown(d, e)]
      /\ upset'[p].steady = StillCalm(p)
  BY <1>1, <1>2 DEF History
<1>6. \A e \in Debts : upset[p].added[e] \in Nat
  BY <1>2 DEF History
<1> QED
  BY <1>3, <1>4, <1>5, <1>6

LEMMA BalancesInv ==
  ASSUME NEW p \in Officers, Sound, Sound', Upset, IssuingInv(p), ReadBalances(p)
  PROVE  IssuingInv(p)'
<1> DEFINE T == {e \in Debts : Owed(e)}
           b == [e \in T |-> BalanceWithoutNotes(e)]
           r == issuing[p]
<1>1. PICK d \in Debts : d = r.debt
  BY DEF IssuingInv, ReadsTyped, ReadBalances
<1>2. r \in Request /\ r.at = "balances" /\ UNCHANGED <<debts, terms, fx>>
  BY DEF ReadBalances, Sound
<1>3. issuing'[p] = [r EXCEPT !.at = "notes", !.balances = b]
  BY ReadBalancesPuts DEF Sound
<1>4. /\ issuing'[p].at = "notes" /\ issuing'[p].debt = d /\ issuing'[p].total = r.total
      /\ issuing'[p].terms = r.terms /\ issuing'[p].balances = b
  <2> HIDE DEF b
  <2> QED
    BY <1>1, <1>2, <1>3 DEF Request
<1>5. /\ upset'[p].steady = upset[p].steady
      /\ \A e \in Debts : upset'[p].added[e] = upset[p].added[e] /\ upset[p].added[e] \in Nat
  BY <1>1, <1>2, <1>4, StillAdded
<1>6. \A e \in T : b[e] = Owing(e) - debts[e].net /\ b[e] \in Int /\ debts[e].status # "DRAFT"
  <2> SUFFICES ASSUME NEW e \in T
               PROVE  b[e] = Owing(e) - debts[e].net /\ b[e] \in Int /\ debts[e].status # "DRAFT"
    OBVIOUS
  <2>1. debts[e].total \in Nat /\ debts[e].paid \in Nat /\ debts[e].net \in Int
    BY DEF Sound, Measured
  <2>2. b[e] = debts[e].total - debts[e].paid
    BY DEF BalanceWithoutNotes
  <2>3. Owing(e) = debts[e].total - debts[e].paid + debts[e].net
    BY DEF Sound, Measured
  <2>4. debts[e].status # "DRAFT"
    BY DEF Owed
  <2> HIDE DEF b
  <2> QED
    BY <2>1, <2>2, <2>3, <2>4
<1>7. DOMAIN b = T
  OBVIOUS
<1> HIDE DEF b
<1>8. ReadsTyped(p)'
  BY <1>1, <1>2, <1>4, <1>6, <1>7 DEF ReadsTyped, Begun, HoldsBalances, IssuingInv
<1>9. AddedTold(p)'
  <2> SUFFICES ASSUME NEW e \in Debts
               PROVE  Share(d, e)' - Seen(p, e)' <= upset'[p].added[e]
    BY <1>4 DEF AddedTold
  <2>1. PICK a \in Nat : a = upset[p].added[e] /\ upset'[p].added[e] = a
    BY <1>5
  <2>2. Share(d, e)' = Share(d, e)
    BY <1>2 DEF Share, Counted, Owed, Owing, BalanceWithoutNotes
  <2>3. Owing(e) \in Int /\ debts[e].net \in Int
    BY DEF Sound, Measured
  <2>4. CASE Owed(e)
    <3>1. Seen(p, e)' = b[e] + debts[e].net
      BY <1>2, <1>4, <1>7, <2>4 DEF Seen
    <3>2. Seen(p, e)' = Owing(e)
      BY <1>6, <2>3, <2>4, <3>1
    <3>3. Share(d, e) = Owing(e)
      BY <2>4, ShareOwed
    <3> QED
      BY <2>1, <2>2, <2>3, <3>2, <3>3
  <2>5. CASE ~Owed(e) /\ e = d
    <3>1. Seen(p, e)' = r.total
      BY <1>4, <1>7, <2>5 DEF Seen
    <3>2. Share(d, e) = Owing(e)
      BY <2>5, ShareOwn
    <3>3. Owing(d) - r.total <= a
      BY <1>1, <1>2, <2>1, <2>5 DEF IssuingInv, DraftTold
    <3> QED
      BY <2>1, <2>2, <2>5, <3>1, <3>2, <3>3
  <2>6. CASE ~Owed(e) /\ e # d
    <3>1. Seen(p, e)' = 0
      BY <1>4, <1>7, <2>6 DEF Seen
    <3>2. Share(d, e) = 0
      BY <2>6, ShareOwed
    <3> QED
      BY <2>1, <2>2, <3>1, <3>2
  <2> QED
    BY <2>4, <2>5, <2>6
<1>10. DraftTold(p)' /\ MissingTold(p)' /\ LimitTold(p)'
  BY <1>4 DEF DraftTold, MissingTold, LimitTold
<1>11. ReadsHold(p)'
  <2>1. upset[p].steady => terms = r.terms
    BY <1>2 DEF IssuingInv, ReadsHold, Begun
  <2>2. T' = T
    BY <1>2 DEF Owed
  <2> QED
    BY <1>2, <1>4, <1>5, <1>7, <2>1, <2>2 DEF ReadsHold
<1> QED
  BY <1>8, <1>9, <1>10, <1>11 DEF IssuingInv


LEMMA NotesInv ==
  ASSUME NEW p \in Officers, Sound, Sound', Upset, IssuingInv(p), ReadNotes(p)
  PROVE  IssuingInv(p)'
<1> DEFINE r == issuing[p]
           T == DOMAIN r.balances
           b == [e \in T |-> r.balances[e] + debts[e].net]
<1>1. PICK d \in Debts : d = r.debt
  BY DEF IssuingInv, ReadsTyped, ReadNotes
<1>2. r \in Request /\ r.at = "notes" /\ UNCHANGED <<debts, terms, fx>> /\ ReadsTyped(p)
  BY DEF ReadNotes, Sound, IssuingInv
<1>3. issuing'[p] = [r EXCEPT !.at = "rates", !.balances = b]
  BY <1>2, ReadNotesPuts DEF Sound
<1>4. /\ issuing'[p].at = "rates" /\ issuing'[p].debt = d /\ issuing'[p].total = r.total
      /\ issuing'[p].terms = r.terms /\ issuing'[p].balances = b
  <2> HIDE DEF b
  <2> QED
    BY <1>1, <1>2, <1>3 DEF Request
<1>5. /\ upset'[p].steady = upset[p].steady
      /\ \A e \in Debts : upset'[p].added[e] = upset[p].added[e] /\ upset[p].added[e] \in Nat
  BY <1>1, <1>2, <1>4, StillAdded
<1>6. T \subseteq Debts /\ \A e \in T : r.balances[e] \in Int /\ debts[e].status # "DRAFT"
  BY <1>2 DEF ReadsTyped, HoldsBalances
<1>7. \A e \in T : b[e] = r.balances[e] + debts[e].net /\ b[e] \in Int
  BY <1>6 DEF Sound, Measured
<1>8. DOMAIN b = T
  OBVIOUS
<1> HIDE DEF b
<1>9. ReadsTyped(p)'
  BY <1>1, <1>2, <1>4, <1>6, <1>7, <1>8 DEF ReadsTyped, Begun, HoldsBalances
<1>10. AddedTold(p)'
  <2> SUFFICES ASSUME NEW e \in Debts
               PROVE  Share(d, e)' - Seen(p, e)' <= upset'[p].added[e]
    BY <1>4 DEF AddedTold
  <2>1. Share(d, e)' = Share(d, e)
    BY <1>2 DEF Share, Counted, Owed, Owing, BalanceWithoutNotes
  <2>2. Seen(p, e)' = Seen(p, e)
    <3>1. CASE e \in T
      BY <1>2, <1>4, <1>7, <1>8, <3>1 DEF Seen
    <3>2. CASE e \notin T
      BY <1>1, <1>2, <1>4, <1>8, <3>2 DEF Seen
    <3> QED
      BY <3>1, <3>2
  <2>3. Share(d, e) - Seen(p, e) <= upset[p].added[e]
    BY <1>1, <1>2 DEF IssuingInv, AddedTold
  <2> QED
    BY <1>5, <2>1, <2>2, <2>3
<1>11. DraftTold(p)' /\ MissingTold(p)' /\ LimitTold(p)'
  BY <1>4 DEF DraftTold, MissingTold, LimitTold
<1>12. ReadsHold(p)'
  <2>1. upset[p].steady => terms = r.terms /\ T = {e \in Debts : Owed(e)}
    BY <1>2 DEF IssuingInv, ReadsHold, Begun, HoldsBalances
  <2>2. {e \in Debts : Owed(e)}' = {e \in Debts : Owed(e)}
    BY <1>2 DEF Owed
  <2> QED
    BY <1>2, <1>4, <1>5, <1>8, <2>1, <2>2 DEF ReadsHold
<1> QED
  BY <1>9, <1>10, <1>11, <1>12 DEF IssuingInv

LEMMA RatesInv ==
  ASSUME NEW p \in Officers, Sound, Sound', Upset, IssuingInv(p), ReadRates(p)
  PROVE  IssuingInv(p)'
<1> DEFINE r == issuing[p]
           T == DOMAIN r.balances
           b == [e \in T |-> InBase(e, r.balances[e])]
           lacks == \E e \in T : ~RateKnown(debts[e].currency)
<1>1. PICK d \in Debts : d = r.debt
  BY DEF IssuingInv, ReadsTyped, ReadRates
<1>2. r \in Request /\ r.at = "rates" /\ UNCHANGED <<debts, terms, fx>> /\ ReadsTyped(p)
  BY DEF ReadRates, Sound, IssuingInv
<1>3. issuing'[p] = [r EXCEPT !.at = "decide", !.balances = b, !.unknown = lacks]
  BY <1>2, ReadRatesPuts DEF Sound
<1>4. /\ issuing'[p].at = "decide" /\ issuing'[p].debt = d /\ issuing'[p].total = r.total
      /\ issuing'[p].terms = r.terms /\ issuing'[p].balances = b
      /\ issuing'[p].unknown = lacks
  <2> HIDE DEF b, lacks
  <2> QED
    BY <1>1, <1>2, <1>3 DEF Request
<1>5. /\ upset'[p].steady = upset[p].steady
      /\ upset'[p].more = Total([e \in Debts |-> InBase(e, upset[p].added[e])])
  <2>1. upset'[p] = [upset[p] EXCEPT !.added = Calm.added,
                       !.more = Total([e \in Debts |-> InBase(e, upset[p].added[e])])]
    BY <1>2, <1>4, UpsetConverts
  <2>2. upset[p] \in History
    BY DEF Sound
  <2> QED
    BY <2>1, <2>2 DEF History
<1>6. T \subseteq Debts /\ \A e \in T : r.balances[e] \in Int /\ debts[e].status # "DRAFT"
  BY <1>2 DEF ReadsTyped, HoldsBalances
<1>7. \A e \in T : b[e] \in Int
  BY <1>6 DEF Sound, Measured
<1>8. DOMAIN b = T
  OBVIOUS
<1>9. MissingTold(p)'
  <2>1. Total([e \in Debts |-> Missing(p, e)'])
          <= Total([e \in Debts |-> InBase(e, upset[p].added[e])])
    <3>1. Measured /\ Measured' /\ upset[p] \in History /\ r.total \in Nat /\ AddedTold(p)
      BY <1>2 DEF Sound, Request, IssuingInv
    <3>2. issuing'[p].balances = b /\ issuing[p].debt = d
      BY <1>1, <1>4
    <3> QED
      BY <1>2, <1>4, <3>1, <3>2, MissingTotalBegins
  <2>2. MissingTold(p)' <=> Total([e \in Debts |-> Missing(p, e)']) <= upset'[p].more
    BY <1>4 DEF MissingTold, Total
  <2> QED
    BY <1>5, <2>1, <2>2
<1>10. ReadsTyped(p)'
  <2> HIDE DEF b, lacks
  <2> QED
    BY <1>1, <1>2, <1>4, <1>6, <1>7, <1>8 DEF ReadsTyped, Begun, HoldsBalances
<1>11. DraftTold(p)' /\ AddedTold(p)' /\ LimitTold(p)'
  BY <1>4 DEF DraftTold, AddedTold, LimitTold
<1>12. ReadsHold(p)'
  <2>1. upset[p].steady => terms = r.terms /\ T = {e \in Debts : Owed(e)}
    BY <1>2 DEF IssuingInv, ReadsHold, Begun, HoldsBalances
  <2>2. {e \in Debts : Owed(e)}' = {e \in Debts : Owed(e)}
    BY <1>2 DEF Owed
  <2>3. (\E e \in Debts : Owed(e) /\ ~RateKnown(debts[e].currency))'
          <=> \E e \in Debts : Owed(e) /\ ~RateKnown(debts[e].currency)
    BY <1>2 DEF Owed, RateKnown
  <2>4. upset[p].steady =>
          (lacks <=> \E e \in Debts : Owed(e) /\ ~RateKnown(debts[e].currency))
    BY <2>1
  <2> HIDE DEF b, lacks
  <2> QED
    BY <1>2, <1>4, <1>5, <1>8, <2>1, <2>2, <2>3, <2>4 DEF ReadsHold
<1> QED
  BY <1>9, <1>10, <1>11, <1>12 DEF IssuingInv

\* Deciding and writing come with no change, and the history stays.
LEMMA StillMore ==
  ASSUME NEW p \in Officers, NEW d \in Debts, Sound, Sound', Upset, issuing[p].debt = d,
         issuing'[p].debt = d, issuing[p].at \in {"decide", "write"},
         issuing'[p].at \in {"decide", "write"}, UNCHANGED <<debts, terms, fx>>
  PROVE  /\ upset'[p].steady = upset[p].steady
         /\ upset'[p].more >= upset[p].more /\ upset'[p].more \in Nat
<1>1. upset'[p] = [upset[p] EXCEPT !.steady = StillCalm(p),
                     !.more = upset[p].more + Total([e \in Debts |-> GrownInBase(d, e)])]
  BY UpsetAddsInBase
<1>2. upset[p] \in History /\ Measured /\ Measured'
  BY DEF Sound
<1>3. StillCalm(p) = upset[p].steady
  BY <1>2 DEF StillCalm, History
<1>4. Total([e \in Debts |-> GrownInBase(d, e)]) \in Nat
  <2>1. [e \in Debts |-> GrownInBase(d, e)] \in [Debts -> Nat]
    BY <1>2, GrownNat
  <2> QED
    BY <2>1, TotalNat, CreditAssumption
<1>5. upset'[p].steady = StillCalm(p)
      /\ upset'[p].more = upset[p].more + Total([e \in Debts |-> GrownInBase(d, e)])
  BY <1>1, <1>2 DEF History
<1>6. upset[p].more \in Nat
  BY <1>2 DEF History
<1> QED
  BY <1>3, <1>4, <1>5, <1>6

LEMMA DecideInv ==
  ASSUME NEW p \in Officers, Sound, Sound', Upset, IssuingInv(p), Decide(p)
  PROVE  IssuingInv(p)'
<1> DEFINE r == issuing[p]
<1>1. PICK d \in Debts : d = r.debt
  BY DEF IssuingInv, ReadsTyped, Decide
<1>2. r \in Request /\ r.at = "decide" /\ UNCHANGED <<debts, terms, fx>> /\ ReadsTyped(p)
  BY DEF Decide, Sound, IssuingInv
<1>3. CASE issuing'[p] = NoIssue
  <2>1. issuing'[p].at = "idle"
    BY <1>3 DEF NoIssue
  <2> QED
    BY <2>1, QuietInv
<1>4. CASE issuing'[p] = [r EXCEPT !.at = "write", !.balances = <<>>, !.override = ~Verdict(p)]
  <2>1. /\ issuing'[p].at = "write" /\ issuing'[p].debt = d /\ issuing'[p].total = r.total
        /\ issuing'[p].terms = r.terms /\ issuing'[p].override = ~Verdict(p)
    BY <1>1, <1>2, <1>4 DEF Request
  <2>2. /\ upset'[p].steady = upset[p].steady
        /\ upset'[p].more >= upset[p].more /\ upset'[p].more \in Nat
    BY <1>1, <1>2, <2>1, StillMore
  <2>3. ReadsTyped(p)'
    BY <1>1, <1>2, <2>1 DEF ReadsTyped, Begun, HoldsBalances
  <2>4. DraftTold(p)' /\ AddedTold(p)' /\ MissingTold(p)'
    BY <2>1 DEF DraftTold, AddedTold, MissingTold
  <2>5. LimitTold(p)'
    <3>1. CASE ~Verdict(p) \/ EffectiveLimit(r.terms) = None
      BY <2>1, <3>1 DEF LimitTold, EffectiveLimit
    <3>2. CASE Verdict(p) /\ EffectiveLimit(r.terms) # None
      <4>1. PICK limit \in Nat : limit = EffectiveLimit(r.terms)
        BY <1>2, <3>2, LimitTyped DEF ReadsTyped, Begun
      <4>2. /\ Measured /\ MissingTold(p) /\ upset[p] \in History /\ r.total \in Nat
        BY <1>2 DEF Sound, IssuingInv, Request
      <4>3. Prospect(d) <= limit + upset[p].more
        BY <1>1, <1>2, <3>2, <4>1, <4>2, VerdictHolds
      <4>4. Prospect(d)' = Prospect(d)
        BY <1>2 DEF Prospect, ExposureOf, Total, Counted, Owed, InBase, ToBase, Owing,
                    BalanceWithoutNotes
      <4>5. Prospect(d) \in Int
        BY ProspectStays DEF Sound
      <4>6. upset[p].more \in Nat
        BY <4>2 DEF History
      <4>7. Prospect(d)' <= limit + upset'[p].more
        BY <2>2, <4>3, <4>4, <4>5, <4>6
      <4>8. EffectiveLimit(issuing[p].terms)' = limit
        BY <2>1, <4>1 DEF EffectiveLimit
      <4> QED
        BY <2>1, <4>7, <4>8 DEF LimitTold
    <3> QED
      BY <3>1, <3>2
  <2>6. ReadsHold(p)'
    <3>1. upset[p].steady => terms = r.terms
      BY <1>2 DEF IssuingInv, ReadsHold, Begun
    <3>2. ASSUME upset[p].steady, Verdict(p) PROVE FailsClosed(p)
      <4>1. r.unknown <=> \E e \in Debts : Owed(e) /\ ~RateKnown(debts[e].currency)
        BY <1>2, <3>2 DEF IssuingInv, ReadsHold, Begun
      <4>2. ~r.terms.hold /\ ~r.unknown /\ RateKnown(debts[d].currency)
        BY <1>1, <3>2 DEF Verdict, Allowed
      <4> QED
        BY <1>1, <3>1, <3>2, <4>1, <4>2 DEF FailsClosed, Counted
    <3>3. FailsClosed(p)' <=> FailsClosed(p)
      BY <1>1, <1>2, <2>1 DEF FailsClosed, Counted, Owed, RateKnown
    <3> QED
      BY <1>2, <2>1, <2>2, <3>1, <3>2, <3>3 DEF ReadsHold, HoldsBalances
  <2> QED
    BY <2>3, <2>4, <2>5, <2>6 DEF IssuingInv
<1> QED
  BY <1>3, <1>4, DecidePuts DEF Sound


LEMMA OwnInv ==
  ASSUME NEW p \in Officers, Sound, Sound', Upset, IssuingInv(p), Own(p)
  PROVE  IssuingInv(p)'
<1>1. issuing \in [Officers -> Request]
  BY DEF Sound
<1>2. CASE BeginIssuing(p)
  BY <1>1, <1>2, BeginIssuingPuts, QuietInv
<1>3. CASE WriteIssued(p)
  <2>1. issuing'[p].at = "idle"
    BY <1>1, <1>3, WriteIssuedPuts DEF NoIssue
  <2> QED
    BY <2>1, QuietInv
<1> QED
  BY <1>2, <1>3, TermsInv, BalancesInv, NotesInv, RatesInv, DecideInv DEF Own

LEMMA CreditSteps ==
  ASSUME CreditInv, [CreditNext]_creditVars
  PROVE  CreditInv'
<1>1. CASE UNCHANGED creditVars
  <2>1. /\ debts' = debts /\ terms' = terms /\ fx' = fx /\ issuing' = issuing
        /\ changes' = changes /\ upset' = upset
    BY <1>1 DEF creditVars
  <2>2. ASSUME NEW p \in Officers PROVE IssuingInv(p)'
    <3>1. IssuingInv(p)
      BY DEF CreditInv
    <3>2. ReadsTyped(p)' <=> ReadsTyped(p)
      BY <2>1 DEF ReadsTyped, Begun, HoldsBalances
    <3>3. DraftTold(p)' <=> DraftTold(p)
      BY <2>1 DEF DraftTold, Owed, Owing, BalanceWithoutNotes
    <3>4. AddedTold(p)' <=> AddedTold(p)
      BY <2>1 DEF AddedTold, Share, Counted, Owed, Owing, BalanceWithoutNotes, Seen
    <3>5. MissingTold(p)' <=> MissingTold(p)
      BY <2>1 DEF MissingTold, Missing, Charged, Share, Counted, Owed, Owing,
                  BalanceWithoutNotes, InBase, ToBase, Total, Positive
    <3>6. LimitTold(p)' <=> LimitTold(p)
      BY <2>1 DEF LimitTold, EffectiveLimit, Prospect, ExposureOf, Total, Counted, Owed, Owing,
                  BalanceWithoutNotes, InBase, ToBase
    <3>7. ReadsHold(p)' <=> ReadsHold(p)
      BY <2>1 DEF ReadsHold, Begun, HoldsBalances, FailsClosed, Counted, Owed, RateKnown
    <3> QED
      BY <3>1, <3>2, <3>3, <3>4, <3>5, <3>6, <3>7 DEF IssuingInv
  <2> QED
    BY <2>1, <2>2 DEF CreditInv, CreditTypeOK
<1>2. CASE CreditNext
  <2>1. CreditStep /\ Upset
    BY <1>2 DEF CreditNext
  <2>2. Sound /\ Sound' /\ CreditTypeOK' /\ \A e \in Debts : DebtMoves(e)
    BY <2>1, InvSound, StepSound
  <2>3. ASSUME NEW p \in Officers PROVE IssuingInv(p)'
    <3>1. IssuingInv(p)
      BY DEF CreditInv
    <3>2. CASE Own(p)
      BY <2>1, <2>2, <3>1, <3>2, OwnInv
    <3>3. CASE issuing'[p] = issuing[p]
      <4>1. Bystander(p)
        BY <2>1, <2>2, <3>1, <3>3 DEF Bystander
      <4> QED
        BY <2>2, <4>1, OthersMove
    <3> QED
      BY <2>1, <3>2, <3>3, OneMoves
  <2> QED
    BY <2>2, <2>3 DEF CreditInv, Sound
<1> QED
  BY <1>1, <1>2

\* Credit control keeps its invariant, for any number of requests, invoices and currencies.
THEOREM CreditInvariant == OfficeSpec => []CreditInv
<1>1. OfficeInit => CreditInv
  BY CreditStarts DEF OfficeInit
<1>2. CreditInv /\ [OfficeNext]_officeVars => CreditInv'
  BY CreditRuns, CreditSteps
<1> QED
  BY <1>1, <1>2, PTL DEF OfficeSpec

\* Issuing takes the exposure to what was in prospect.
LEMMA IssuingControlled ==
  ASSUME CreditInv, [CreditNext]_creditVars, NEW p \in Officers, Issues(p)
  PROVE  OvershootExplained(p) /\ (upset[p].steady => FailsClosed(p))
<1>1. issuing[p].at = "write" /\ issuing'[p].at = "idle" /\ ~issuing[p].override
  BY DEF Issues
<1>2. CreditStep
  BY <1>1 DEF CreditNext, creditVars
<1>3. WriteIssued(p)
  <2>1. Own(p)
    BY <1>1, <1>2, OneMoves
  <2> QED
    BY <1>1, <2>1 DEF Own, BeginIssuing, ReadTerms, ReadBalances, ReadNotes, ReadRates, Decide
<1>4. IssuingInv(p) /\ debts \in [Debts -> Debt] /\ fx' = fx
  BY <1>3, InvSound DEF CreditInv, Sound, Tables, WriteIssued
<1>5. PICK d \in Debts : d = issuing[p].debt
  BY <1>1, <1>4 DEF IssuingInv, ReadsTyped
<1>6. debts' = [debts EXCEPT ![d].status = "ISSUED"]
  BY <1>3, <1>5 DEF WriteIssued
<1>7. Exposure' = Prospect(d)
  <2>1. \A e \in Debts : /\ debts'[e].total = debts[e].total /\ debts'[e].paid = debts[e].paid
                         /\ debts'[e].net = debts[e].net
                         /\ debts'[e].currency = debts[e].currency
    BY <1>4, <1>6 DEF Debt
  <2>2. \A e \in Debts : Owed(e)' <=> e \in Counted(d)
    BY <1>4, <1>6 DEF Debt, Owed, Counted
  <2>3. {e \in Debts : Owed(e)}' = Counted(d)
    BY <2>2 DEF Counted
  <2>4. \A e \in Debts : InBase(e, Owing(e))' = InBase(e, Owing(e))
    BY <1>4, <2>1 DEF InBase, ToBase, Owing, BalanceWithoutNotes
  <2>5. Counted(d) \subseteq Debts
    BY DEF Counted
  <2>6. Exposure' = Total([e \in Counted(d) |-> InBase(e, Owing(e))'])
    BY <2>3 DEF Exposure, ExposureOf, Total
  <2>7. [e \in Counted(d) |-> InBase(e, Owing(e))'] = [e \in Counted(d) |-> InBase(e, Owing(e))]
    BY <2>4, <2>5
  <2> QED
    BY <2>6, <2>7 DEF Prospect, ExposureOf
<1>8. OvershootExplained(p)
  BY <1>1, <1>4, <1>5, <1>7 DEF OvershootExplained, IssuingInv, LimitTold
<1>9. upset[p].steady => FailsClosed(p)
  BY <1>1, <1>4 DEF IssuingInv, ReadsHold, Begun
<1> QED
  BY <1>8, <1>9

\* An invoice that is issued without an override leaves the customer within the limit that was
\* read, but for what others added meanwhile; and when nothing changed, the check fails closed.
THEOREM CreditCorrect == OfficeSpec => CreditControlled
<1>1. CreditInv /\ [OfficeNext]_officeVars =>
        [\A p \in Officers : Issues(p) =>
           OvershootExplained(p) /\ (upset[p].steady => FailsClosed(p))]_creditVars
  BY CreditRuns, IssuingControlled
<1> QED
  BY <1>1, CreditInvariant, PTL DEF OfficeSpec, CreditControlled
=============================================================================
