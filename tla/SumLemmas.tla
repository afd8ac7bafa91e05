----------------------------- MODULE SumLemmas ------------------------------
(***************************************************************************)
(* What SumOf and the settlement rules of StatusRules return, for any rows *)
(* with amounts: the facts that the proofs about payables, receivables and *)
(* quotation prices keep needing.  SumOf counts the cents of its rows, so  *)
(* these are facts about cardinalities.                                    *)
(***************************************************************************)
EXTENDS StatusRules, FiniteSetTheorems, TLAPS

\* Finitely many rows whose amounts are whole cents.
HasAmounts(rows, S) == IsFiniteSet(S) /\ \A x \in S : rows[x].amount \in Nat

\* The cents of one row: as many as its amount.
LEMMA CentsOfOne ==
  ASSUME NEW x, NEW n \in Nat
  PROVE  IsFiniteSet({x} \X (1 .. n)) /\ Cardinality({x} \X (1 .. n)) = n
<1>1. IsFiniteSet(1 .. n) /\ Cardinality(1 .. n) = n
  <2>1. IsFiniteSet(1 .. n) /\ Cardinality(1 .. n) = IF 1 > n THEN 0 ELSE n - 1 + 1
    BY FS_Interval
  <2> QED BY <2>1
<1>2. IsFiniteSet({x}) /\ Cardinality({x}) = 1
  BY FS_Singleton
<1>3. IsFiniteSet({x} \X (1 .. n)) /\ Cardinality({x} \X (1 .. n)) = 1 * n
  BY <1>1, <1>2, FS_Product
<1> QED BY <1>3

\* Finitely many rows have finitely many cents, so their sum is a number.
LEMMA SumType ==
  ASSUME NEW rows, NEW S, HasAmounts(rows, S)
  PROVE  IsFiniteSet(CentsOf(rows, S)) /\ SumOf(rows, S) \in Nat
<1> DEFINE part(x) == {x} \X (1 .. rows[x].amount)
           parts == {part(x) : x \in S}
<1>1. \A T \in parts : IsFiniteSet(T)
  <2>1. ASSUME NEW x \in S
        PROVE  IsFiniteSet(part(x))
    <3>1. rows[x].amount \in Nat
      BY DEF HasAmounts
    <3> QED BY <3>1, CentsOfOne
  <2> HIDE DEF part
  <2> QED BY <2>1
<1>2. IsFiniteSet(parts)
  <2> DEFINE f == [x \in S |-> part(x)]
  <2>1. f \in Surjection(S, parts)
    BY DEF Surjection
  <2> QED BY <2>1, FS_Surjection DEF HasAmounts
<1>3. IsFiniteSet(UNION parts)
  <2> HIDE DEF parts
  <2> QED BY <1>1, <1>2, FS_UNION
<1>4. IsFiniteSet(CentsOf(rows, S))
  BY <1>3 DEF CentsOf
<1> QED BY <1>4, FS_CardinalityType DEF SumOf

\* Fewer rows add up to no more.
LEMMA SumMonotone ==
  ASSUME NEW rows, NEW T, HasAmounts(rows, T), NEW S \in SUBSET T
  PROVE  SumOf(rows, S) <= SumOf(rows, T)
<1>1. IsFiniteSet(CentsOf(rows, T))
  BY SumType
<1>2. CentsOf(rows, S) \subseteq CentsOf(rows, T)
  BY DEF CentsOf
<1> QED BY <1>1, <1>2, FS_Subset DEF SumOf

\* The sum of no rows is nothing.
LEMMA SumEmpty ==
  ASSUME NEW rows
  PROVE  SumOf(rows, {}) = 0
<1>1. CentsOf(rows, {}) = {}
  BY DEF CentsOf
<1> QED BY <1>1, FS_EmptySet DEF SumOf

\* One more row adds its amount.
LEMMA SumAdd ==
  ASSUME NEW rows, NEW S, NEW x, x \notin S, HasAmounts(rows, S), rows[x].amount \in Nat
  PROVE  SumOf(rows, S \cup {x}) = SumOf(rows, S) + rows[x].amount
<1> DEFINE A == CentsOf(rows, S)
           C == {x} \X (1 .. rows[x].amount)
<1>1. CentsOf(rows, S \cup {x}) = A \cup C
  BY DEF CentsOf
<1>2. IsFiniteSet(A) /\ Cardinality(A) \in Nat
  BY SumType DEF SumOf
<1>3. IsFiniteSet(C) /\ Cardinality(C) = rows[x].amount
  BY CentsOfOne
<1>4. A \cap C = {}
  BY DEF CentsOf
<1>5. Cardinality(A \cup C) = Cardinality(A) + Cardinality(C)
  <2> HIDE DEF A, C
  <2>1. Cardinality(A \cup C) = Cardinality(A) + Cardinality(C) - Cardinality(A \cap C)
    BY <1>2, <1>3, FS_Union
  <2>2. Cardinality(A \cap C) = 0
    BY <1>4, FS_EmptySet
  <2> QED BY <1>2, <1>3, <2>1, <2>2
<1> QED BY <1>1, <1>3, <1>5 DEF SumOf

\* Taking a row out takes its amount off.
LEMMA SumRemove ==
  ASSUME NEW rows, NEW S, NEW x \in S, HasAmounts(rows, S)
  PROVE  /\ SumOf(rows, S \ {x}) = SumOf(rows, S) - rows[x].amount
         /\ SumOf(rows, S \ {x}) \in Nat
<1> DEFINE rest == S \ {x}
<1>1. HasAmounts(rows, rest) /\ rows[x].amount \in Nat /\ S = rest \cup {x} /\ x \notin rest
  BY FS_Subset DEF HasAmounts
<1>2. SumOf(rows, rest) \in Nat
  BY <1>1, SumType
<1>3. SumOf(rows, S) = SumOf(rows, rest) + rows[x].amount
  <2> HIDE DEF rest
  <2>1. SumOf(rows, rest \cup {x}) = SumOf(rows, rest) + rows[x].amount
    BY <1>1, SumAdd
  <2> QED BY <1>1, <2>1
<1>4. \A n, m, k \in Nat : k = n + m => n = k - m
  OBVIOUS
<1>5. SumOf(rows, S) \in Nat
  BY SumType
<1> QED BY <1>1, <1>2, <1>3, <1>4, <1>5

\* The sum of one row is its amount.
LEMMA SumSingle ==
  ASSUME NEW rows, NEW x, rows[x].amount \in Nat
  PROVE  SumOf(rows, {x}) = rows[x].amount
<1>1. HasAmounts(rows, {})
  BY FS_EmptySet DEF HasAmounts
<1>2. SumOf(rows, {} \cup {x}) = SumOf(rows, {}) + rows[x].amount
  BY <1>1, SumAdd
<1>3. {} \cup {x} = {x}
  OBVIOUS
<1> QED BY <1>2, <1>3, SumEmpty

\* The sum reads nothing but the amounts.
LEMMA SumSame ==
  ASSUME NEW rows, NEW rows2, NEW S,
         \A x \in S : rows[x].amount = rows2[x].amount
  PROVE  SumOf(rows, S) = SumOf(rows2, S)
<1>1. CentsOf(rows, S) = CentsOf(rows2, S)
  BY DEF CentsOf
<1> QED BY <1>1 DEF SumOf

(* ------------------------------- settlement ----------------------------- *)

\* An accepted payment, rounded to cents, never takes a document past what is
\* collectible; a payment of less than half a cent leaves it as it was.
LEMMA PaymentFits ==
  ASSUME NEW collectible \in Int, NEW paid \in Nat, NEW quarters \in Nat,
         PaymentAccepted(collectible, paid, quarters)
  PROVE  /\ Round2(quarters) \in Nat
         /\ PaidAfter(paid, quarters) \in Nat
         /\ PaidAfter(paid, quarters) >= paid
         /\ PaidAfter(paid, quarters) <= collectible
         /\ collectible > 0
BY DEF PaymentAccepted, PaidAfter, Round2, QuartersPerCent
=============================================================================
