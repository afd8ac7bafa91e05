------------------------------ MODULE MCOffice ------------------------------
(* Office for TLC. *)
EXTENDS Office, TLC

MCTerms == {[creditLimit |-> 2, outstandingLimit |-> 3, hold |-> FALSE],
            [creditLimit |-> None, outstandingLimit |-> 2, hold |-> TRUE]}
MCGrants == {RoleMatrix["Viewer"], RoleMatrix["Viewer"] \union {"jobs.write"}}
MCDeadline == [x \in Sailings \union Quotes |-> 2]

\* Requests of one kind, and invoices, are interchangeable.
Symmetry == Permutations(Officers) \union Permutations(Debts)

\* The two tables that are imported share nothing: one of them is in use.
OneTable == masters = <<>> \/ rates = <<>>

\* Customers start without a hold, with invoices of one amount in each of the currencies.
PlainStart == part = "credit" /\ changes = 0 =>
  /\ ~terms.hold /\ \A d \in Debts : debts[d].total = 2
  /\ \A c \in Currencies : \E d \in Debts : debts[d].currency = c

FairSpec == OfficeSpec /\ OfficeFairness
=============================================================================
