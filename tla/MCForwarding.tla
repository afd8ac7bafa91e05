---------------------------- MODULE MCForwarding ----------------------------
(* Forwarding for TLC: requests and rows of a table are interchangeable. *)
EXTENDS Forwarding, TLC

Symmetry == Permutations(Procs) \cup Permutations(Quotes) \cup Permutations(Bookings)
              \cup Permutations(Jobs)

\* Once a quotation is being booked, it is worth 2, and edited or cancelled only; before, it is
\* not cancelled.
OneTopic ==
  LET booked == \E b \in Bookings : bookings[b].status # "ABSENT"
      booking == \E p \in Procs : req[p].step = "book"
  IN \A q \in Quotes : quotes[q].status # "ABSENT" =>
       IF ~booked /\ ~booking THEN quotes[q].status # "CANCELLED" ELSE
       /\ ~quotes[q].deleted /\ revisions[q] = <<>>
       /\ quotes[q].status \in {"DRAFT", "WON", "CANCELLED"}
       /\ quotes[q].status = "WON" => \E b \in Bookings : bookings[b].quote = q
       /\ \A l \in lines[q] : l.worth = 2
       /\ \A p \in Procs : /\ req[p].worth \in {None, 2} /\ req[p].price = None
                           /\ req[p].step = "status" => req[p].target = "CANCELLED"

\* Shipment files of a booking, not yet moved or priced; or one shipment file on its own.
OneStage ==
  LET opened == {j \in Jobs : jobs[j].status # "ABSENT"}
  IN IF \E b \in Bookings : bookings[b].status # "ABSENT"
     THEN /\ \A j \in opened :
               /\ jobs[j].revenue = 0 /\ ~jobs[j].deleted /\ jobs[j].status # "IN_PROGRESS"
               /\ jobs[j].milestone = IF jobs[j].booking = None THEN "NOT_BOOKED" ELSE "BOOKED"
          /\ \A p \in Procs : req[p].step # "milestone" /\ req[p].revenue = None
                               /\ req[p].target # "IN_PROGRESS"
     ELSE Cardinality(opened) <= 1
=============================================================================
