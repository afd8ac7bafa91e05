------------------------------ MODULE MCClient ------------------------------
(* A tab that may follow any query of the web client, signed in with any role. *)
EXTENDS Client

MCLooks == UNION {{q.key : q \in Named[n].queries} : n \in Names}
MCStaff == DOMAIN RoleMatrix

FairSpec == ClientSpec /\ ClientFairness
=============================================================================
