------------------------------- MODULE Server -------------------------------
(* What the models of the server's smaller parts share. *)

CONSTANTS None,          \* null, nobody, nothing
          Horizon,       \* bound on time
          MaxCrashes     \* bound on crashes
=============================================================================
