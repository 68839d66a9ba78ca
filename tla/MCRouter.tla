------------------------------ MODULE MCRouter ------------------------------
(* Model values for the runs of Router. *)
EXTENDS Router
=============================================================================
