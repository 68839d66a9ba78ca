------------------------------ MODULE MCClient ------------------------------
(* Model values for the runs of Client. *)
EXTENDS Client
=============================================================================
