------------------------------- MODULE MCWire -------------------------------
(* Model values for the run of Wire. *)
EXTENDS Wire
=============================================================================
