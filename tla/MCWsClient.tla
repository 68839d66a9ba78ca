----------------------------- MODULE MCWsClient -----------------------------
(* Model values for the run of WsClient. *)
EXTENDS WsClient, TLC

(* No object differs from another. *)
Symmetry == Permutations(Objects)
=============================================================================
