----------------------------- MODULE MCSslLoop -----------------------------
(* Model values for the runs of SslLoop. *)
EXTENDS SslLoop

CONSTANT Talker  \* the client that sends two records; the others send one

(* Upgrades are longer than the read buffer. *)
MCRecords == {r \in [kind : Kinds, parts : {1, 2}] : r.parts = 2 <=> r.kind = "upgrade"}

MCMaxSent == [d \in Conns |-> IF d = Talker THEN 2 ELSE 1]
=============================================================================
