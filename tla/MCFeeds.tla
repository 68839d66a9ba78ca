------------------------------- MODULE MCFeeds -------------------------------
(* Model values for the run of Feeds. *)
EXTENDS Feeds

MCMaxSent == [c \in Conns |-> 1]
=============================================================================
