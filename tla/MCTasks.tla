------------------------------ MODULE MCTasks ------------------------------
(* Model values for the runs of Tasks. *)
EXTENDS Tasks
=============================================================================
