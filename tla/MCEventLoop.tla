---------------------------- MODULE MCEventLoop ----------------------------
(* Model values for the runs of EventLoop. *)
EXTENDS EventLoop

CONSTANT Talkers  \* the clients that send two requests; the others send one

MCMaxSent == [c \in Conns |-> IF c \in Talkers THEN 2 ELSE 1]
=============================================================================
