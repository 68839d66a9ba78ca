----------------------------- MODULE TaskSlots -----------------------------
(***************************************************************************)
(* What repeatEvery() promises: an id is a slot for at most one task.  A   *)
(* task starts only in a slot whose previous task is over, a task that is  *)
(* over never runs again, and nothing starts in a slot that is closed.     *)
(* The promise is void once a task tries to start one in a closed slot.    *)
(***************************************************************************)
CONSTANTS Ids, Threads, NoThread

VARIABLES
  current,  \* the live task of each slot, or NoThread
  over,     \* the tasks that will not run again
  open,     \* the slots in which tasks may still be started
  void      \* does the promise no longer hold

vars == <<current, over, open, void>>

Init ==
  /\ current = [id \in Ids |-> NoThread]
  /\ over = {}
  /\ open = Ids
  /\ void = FALSE

Start(id, t) ==
  /\ id \in open
  /\ current[id] = NoThread
  /\ t \notin over
  /\ \A other \in Ids : current[other] # t
  /\ current' = [current EXCEPT ![id] = t]
  /\ UNCHANGED <<over, open, void>>

End(id) ==
  /\ current[id] # NoThread
  /\ over' = over \cup {current[id]}
  /\ current' = [current EXCEPT ![id] = NoThread]
  /\ UNCHANGED <<open, void>>

Close(closed) ==
  /\ open' = open \ closed
  /\ UNCHANGED <<current, over, void>>

(* Only a live task can call when the owner of the slots has begun to close them. *)
Forfeit ==
  /\ open # Ids
  /\ \E id \in Ids : current[id] # NoThread
  /\ void' = TRUE
  /\ UNCHANGED <<current, over, open>>

Next ==
  /\ ~void
  /\ \/ \E id \in Ids : End(id) \/ \E t \in Threads : Start(id, t)
     \/ \E closed \in SUBSET open : Close(closed)
     \/ Forfeit

Spec == Init /\ [][Next]_vars

=============================================================================
