-------------------------------- MODULE Tasks --------------------------------
(***************************************************************************)
(* Repeated tasks: Worker::enqueue() behind Server::repeatEvery(), and     *)
(* TaskManager::repeatEvery() (src/src/worker.h, server.h).                *)
(*                                                                         *)
(* Both keep a table from an id to the std::jthread that runs the id's     *)
(* task, under a mutex they hold for the whole call: stop and join the old *)
(* thread, start the new one, store it.  The actors are the threads that   *)
(* call (the handlers on the loop's thread, or any other), the tasks'      *)
(* threads, which may call too, and the thread that destroys the tables.   *)
(***************************************************************************)
EXTENDS Naturals, FiniteSets

CONSTANTS
  Callers,   \* the threads outside the tables that start tasks
  Threads,   \* bound: the threads the calls may create
  Ids,       \* the ids of tasks
  Managed,   \* those that are keys of the TaskManager; the others are Worker's
  Nested,    \* the ids a task itself may start a task for
  NoThread,
  Nobody,    \* holds no mutex
  NoId

ASSUME ActorsAssumption == /\ Callers \cap Threads = {}
                           /\ NoThread \notin Threads
                           /\ Nobody \notin Callers \cup Threads
ASSUME IdsAssumption    == Managed \subseteq Ids /\ Nested \subseteq Ids /\ NoId \notin Ids

Actors == Callers \cup Threads
Tables == {"Worker", "TaskManager"}
Table(id) == IF id \in Managed THEN "TaskManager" ELSE "Worker"

VARIABLES
  cpc, cid,         \* where each actor is in its call, and the id it calls for
  holder,           \* who holds the mutex of each table
  entry,            \* the tables
  th, of, stop,     \* the threads: where in the loop, whose task, stop requested
  closing, closeId, \* the table being destroyed, and the id being joined
  process           \* running, ended by std::terminate(), or undefined

callVars   == <<cpc, cid, holder>>
threadVars == <<th, of, stop>>
closeVars  == <<closing, closeId>>
vars == <<callVars, entry, threadVars, closeVars, process>>

Init ==
  /\ cpc = [a \in Actors |-> "idle"]
  /\ cid = [a \in Actors |-> NoId]
  /\ holder = [tb \in Tables |-> Nobody]
  /\ entry = [id \in Ids |-> NoThread]
  /\ th = [t \in Threads |-> "new"]
  /\ of = [t \in Threads |-> NoId]
  /\ stop = [t \in Threads |-> FALSE]
  /\ closing = "no"
  /\ closeId = NoId
  /\ process = "runs"

Live(t) == th[t] \in {"check", "run", "sleep"}
Fresh(t) == th[t] = "new"
Over(t) == th[t] \in {"finished", "failed"}
Runs == process = "runs"
Calling == {a \in Actors : cpc[a] # "idle"}

(* ~Server() drops its Worker; the static TaskManager goes when the process
   exits.  Neither destructor takes the mutex. *)
Dying(tb) == IF tb = "Worker" THEN closing # "no" ELSE closing \in {"TaskManager", "done"}

-----------------------------------------------------------------------------
(* Worker::enqueue(), TaskManager::repeatEvery() *)

(* Bound: a call starts only while there is a thread for it to create. *)
Room == Cardinality(Calling) < Cardinality({t \in Threads : Fresh(t)})

(* A call begins: from outside, where nobody calls a table that is being
   destroyed, or from the function of a running task, which nothing prevents. *)
Enter(a, id) ==
  /\ Runs
  /\ Room
  /\ cpc[a] = "idle"
  /\ IF a \in Threads THEN th[a] = "run" /\ id \in Nested ELSE ~Dying(Table(id))
  /\ cpc' = [cpc EXCEPT ![a] = "lock"]
  /\ cid' = [cid EXCEPT ![a] = id]
  /\ UNCHANGED <<holder, entry, threadVars, closeVars, process>>

(* What a call does to the table, as long as the table is there. *)
At(a, step) == Runs /\ cpc[a] = step /\ ~Dying(Table(cid[a]))

(* The mutex is taken; if there is an old thread it is asked to stop. *)
LockFor(a, mutexFree) ==
  LET id == cid[a] IN
  /\ At(a, "lock")
  /\ mutexFree
  /\ holder' = [holder EXCEPT ![Table(id)] = a]
  /\ cpc' = [cpc EXCEPT ![a] = IF entry[id] = NoThread THEN "spawn" ELSE "join"]
  /\ stop' = [t \in Threads |-> stop[t] \/ t = entry[id]]
  /\ UNCHANGED <<cid, entry, th, of, closeVars, process>>

(* Mutant: no mutex. *)
LockNothing(a) == LockFor(a, TRUE)

Lock(a) == LockFor(a, holder[Table(cid[a])] = Nobody)

(* Mutant: the old thread is asked to stop, and not waited for. *)
JoinNothing(a) ==
  /\ At(a, "join")
  /\ cpc' = [cpc EXCEPT ![a] = "spawn"]
  /\ UNCHANGED <<cid, holder, entry, threadVars, closeVars, process>>

(* join() returns when the old thread is over. *)
Join(a) ==
  /\ At(a, "join")
  /\ Over(entry[cid[a]])
  /\ cpc' = [cpc EXCEPT ![a] = "spawn"]
  /\ UNCHANGED <<cid, holder, entry, threadVars, closeVars, process>>

(* A task that replaces itself joins its own thread: join() throws, out of the
   thread's function or out of ~jthread(), and the process is terminated. *)
JoinSelf(a) ==
  /\ At(a, "join")
  /\ entry[cid[a]] = a
  /\ process' = "aborted"
  /\ UNCHANGED <<callVars, entry, threadVars, closeVars>>

Unlock(a) ==
  /\ holder' = [holder EXCEPT ![Table(cid[a])] = Nobody]
  /\ cpc' = [cpc EXCEPT ![a] = "idle"]
  /\ cid' = [cid EXCEPT ![a] = NoId]

(* Mutant: the table is only added to (emplace() without the erase() before). *)
SpawnEmplace(a, t) ==
  /\ At(a, "spawn")
  /\ Fresh(t)
  /\ th' = [th EXCEPT ![t] = "check"]
  /\ of' = [of EXCEPT ![t] = cid[a]]
  /\ entry' = [entry EXCEPT ![cid[a]] = IF @ = NoThread THEN t ELSE @]
  /\ Unlock(a)
  /\ UNCHANGED <<stop, closeVars, process>>

(* The new thread runs, it replaces the old one in the table, and the mutex is
   released. *)
Spawn(a, t) ==
  /\ At(a, "spawn")
  /\ Fresh(t)
  /\ th' = [th EXCEPT ![t] = "check"]
  /\ of' = [of EXCEPT ![t] = cid[a]]
  /\ entry' = [entry EXCEPT ![cid[a]] = t]
  /\ Unlock(a)
  /\ UNCHANGED <<stop, closeVars, process>>

(* std::jthread() throws: Worker keeps the thread it joined in its table,
   TaskManager has already erased it. *)
SpawnFails(a, t) ==
  /\ At(a, "spawn")
  /\ Fresh(t)
  /\ th' = [th EXCEPT ![t] = "failed"]
  /\ entry' = IF cid[a] \in Managed THEN [entry EXCEPT ![cid[a]] = NoThread] ELSE entry
  /\ Unlock(a)
  /\ UNCHANGED <<of, stop, closeVars, process>>

(* A call reads, joins or replaces an entry of a table that is being destroyed,
   or is gone: a data race with the destructor, or a use after it.  The map may
   be corrupted, a thread joined twice, a new thread started that the destructor
   does not come to: nothing is known of the process any more. *)
Race(a) ==
  /\ Runs
  /\ cpc[a] # "idle"
  /\ Dying(Table(cid[a]))
  /\ cpc[a] = "lock" => holder[Table(cid[a])] = Nobody
  /\ process' = "undefined"
  /\ UNCHANGED <<callVars, entry, threadVars, closeVars>>

-----------------------------------------------------------------------------
(* The loop of a task's thread. *)

Goto(t, from, to) ==
  /\ Runs
  /\ th[t] = from
  /\ th' = [th EXCEPT ![t] = to]
  /\ UNCHANGED <<callVars, entry, of, stop, closeVars, process>>

(* Mutant: while (true) *)
NeverStop(t) == Goto(t, "check", "run")

(* while (!stop.stop_requested()) *)
CheckStop(t) == Goto(t, "check", IF stop[t] THEN "finished" ELSE "run")

(* fn() returns; a false ends a task of the Worker. *)
Return(t) ==
  /\ cpc[t] = "idle"
  /\ \/ Goto(t, "run", "sleep")
     \/ of[t] \notin Managed /\ Goto(t, "run", "finished")

(* The interval is over; the TaskManager's threads look for a stop meanwhile. *)
Wake(t) == Goto(t, "sleep", "check")

WakeStopped(t) == of[t] \in Managed /\ stop[t] /\ Goto(t, "sleep", "finished")

-----------------------------------------------------------------------------
(* The destruction of the tables, when nobody calls them from outside any more.
   Each ~jthread() asks its thread to stop and joins it. *)

NoCallerIn(tb) == \A a \in Callers : cpc[a] # "idle" => Table(cid[a]) # tb

CloseBegin ==
  /\ Runs
  /\ closing = "no"
  /\ NoCallerIn("Worker")
  /\ closing' = "Worker"
  /\ UNCHANGED <<callVars, entry, threadVars, closeId, process>>

(* Mutant: joined without being asked to stop (std::thread). *)
CloseOnlyJoins(id) ==
  /\ Runs
  /\ closing = Table(id)
  /\ closeId = NoId
  /\ entry[id] # NoThread
  /\ closeId' = id
  /\ UNCHANGED <<callVars, entry, threadVars, closing, process>>

CloseStop(id) ==
  /\ Runs
  /\ closing = Table(id)
  /\ closeId = NoId
  /\ entry[id] # NoThread
  /\ closeId' = id
  /\ stop' = [stop EXCEPT ![entry[id]] = TRUE]
  /\ UNCHANGED <<callVars, entry, th, of, closing, process>>

CloseJoin ==
  /\ Runs
  /\ closeId # NoId
  /\ Over(entry[closeId])
  /\ closeId' = NoId
  /\ entry' = [entry EXCEPT ![closeId] = NoThread]
  /\ UNCHANGED <<callVars, threadVars, closing, process>>

(* The Worker is gone; the process exits. *)
CloseManager ==
  /\ Runs
  /\ closing = "Worker"
  /\ NoCallerIn("TaskManager")
  /\ closeId = NoId
  /\ \A id \in Ids \ Managed : entry[id] = NoThread
  /\ closing' = "TaskManager"
  /\ UNCHANGED <<callVars, entry, threadVars, closeId, process>>

CloseDone ==
  /\ Runs
  /\ closing = "TaskManager"
  /\ closeId = NoId
  /\ \A id \in Managed : entry[id] = NoThread
  /\ closing' = "done"
  /\ UNCHANGED <<callVars, entry, threadVars, closeId, process>>

-----------------------------------------------------------------------------
CallStep(a) ==
  \/ Lock(a) \/ Join(a) \/ JoinSelf(a) \/ Race(a)
  \/ \E t \in Threads : Spawn(a, t) \/ SpawnFails(a, t)

TaskStep(t) == CheckStop(t) \/ Return(t) \/ Wake(t) \/ WakeStopped(t)

CloseStep == (\E id \in Ids : CloseStop(id)) \/ CloseJoin \/ CloseManager \/ CloseDone

Next ==
  \/ \E a \in Actors : CallStep(a) \/ \E id \in Ids : Enter(a, id)
  \/ \E t \in Threads : TaskStep(t)
  \/ CloseBegin \/ CloseStep

Spec == Init /\ [][Next]_vars

(* Every thread is scheduled, and the function of a task returns. *)
FairSpec ==
  /\ Spec
  /\ \A a \in Actors : WF_vars(CallStep(a))
  /\ \A t \in Threads : WF_vars(TaskStep(t))
  /\ WF_vars(CloseStep)

-----------------------------------------------------------------------------
(* Every variable stays in its range. *)
TypeOK ==
  /\ cpc \in [Actors -> {"idle", "lock", "join", "spawn"}]
  /\ cid \in [Actors -> Ids \cup {NoId}]
  /\ holder \in [Tables -> Actors \cup {Nobody}]
  /\ entry \in [Ids -> Threads \cup {NoThread}]
  /\ th \in [Threads -> {"new", "check", "run", "sleep", "finished", "failed"}]
  /\ of \in [Threads -> Ids \cup {NoId}]
  /\ stop \in [Threads -> BOOLEAN]
  /\ closing \in {"no", "Worker", "TaskManager", "done"}
  /\ closeId \in Ids \cup {NoId}
  /\ process \in {"runs", "aborted", "undefined"}

(* "Swaps the current running task with a new one" (worker.h:51): whoever
   calls, and however the calls overlap, two tasks of an id never run at once. *)
OneTaskPerId == \A t, u \in Threads : Live(t) /\ Live(u) /\ of[t] = of[u] => t = u

(* A running task is in its table: the next call for its id, or the
   destruction of the table, can still stop it. *)
LiveTasksListed == \A t \in Threads : Live(t) => entry[of[t]] = t

(* Once the tables are gone no task runs: none can touch the server's state
   after ~Server(), nor the Worker's tasks after it has gone.  And the promise
   ends only at a task's own hands, never at an outside caller's: the process is
   undefined only if a task that still runs has called repeatEvery() on a table
   whose destruction had begun. *)
NoTaskOutlivesTables ==
  /\ \A t \in Threads : Live(t) =>
       closing = "no" \/ closing = Table(of[t]) \/ (closing = "Worker" /\ of[t] \in Managed)
  /\ process = "undefined" =>
       \E t \in Threads : Live(t) /\ cpc[t] # "idle" /\ Dying(Table(cid[t]))

(* "This will block the caller until the previous task is finished"
   (worker.h:52), and no longer: every call returns.  Only tasks that start
   tasks themselves can keep it from returning: they may wait for the mutex of
   the caller that waits for them, or for themselves. *)
CallsReturnUnlessNested ==
  \A a \in Actors :
    (cpc[a] # "idle")
      ~> (cpc[a] = "idle" \/ process = "aborted" \/ \E t \in Threads : cpc[t] # "idle")

(* Destruction ends, every thread seeing the stop that is requested of it,
   unless tasks call: a call of a task may never return, or meet the
   destruction of its table. *)
DestructionEnds ==
  (closing # "no")
    ~> (closing = "done" \/ ~Runs \/ [](\E t \in Threads : cpc[t] # "idle"))

-----------------------------------------------------------------------------
(* The slot of an id holds its live task. *)
TaskOf(id) ==
  IF \E t \in Threads : Live(t) /\ of[t] = id
  THEN CHOOSE t \in Threads : Live(t) /\ of[t] = id
  ELSE NoThread

Current == [id \in Ids |-> TaskOf(id)]
Ended == {t \in Threads : th[t] = "finished"}
Open == {id \in Ids : ~Dying(Table(id))}

Slots == INSTANCE TaskSlots
  WITH current <- Current, over <- Ended, open <- Open, void <- process = "undefined"

(* The tables implement slots for at most one task each. *)
ImplementsSlots == Slots!Spec

=============================================================================
