----------------------------- MODULE TasksProofs -----------------------------
(***************************************************************************)
(* Theorems about Tasks, for every set of callers, threads and ids, and    *)
(* with tasks that start tasks themselves.                                 *)
(***************************************************************************)
EXTENDS Tasks, TLAPS

(* A call between lock and unlock holds the mutex of its id's table, and knows
   the thread it found there. *)
CallInv ==
  \A a \in Actors :
    /\ cpc[a] # "idle" => cid[a] \in Ids
    /\ cpc[a] \in {"join", "spawn"} => holder[Table(cid[a])] = a
    /\ cpc[a] = "join" /\ ~Dying(Table(cid[a])) => entry[cid[a]] # NoThread
    /\ cpc[a] = "spawn" /\ entry[cid[a]] # NoThread => Over(entry[cid[a]])

(* The tables are destroyed one after the other, each when nobody outside calls it. *)
CloseInv ==
  /\ \A a \in Callers : cpc[a] # "idle" => ~Dying(Table(cid[a]))
  /\ closeId # NoId => closing = Table(closeId) /\ entry[closeId] # NoThread
  /\ closing \in {"TaskManager", "done"} => \A id \in Ids \ Managed : entry[id] = NoThread
  /\ closing = "done" => \A id \in Ids : entry[id] = NoThread

(* A task calls from its function, and only such a call meets the destruction. *)
NestInv ==
  /\ \A t \in Threads : cpc[t] # "idle" => th[t] = "run"
  /\ process = "undefined" => \E t \in Threads : cpc[t] # "idle" /\ Dying(Table(cid[t]))

TaskInv ==
  /\ TypeOK
  /\ \A t \in Threads : Live(t) => of[t] \in Ids
  /\ LiveTasksListed
  /\ CallInv
  /\ CloseInv
  /\ NestInv

LEMMA TableType == ASSUME NEW id PROVE Table(id) \in Tables
  BY DEF Table, Tables

LEMMA InitTaskInv == Init => TaskInv
<1> SUFFICES ASSUME Init PROVE TaskInv
  OBVIOUS
<1>1. TypeOK /\ (\A t \in Threads : Live(t) => of[t] \in Ids) /\ LiveTasksListed
  BY ZenonT(40) DEF Init, TypeOK, Live, LiveTasksListed
<1>2. \A a \in Actors : cpc[a] = "idle"
  BY DEF Init
<1>3. CallInv /\ CloseInv /\ NestInv
  BY <1>2 DEF Init, CallInv, CloseInv, NestInv, Actors
<1> QED
  BY <1>1, <1>3 DEF TaskInv

LEMMA EnterInv ==
  ASSUME TaskInv, NEW a \in Actors, NEW id \in Ids, Enter(a, id)
  PROVE  TaskInv'
<1> USE DEF Enter, TaskInv, threadVars, closeVars
<1>1. TypeOK'
  BY DEF TypeOK
<1>2. (\A t \in Threads : Live(t) => of[t] \in Ids)' /\ LiveTasksListed'
  BY DEF TypeOK, Live, LiveTasksListed
<1>3. CallInv'
  BY DEF TypeOK, CallInv, Over, Dying
<1>4. a \in Callers => a \notin Threads /\ ~Dying(Table(id))
  BY ActorsAssumption
<1>5. CloseInv'
  BY <1>4 DEF CloseInv, Dying, TypeOK, Actors
<1>6. NestInv'
  BY DEF NestInv, TypeOK, Runs, Actors
<1> QED
  BY <1>1, <1>2, <1>3, <1>5, <1>6

LEMMA LockInv ==
  ASSUME TaskInv, NEW a \in Actors, Lock(a)
  PROVE  TaskInv'
<1> USE DEF Lock, LockFor, At, TaskInv, closeVars
<1>1. cid[a] \in Ids /\ Table(cid[a]) \in Tables
  BY TableType DEF CallInv
<1>2. TypeOK'
  BY <1>1 DEF TypeOK
<1>3. (\A t \in Threads : Live(t) => of[t] \in Ids)' /\ LiveTasksListed'
  BY DEF TypeOK, Live, LiveTasksListed
<1>4. \A b \in Actors : cpc[b] \in {"join", "spawn"} => Table(cid[b]) # Table(cid[a])
  BY ActorsAssumption DEF CallInv, Actors
<1>5. CallInv'
  <2> SUFFICES ASSUME NEW b \in Actors
               PROVE  /\ cpc'[b] # "idle" => cid[b] \in Ids
                      /\ cpc'[b] \in {"join", "spawn"} => holder'[Table(cid[b])] = b
                      /\ cpc'[b] = "join" /\ ~Dying(Table(cid[b])) => entry[cid[b]] # NoThread
                      /\ cpc'[b] = "spawn" /\ entry[cid[b]] # NoThread => Over(entry[cid[b]])
    BY DEF CallInv, Over, Dying
  <2>1. CASE b = a
    BY <1>1, <2>1 DEF TypeOK
  <2>2. CASE b # a
    BY <1>1, <1>4, <2>2, TableType DEF TypeOK, CallInv
  <2> QED
    BY <2>1, <2>2
<1>6. CloseInv' /\ NestInv'
  BY DEF CloseInv, NestInv, Dying, TypeOK, Runs, Actors
<1> QED
  BY <1>2, <1>3, <1>5, <1>6

LEMMA JoinInv ==
  ASSUME TaskInv, NEW a \in Actors, Join(a)
  PROVE  TaskInv'
<1> USE DEF Join, At, TaskInv, threadVars, closeVars
<1>1. TypeOK'
  BY DEF TypeOK
<1>2. (\A t \in Threads : Live(t) => of[t] \in Ids)' /\ LiveTasksListed'
  BY DEF TypeOK, Live, LiveTasksListed
<1>3. CallInv'
  BY DEF TypeOK, CallInv, Over, Dying
<1>4. CloseInv' /\ NestInv'
  BY DEF CloseInv, NestInv, Dying, TypeOK, Runs, Actors
<1> QED
  BY <1>1, <1>2, <1>3, <1>4

LEMMA JoinSelfInv ==
  ASSUME TaskInv, NEW a \in Actors, JoinSelf(a)
  PROVE  TaskInv'
  BY DEF JoinSelf, At, TaskInv, callVars, threadVars, closeVars, TypeOK, Live, LiveTasksListed,
         CallInv, CloseInv, NestInv, Over, Dying

(* An outside caller is never in a call on a table that is being destroyed. *)
LEMMA RaceInv ==
  ASSUME TaskInv, NEW a \in Actors, Race(a)
  PROVE  TaskInv'
<1> USE DEF Race, TaskInv, callVars, threadVars, closeVars
<1>1. TypeOK' /\ (\A t \in Threads : Live(t) => of[t] \in Ids)' /\ LiveTasksListed'
  BY DEF TypeOK, Live, LiveTasksListed
<1>2. CallInv' /\ CloseInv'
  BY DEF CallInv, CloseInv, Over, Dying
<1>3. a \in Threads
  BY DEF CloseInv, Actors
<1>4. NestInv'
  BY <1>3 DEF NestInv, Dying
<1> QED
  BY <1>1, <1>2, <1>4

(* Nobody else is between lock and unlock for the id a has reached the end of
   its call for. *)
LEMMA Exclusive ==
  ASSUME TaskInv, NEW a \in Actors, NEW b \in Actors, b # a,
         cpc[a] \in {"join", "spawn"}, cpc[b] \in {"join", "spawn"}
  PROVE  Table(cid[b]) # Table(cid[a]) /\ cid[b] # cid[a]
  BY DEF TaskInv, CallInv

(* The thread a new one replaces is over, so no live thread leaves the table. *)
LEMMA SpawnInv ==
  ASSUME TaskInv, NEW a \in Actors, NEW t \in Threads, Spawn(a, t)
  PROVE  TaskInv'
<1> USE DEF Spawn, At, Unlock, TaskInv, closeVars
<1>1. cid[a] \in Ids /\ Table(cid[a]) \in Tables
  BY TableType DEF CallInv
<1>2. TypeOK'
  BY <1>1 DEF TypeOK
<1>3. \A u \in Threads : Live(u) => of[u] # cid[a]
  BY <1>1, ActorsAssumption DEF CallInv, LiveTasksListed, Live, Over, TypeOK
<1>4. (\A u \in Threads : Live(u) => of[u] \in Ids)'
  BY <1>1 DEF TypeOK, Live
<1>5. LiveTasksListed'
  BY <1>1, <1>3 DEF TypeOK, Live, LiveTasksListed
<1>6. CallInv'
  <2> SUFFICES ASSUME NEW b \in Actors
               PROVE  (/\ cpc[b] # "idle" => cid[b] \in Ids
                       /\ cpc[b] \in {"join", "spawn"} => holder[Table(cid[b])] = b
                       /\ cpc[b] = "join" /\ ~Dying(Table(cid[b])) => entry[cid[b]] # NoThread
                       /\ cpc[b] = "spawn" /\ entry[cid[b]] # NoThread => Over(entry[cid[b]]))'
    BY DEF CallInv
  <2>1. CASE b = a
    BY <2>1 DEF TypeOK
  <2>2. CASE b # a
    <3>1. cpc'[b] = cpc[b] /\ cid'[b] = cid[b]
      BY <2>2 DEF TypeOK
    <3>2. CASE cpc[b] \in {"join", "spawn"}
      <4>1. cid[b] \in Ids /\ Table(cid[b]) # Table(cid[a]) /\ cid[b] # cid[a]
        BY <2>2, <3>2, Exclusive DEF CallInv
      <4>2. holder'[Table(cid[b])] = b /\ entry'[cid[b]] = entry[cid[b]]
        BY <1>1, <3>2, <4>1, TableType DEF TypeOK, CallInv
      <4>3. cpc[b] = "spawn" => entry[cid[b]] # t
        BY <3>2, <4>1, ActorsAssumption DEF CallInv, Over, Fresh
      <4> QED
        BY <3>1, <3>2, <4>1, <4>2, <4>3 DEF CallInv, TypeOK, Over, Dying
    <3> QED
      BY <3>1, <3>2 DEF CallInv
  <2> QED
    BY <2>1, <2>2
<1>7. CloseInv'
  <2>1. ~Dying(Table(cid[a]))
    OBVIOUS
  <2>2. closing \notin {"TaskManager", "done"}
    BY <2>1 DEF Dying
  <2>3. closeId # NoId => closeId # cid[a] /\ closing = "Worker"
    BY <2>1, <2>2 DEF CloseInv, Dying, Table
  <2>4. closeId # NoId => entry'[closeId] = entry[closeId]
    BY <1>1, <2>3 DEF TypeOK
  <2>5. closeId # NoId => closing = Table(closeId) /\ entry'[closeId] # NoThread
    BY <2>4 DEF CloseInv
  <2>6. \A b \in Callers : cpc'[b] # "idle" => ~Dying(Table(cid'[b]))
    BY DEF CloseInv, TypeOK, Actors
  <2> QED
    BY <2>2, <2>5, <2>6 DEF CloseInv, Dying
<1>8. NestInv'
  BY DEF NestInv, TypeOK, Runs, Actors, Fresh
<1> QED
  BY <1>2, <1>4, <1>5, <1>6, <1>7, <1>8

LEMMA SpawnFailsInv ==
  ASSUME TaskInv, NEW a \in Actors, NEW t \in Threads, SpawnFails(a, t)
  PROVE  TaskInv'
<1> USE DEF SpawnFails, At, Unlock, TaskInv, closeVars
<1>1. cid[a] \in Ids /\ Table(cid[a]) \in Tables
  BY TableType DEF CallInv
<1>2. TypeOK'
  BY <1>1 DEF TypeOK
<1>3. \A u \in Threads : Live(u) => of[u] # cid[a]
  BY <1>1, ActorsAssumption DEF CallInv, LiveTasksListed, Live, Over, TypeOK
<1>4. (\A u \in Threads : Live(u) => of[u] \in Ids)'
  BY DEF TypeOK, Live
<1>5. LiveTasksListed'
  BY <1>1, <1>3 DEF TypeOK, Live, LiveTasksListed
<1>6. CallInv'
  <2> SUFFICES ASSUME NEW b \in Actors
               PROVE  (/\ cpc[b] # "idle" => cid[b] \in Ids
                       /\ cpc[b] \in {"join", "spawn"} => holder[Table(cid[b])] = b
                       /\ cpc[b] = "join" /\ ~Dying(Table(cid[b])) => entry[cid[b]] # NoThread
                       /\ cpc[b] = "spawn" /\ entry[cid[b]] # NoThread => Over(entry[cid[b]]))'
    BY DEF CallInv
  <2>1. CASE b = a
    BY <2>1 DEF TypeOK
  <2>2. CASE b # a
    <3>1. cpc'[b] = cpc[b] /\ cid'[b] = cid[b]
      BY <2>2 DEF TypeOK
    <3>2. CASE cpc[b] \in {"join", "spawn"}
      <4>1. cid[b] \in Ids /\ Table(cid[b]) # Table(cid[a]) /\ cid[b] # cid[a]
        BY <2>2, <3>2, Exclusive DEF CallInv
      <4>2. holder'[Table(cid[b])] = b /\ entry'[cid[b]] = entry[cid[b]]
        BY <1>1, <3>2, <4>1, TableType DEF TypeOK, CallInv
      <4> QED
        BY <3>1, <3>2, <4>1, <4>2 DEF CallInv, TypeOK, Over, Dying
    <3> QED
      BY <3>1, <3>2 DEF CallInv
  <2> QED
    BY <2>1, <2>2
<1>7. CloseInv'
  <2>1. ~Dying(Table(cid[a]))
    OBVIOUS
  <2>2. closing \notin {"TaskManager", "done"}
    BY <2>1 DEF Dying
  <2>3. closeId # NoId => closeId # cid[a] /\ closing = "Worker"
    BY <2>1, <2>2 DEF CloseInv, Dying, Table
  <2>4. closeId # NoId => entry'[closeId] = entry[closeId]
    BY <1>1, <2>3 DEF TypeOK
  <2>5. closeId # NoId => closing = Table(closeId) /\ entry'[closeId] # NoThread
    BY <2>4 DEF CloseInv
  <2>6. \A b \in Callers : cpc'[b] # "idle" => ~Dying(Table(cid'[b]))
    BY DEF CloseInv, TypeOK, Actors
  <2> QED
    BY <2>2, <2>5, <2>6 DEF CloseInv, Dying
<1>8. NestInv'
  BY DEF NestInv, TypeOK, Runs, Actors, Fresh
<1> QED
  BY <1>2, <1>4, <1>5, <1>6, <1>7, <1>8

LEMMA TaskGoes ==
  ASSUME NEW t \in Threads, TaskStep(t)
  PROVE  \E from, to : /\ Goto(t, from, to)
                       /\ from \in {"check", "run", "sleep"}
                       /\ to \in {"check", "run", "sleep", "finished"}
                       /\ from = "run" => cpc[t] = "idle"
  BY DEF TaskStep, CheckStop, Return, Wake, WakeStopped

LEMMA TaskStepInv ==
  ASSUME TaskInv, NEW t \in Threads, TaskStep(t)
  PROVE  TaskInv'
<1>1. PICK from, to : /\ Goto(t, from, to)
                      /\ from \in {"check", "run", "sleep"}
                      /\ to \in {"check", "run", "sleep", "finished"}
                      /\ from = "run" => cpc[t] = "idle"
  BY TaskGoes
<1> USE <1>1 DEF Goto, TaskInv, callVars, closeVars
<1>2. TypeOK'
  BY DEF TypeOK
<1>3. (\A u \in Threads : Live(u) => of[u] \in Ids)' /\ LiveTasksListed'
  BY DEF TypeOK, Live, LiveTasksListed
<1>4. CallInv'
  BY DEF TypeOK, CallInv, Over, Dying
<1>5. CloseInv'
  BY DEF CloseInv, Dying
<1>6. NestInv'
  <2>1. cpc[t] # "idle" => from = "run"
    BY DEF NestInv
  <2>2. \A u \in Threads : cpc'[u] # "idle" => th'[u] = "run"
    BY <2>1 DEF NestInv, TypeOK
  <2> QED
    BY <2>2 DEF NestInv, Runs
<1> QED
  BY <1>2, <1>3, <1>4, <1>5, <1>6

LEMMA ClosingInv ==
  ASSUME TaskInv, CloseBegin \/ CloseStep
  PROVE  TaskInv'
<1> USE DEF TaskInv, callVars, threadVars
<1>1. CASE CloseBegin
  <2>1. TypeOK' /\ CloseInv'
    BY <1>1 DEF CloseBegin, TypeOK, CloseInv, NoCallerIn, Dying, Table
  <2> QED
    BY <1>1, <2>1 DEF CloseBegin, Live, LiveTasksListed, CallInv, NestInv, Over, Dying, Runs
<1>2. ASSUME NEW id \in Ids, CloseStop(id) PROVE TaskInv'
  <2>1. TypeOK' /\ CloseInv'
    BY <1>2 DEF CloseStop, TypeOK, CloseInv, Dying
  <2> QED
    BY <1>2, <2>1 DEF CloseStop, Live, LiveTasksListed, CallInv, NestInv, Over, Dying, Runs
<1>3. CASE CloseJoin
  <2>1. TypeOK'
    BY <1>3 DEF CloseJoin, TypeOK
  <2>2. closing = Table(closeId) /\ closeId \in Ids
    BY <1>3 DEF CloseJoin, CloseInv, TypeOK
  <2>3. Dying(Table(closeId))
    BY <2>2 DEF Dying, Table
  <2>4. CloseInv'
    BY <1>3, <2>2 DEF CloseJoin, CloseInv, Dying, TypeOK
  <2>5. CallInv'
    <3>1. \A a \in Actors : ~Dying(Table(cid[a])) => entry'[cid[a]] = entry[cid[a]]
      BY <1>3, <2>2, <2>3 DEF CloseJoin, TypeOK
    <3>2. \A a \in Actors : entry'[cid[a]] # NoThread => entry'[cid[a]] = entry[cid[a]]
      BY <1>3, <2>2 DEF CloseJoin, TypeOK
    <3> QED
      BY <1>3, <3>1, <3>2 DEF CloseJoin, CallInv, Over, Dying
  <2>6. LiveTasksListed' /\ (\A u \in Threads : Live(u) => of[u] \in Ids)'
    BY <1>3 DEF CloseJoin, TypeOK, Live, LiveTasksListed, Over
  <2>7. NestInv'
    BY <1>3 DEF CloseJoin, NestInv, Runs
  <2> QED
    BY <2>1, <2>4, <2>5, <2>6, <2>7
<1>4. CASE CloseManager
  <2>1. TypeOK' /\ CloseInv'
    BY <1>4 DEF CloseManager, TypeOK, CloseInv, NoCallerIn, Dying, Table
  <2> QED
    BY <1>4, <2>1 DEF CloseManager, Live, LiveTasksListed, CallInv, NestInv, Over, Dying, Runs
<1>5. CASE CloseDone
  <2>1. TypeOK' /\ CloseInv'
    BY <1>5 DEF CloseDone, TypeOK, CloseInv, Dying, Table
  <2> QED
    BY <1>5, <2>1 DEF CloseDone, Live, LiveTasksListed, CallInv, NestInv, Over, Dying, Runs
<1> QED
  BY <1>1, <1>2, <1>3, <1>4, <1>5 DEF CloseStep

LEMMA NextTaskInv == TaskInv /\ [Next]_vars => TaskInv'
<1> SUFFICES ASSUME TaskInv, [Next]_vars PROVE TaskInv'
  OBVIOUS
<1>1. CASE UNCHANGED vars
  BY <1>1 DEF vars, callVars, threadVars, closeVars, TaskInv, TypeOK, Live, LiveTasksListed,
              CallInv, CloseInv, NestInv, Over, Dying
<1>2. ASSUME NEW a \in Actors, CallStep(a) PROVE TaskInv'
  BY <1>2, LockInv, JoinInv, JoinSelfInv, RaceInv, SpawnInv, SpawnFailsInv DEF CallStep
<1>3. ASSUME NEW a \in Actors, NEW id \in Ids, Enter(a, id) PROVE TaskInv'
  BY <1>3, EnterInv
<1> QED
  BY <1>1, <1>2, <1>3, TaskStepInv, ClosingInv DEF Next

THEOREM TaskInvariant == Spec => []TaskInv
  BY InitTaskInv, NextTaskInv, PTL DEF Spec

(* However calls for an id overlap, and whoever makes them, no two tasks of an
   id run at once. *)
THEOREM NoTwoTasks == Spec => []OneTaskPerId
<1>1. TaskInv => OneTaskPerId
  BY DEF TaskInv, LiveTasksListed, OneTaskPerId
<1> QED
  BY <1>1, TaskInvariant, PTL

(* A running task can always be found in its table, so the next call for its
   id, or the destruction of the table, stops it. *)
THEOREM NoTaskLost == Spec => []LiveTasksListed
<1>1. TaskInv => LiveTasksListed
  BY DEF TaskInv
<1> QED
  BY <1>1, TaskInvariant, PTL

(* No task of a table runs once that table has been destroyed; and what is not
   known any more is not known because a task that still runs called into the
   table that is being destroyed, which no caller outside does. *)
THEOREM NoTaskOutlives == Spec => []NoTaskOutlivesTables
<1>1. ASSUME TaskInv, NEW t \in Threads, Live(t)
      PROVE  closing = "no" \/ closing = Table(of[t]) \/ (closing = "Worker" /\ of[t] \in Managed)
  <2>1. of[t] \in Ids /\ entry[of[t]] # NoThread
    BY <1>1, ActorsAssumption DEF TaskInv, LiveTasksListed
  <2> QED
    BY <1>1, <2>1 DEF TaskInv, CloseInv, TypeOK, Table
<1>2. ASSUME TaskInv, process = "undefined"
      PROVE  \E t \in Threads : Live(t) /\ cpc[t] # "idle" /\ Dying(Table(cid[t]))
  BY <1>2 DEF TaskInv, NestInv, Live
<1>3. TaskInv => NoTaskOutlivesTables
  BY <1>1, <1>2 DEF NoTaskOutlivesTables
<1> QED
  BY <1>3, TaskInvariant, PTL

(* The slots of the refinement: a live task is in the slot of its id ... *)
LEMMA SlotOfTask ==
  ASSUME TaskInv, NEW t \in Threads, Live(t)
  PROVE  of[t] \in Ids /\ TaskOf(of[t]) = t
<1>1. of[t] \in Ids /\ \A u \in Threads : Live(u) /\ of[u] = of[t] => u = t
  BY DEF TaskInv, LiveTasksListed
<1>2. (CHOOSE u \in Threads : Live(u) /\ of[u] = of[t]) = t
  BY <1>1
<1> QED
  BY <1>1, <1>2 DEF TaskOf

(* ... a slot without a live task is empty ... *)
LEMMA EmptySlot ==
  ASSUME NEW id, \A t \in Threads : ~(Live(t) /\ of[t] = id)
  PROVE  TaskOf(id) = NoThread
  BY DEF TaskOf

(* ... and a slot stays what it is while no thread of its id starts or ends. *)
LEMMA SlotStays ==
  ASSUME NEW id,
         \A t \in Threads : (Live(t)' /\ of'[t] = id) <=> (Live(t) /\ of[t] = id)
  PROVE  TaskOf(id)' = TaskOf(id)
<1>1. (CHOOSE t \in Threads : Live(t)' /\ of'[t] = id)
        = (CHOOSE t \in Threads : Live(t) /\ of[t] = id)
  OBVIOUS
<1> QED
  BY <1>1 DEF TaskOf

LEMMA ThreadsStay ==
  ASSUME UNCHANGED <<th, of>>
  PROVE  UNCHANGED <<Current, Ended>>
<1>1. \A id : TaskOf(id)' = TaskOf(id)
  BY SlotStays DEF Live
<1> QED
  BY <1>1 DEF Current, Ended

LEMMA SlotsStay ==
  ASSUME UNCHANGED <<th, of, closing, process>>
  PROVE  UNCHANGED Slots!vars
  BY ThreadsStay DEF Slots!vars, Open, Dying

LEMMA SpawnStarts ==
  ASSUME TaskInv, NEW a \in Actors, NEW t \in Threads, Spawn(a, t)
  PROVE  Slots!Next
<1> USE DEF Spawn, At, Unlock, closeVars
<1>1. PICK id \in Ids : id = cid[a]
  BY DEF TaskInv, CallInv
<1>2. id \in Open /\ Open' = Open /\ process = "runs" /\ process' = process /\ TypeOK
  BY <1>1 DEF TaskInv, Open, Runs, Dying
<1>3. \A u \in Threads : ~(Live(u) /\ of[u] = id)
  BY <1>1, <1>2, ActorsAssumption DEF TaskInv, CallInv, LiveTasksListed, Live, Over, TypeOK
<1>4. TaskOf(id) = NoThread
  BY <1>3, EmptySlot
<1>5. \A u \in Threads : (Live(u)' /\ of'[u] = id) <=> u = t
  BY <1>1, <1>2, <1>3 DEF Live, TypeOK
<1>6. TaskOf(id)' = t
  <2>1. (CHOOSE u \in Threads : Live(u)' /\ of'[u] = id) = t
    BY <1>5
  <2> QED
    BY <1>5, <2>1 DEF TaskOf
<1>7. \A other \in Ids \ {id} : TaskOf(other)' = TaskOf(other)
  <2> TAKE other \in Ids \ {id}
  <2>1. \A u \in Threads : (Live(u)' /\ of'[u] = other) <=> (Live(u) /\ of[u] = other)
    BY <1>1, <1>2 DEF TypeOK, Live, Fresh
  <2> QED
    BY <2>1, SlotStays
<1>8. Current' = [Current EXCEPT ![id] = t]
  BY <1>6, <1>7 DEF Current
<1>9. \A other \in Ids : Current[other] # t
  <2>1. \A other \in Ids : TaskOf(other) # t
    BY ActorsAssumption DEF TaskOf, Live, Fresh
  <2> QED
    BY <2>1 DEF Current
<1>10. t \notin Ended /\ Ended' = Ended
  BY <1>2 DEF TypeOK, Ended, Fresh
<1>11. Slots!Start(id, t)
  BY <1>2, <1>4, <1>8, <1>9, <1>10 DEF Slots!Start, Current
<1> QED
  BY <1>2, <1>11 DEF Slots!Next

LEMMA TaskStepEnds ==
  ASSUME TaskInv, NEW t \in Threads, TaskStep(t)
  PROVE  [Slots!Next]_(Slots!vars)
<1>1. PICK from, to : /\ Goto(t, from, to)
                      /\ from \in {"check", "run", "sleep"}
                      /\ to \in {"check", "run", "sleep", "finished"}
  BY TaskGoes
<1> USE <1>1 DEF Goto, callVars, closeVars
<1>2. /\ TypeOK /\ Live(t) /\ th' = [th EXCEPT ![t] = to] /\ of' = of
      /\ Open' = Open /\ process = "runs" /\ process' = process
  BY DEF TaskInv, Live, Open, Dying, Runs
<1>3. CASE to # "finished"
  <2>1. \A u \in Threads : Live(u)' <=> Live(u)
    BY <1>2, <1>3 DEF TypeOK, Live
  <2>2. \A id : TaskOf(id)' = TaskOf(id)
    BY <1>2, <2>1, SlotStays
  <2>3. Ended' = Ended
    BY <1>2, <1>3 DEF TypeOK, Ended, Live
  <2> QED
    BY <1>2, <2>2, <2>3 DEF Slots!vars, Current
<1>4. CASE to = "finished"
  <2>1. of[t] \in Ids /\ TaskOf(of[t]) = t
    BY <1>2, SlotOfTask
  <2>2. \A u \in Threads : Live(u) /\ of[u] = of[t] => u = t
    BY <1>2 DEF TaskInv, LiveTasksListed
  <2>3. TaskOf(of[t])' = NoThread
    BY <1>2, <1>4, <2>2 DEF TaskOf, Live, TypeOK
  <2>4. \A id \in Ids \ {of[t]} : TaskOf(id)' = TaskOf(id)
    <3> TAKE id \in Ids \ {of[t]}
    <3>1. \A u \in Threads : (Live(u)' /\ of'[u] = id) <=> (Live(u) /\ of[u] = id)
      BY <1>2 DEF TypeOK, Live
    <3> QED
      BY <3>1, SlotStays
  <2>5. Current' = [Current EXCEPT ![of[t]] = NoThread]
    BY <2>1, <2>3, <2>4 DEF Current
  <2>6. Ended' = Ended \cup {t}
    BY <1>2, <1>4 DEF TypeOK, Ended
  <2>7. Slots!End(of[t])
    BY <1>2, <2>1, <2>5, <2>6, ActorsAssumption DEF Slots!End, Current
  <2> QED
    BY <1>2, <2>1, <2>7 DEF Slots!Next
<1> QED
  BY <1>3, <1>4

LEMMA FailedSpawnStays ==
  ASSUME TaskInv, NEW a \in Actors, NEW t \in Threads, SpawnFails(a, t)
  PROVE  UNCHANGED Slots!vars
<1> USE DEF SpawnFails, closeVars
<1>4. Open' = Open /\ process' = process
  BY DEF Open, Dying
<1>1. TypeOK /\ \A u \in Threads : Live(u)' <=> Live(u)
  BY DEF TaskInv, TypeOK, Live, Fresh
<1>2. \A id : TaskOf(id)' = TaskOf(id)
  BY <1>1, SlotStays
<1>3. Ended' = Ended
  BY <1>1 DEF TypeOK, Ended, Fresh
<1> QED
  BY <1>2, <1>3, <1>4 DEF Slots!vars, Current

(* A table begins to be destroyed: the slots of its ids are closed. *)
LEMMA ClosingCloses ==
  ASSUME TaskInv, Runs, UNCHANGED <<th, of, process>>,
         closing' \in {"Worker", "TaskManager", "done"}, closing = "no" => closing' = "Worker",
         closing = "TaskManager" => closing' = "done", closing # "done"
  PROVE  [Slots!Next]_(Slots!vars)
<1>1. Open \ Open' \in SUBSET Open /\ Open' = Open \ (Open \ Open')
  BY DEF Open, Dying
<1>2. Slots!Close(Open \ Open')
  BY <1>1, ThreadsStay DEF Slots!Close
<1>3. process # "undefined"
  BY DEF Runs
<1> QED
  BY <1>1, <1>2, <1>3 DEF Slots!Next

(* A call that meets the destruction is a live task's: the promise is void. *)
LEMMA RaceForfeits ==
  ASSUME TaskInv, NEW a \in Actors, Race(a)
  PROVE  Slots!Next
<1> USE DEF Race, callVars, threadVars, closeVars
<1>1. a \in Threads /\ cid[a] \in Ids /\ Dying(Table(cid[a]))
  BY DEF TaskInv, CloseInv, CallInv, Actors
<1>2. Live(a)
  BY <1>1 DEF TaskInv, NestInv, Live
<1>3. of[a] \in Ids /\ Current[of[a]] # NoThread
  BY <1>1, <1>2, SlotOfTask, ActorsAssumption DEF Current
<1>4. Open # Ids /\ Open' = Open
  BY <1>1 DEF Open, Dying
<1>5. Slots!Forfeit
  BY <1>3, <1>4, ThreadsStay DEF Slots!Forfeit
<1> QED
  BY <1>5 DEF Slots!Next, Runs

LEMMA NextServesSlots == TaskInv /\ [Next]_vars => [Slots!Next]_(Slots!vars)
<1> SUFFICES ASSUME TaskInv, [Next]_vars PROVE [Slots!Next]_(Slots!vars)
  OBVIOUS
<1> USE DEF callVars, threadVars, closeVars
<1>1. CASE UNCHANGED vars
  BY <1>1, SlotsStay DEF vars
<1>2. ASSUME NEW a \in Actors, NEW id \in Ids, Enter(a, id) PROVE [Slots!Next]_(Slots!vars)
  BY <1>2, SlotsStay DEF Enter
<1>3. ASSUME NEW a \in Actors, CallStep(a) PROVE [Slots!Next]_(Slots!vars)
  <2>1. CASE Lock(a) \/ Join(a)
    BY <2>1, SlotsStay DEF Lock, LockFor, Join
  <2>2. CASE JoinSelf(a)
    <3>1. UNCHANGED <<Current, Ended>>
      BY <2>2, ThreadsStay DEF JoinSelf
    <3>2. Open' = Open /\ (process = "undefined")' = (process = "undefined")
      BY <2>2 DEF JoinSelf, At, Runs, Open, Dying
    <3> QED
      BY <3>1, <3>2 DEF Slots!vars
  <2> QED
    BY <1>3, <2>1, <2>2, SpawnStarts, FailedSpawnStays, RaceForfeits DEF CallStep
<1>4. CASE CloseBegin
  BY <1>4, ClosingCloses DEF CloseBegin
<1>5. CASE CloseStep
  <2>1. CASE CloseManager
    BY <2>1, ClosingCloses DEF CloseManager
  <2>2. CASE CloseDone
    BY <2>2, ClosingCloses DEF CloseDone
  <2>3. CASE CloseJoin \/ \E id \in Ids : CloseStop(id)
    BY <2>3, SlotsStay DEF CloseJoin, CloseStop
  <2> QED
    BY <1>5, <2>1, <2>2, <2>3 DEF CloseStep
<1> QED
  BY <1>1, <1>2, <1>3, <1>4, <1>5, TaskStepEnds DEF Next

(* The tables implement slots for at most one task each: a task starts only in
   a slot whose last task is over, what is over never runs again, and nothing
   starts in a table whose destruction has begun, until a task that still runs
   calls into such a table, after which nothing is promised. *)
THEOREM TablesImplementSlots == Spec => ImplementsSlots
<1>1. Init => Slots!Init
  <2>1. ASSUME Init PROVE \A id \in Ids : TaskOf(id) = NoThread
    BY <2>1, EmptySlot DEF Init, Live
  <2> QED
    BY <2>1 DEF Init, Slots!Init, Current, Ended, Open, Dying
<1>2. Spec => Slots!Spec
  BY <1>1, NextServesSlots, TaskInvariant, PTL DEF Spec, Slots!Spec
<1> QED
  BY <1>2 DEF ImplementsSlots

=============================================================================
