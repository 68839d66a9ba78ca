-------------------------------- MODULE Feeds --------------------------------
(***************************************************************************)
(* Repeated tasks that write to clients: the handler of an event stream    *)
(* gives repeatEvery() a copy of its Response (examples/server, "/stream"),*)
(* and the task goes on writing to the descriptor number of that copy,     *)
(* beside the event loop and after it has closed the connection.           *)
(*                                                                         *)
(* The tables of tasks are taken for what module TaskSlots promises of     *)
(* them: a call replaces the task of its identifier.                       *)
(***************************************************************************)
EXTENDS EventLoop

CONSTANTS
  Tables  \* the tables handlers use: "manager", TaskManager::repeatEvery() with one
          \* identifier for the route, or "worker", Server::repeatEvery() with the
          \* descriptor for identifier

ASSUME TablesAssumption == Tables \subseteq {"manager", "worker"}

VARIABLES
  table,   \* the table in use
  feeds,   \* the tasks: identifier, descriptor, and the connection it was of
  asked,   \* the connections whose request has started a task, the last one first
  events   \* of each connection, those whose events it has received

feedVars == <<feeds, asked, events>>
allVars == <<vars, table, feedVars>>

FeedsInit ==
  /\ Init
  /\ table \in Tables
  /\ feeds = {}
  /\ asked = <<>>
  /\ events = [c \in Conns |-> {}]

Id(fd) == IF table = "manager" THEN 0 ELSE fd

(* Mutants: the new task runs beside the old one; the old one is kept. *)
ReplacedBeside(f) == feeds \cup {f}
ReplacedNot(f) == IF \E g \in feeds : g.id = f.id THEN feeds ELSE feeds \cup {f}

Replaced(f) == {g \in feeds : g.id # f.id} \cup {f}

(* A request that the handler answers with a stream: its Response stays empty. *)
Subscribe(fd) ==
  LET c == owner[fd] IN
  /\ PerformHttp(fd)
  /\ Next1(c).kind = "quiet"
  /\ feeds' = Replaced([id |-> Id(fd), fd |-> fd, for |-> c])
  /\ asked' = <<c>> \o asked
  /\ UNCHANGED <<table, events>>

(* Every other step, A, of the server, its callers and its clients. *)
Beside(A) ==
  /\ A
  /\ \A c \in Conns : taken'[c] > taken[c] => sent[c][taken'[c]].kind # "quiet"
  /\ UNCHANGED <<table, feedVars>>

(* What stream() gets of send(): all, a part, or nothing. *)
Wrote(f) ==
  /\ owner[f.fd] # None
  /\ Takes(owner[f.fd])
  /\ events' = [events EXCEPT ![owner[f.fd]] = @ \cup {f.for}]
  /\ UNCHANGED <<vars, table, feeds, asked>>

(* Mutant: the result of stream() is not looked at. *)
EndsNever(f) == feeds

(* Server::repeatEvery() ends the task when stream() fails; TaskManager's goes on. *)
Ends(f) == IF table = "worker" THEN feeds \ {f} ELSE feeds

WroteSome(f) ==
  LET c == owner[f.fd] IN
  /\ c \in MayStall
  /\ stalled[c] = "no"
  /\ Takes(c)
  /\ stalled' = [stalled EXCEPT ![c] = "full"]
  /\ events' = [events EXCEPT ![c] = @ \cup {f.for}]
  /\ feeds' = Ends(f)
  /\ UNCHANGED <<peer, sent, sockVars, serverVars, exchangeVars, stopVars, table, asked>>

WroteNothing(f) ==
  /\ owner[f.fd] # None => ~Takes(owner[f.fd])
  /\ feeds' = Ends(f)
  /\ UNCHANGED <<vars, table, asked, events>>

Write(f) == pc # "dead" /\ (Wrote(f) \/ WroteSome(f) \/ WroteNothing(f))

FeedsNext ==
  \/ Beside(Next)
  \/ \E fd \in Fds : Subscribe(fd)
  \/ \E f \in feeds : Write(f)

(* The threads are scheduled: the loop's, the caller of stop() and the tasks;
   and no client stays away from its socket's buffer for ever. *)
FeedsSpec ==
  /\ FeedsInit /\ [][FeedsNext]_allVars
  /\ WF_allVars(Beside(LoopNext) \/ \E fd \in Fds : Subscribe(fd))
  /\ WF_allVars(Beside(StopSteps))
  /\ \A c \in Conns : WF_allVars(Beside(Drain(c)))
  /\ \A fd \in Fds : WF_allVars(\E f \in feeds : f.fd = fd /\ Write(f))

-----------------------------------------------------------------------------
(* The stream of a connection that is gone ends, unless its descriptor number
   is another connection's by now (Server::repeatEvery(), server.h:159). *)
StreamsEnd ==
  table = "worker" =>
    \A c \in Conns :
      (phase[c] = "closed" /\ \E f \in feeds : f.for = c)
        ~> (pc = "dead" \/ \A f \in feeds : f.for = c => owner[f.fd] # None)

LastAsked(c) == asked # <<>> /\ Head(asked) = c

(* Whoever asked for a stream last gets events, unless it does not read or
   goes away. *)
LastSubscriberFed ==
  \A c \in Conns :
    LastAsked(c)
      ~> \/ c \in events[c] \/ ~LastAsked(c)
         \/ peer[c] # "open" \/ phase[c] # "accepted" \/ stalled[c] # "no" \/ pc = "dead"

(* Nobody gets events of another's stream but who has inherited the
   descriptor number of a connection that is gone, and has not asked for a
   stream of its own. *)
EventsOfOwnStream ==
  [][\A c \in Conns : \A d \in Conns \ {c} :
       d \in events'[c] \ events[c]
         => phase[d] = "closed" /\ \A i \in 1..Len(asked) : asked[i] # c]_allVars

=============================================================================
