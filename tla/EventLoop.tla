------------------------------ MODULE EventLoop ------------------------------
(***************************************************************************)
(* The poll() event loop of http::Server (src/src/server.cc, server.h).    *)
(*                                                                         *)
(* Three kinds of actors share the state: the thread in Server::run(), the *)
(* caller of Server::stop() (another thread, or a signal handler on the    *)
(* loop's own thread), and the clients behind the kernel's sockets.        *)
(*                                                                         *)
(* A descriptor is a number that the kernel hands out again (the lowest    *)
(* free one) after close(); a connection is the thing behind it.  What a   *)
(* client sends is a sequence of requests, each the bytes that one recv()  *)
(* returns; what the server sends is a sequence of the indices of the      *)
(* requests the responses answer.                                          *)
(***************************************************************************)
EXTENDS Integers, Sequences, FiniteSets

CONSTANTS
  Conns,       \* the connections clients may open
  Fds,         \* the descriptor numbers accept() may return
  Paths,       \* the paths a client may ask to upgrade on
  WsPaths,     \* those with a WebSocket route (Server::setRoute with a WsHandler)
  Kinds,       \* the kinds of requests clients send
  WsOps,       \* what a WebSocket handler does with its WebSocket
  MaxSent,     \* bound: the requests each client sends
  MayStall,    \* the clients that may stop reading for a while (once each)
  MayStop,     \* is stop() ever called
  StopEarly,   \* may stop() be called before run() has set running_
  StopMode,    \* "thread": by another thread; "signal": by a handler on the loop's thread
  PollTimeout, \* is the environment variable POLL_TIMEOUT set to a finite time
  None         \* no connection

NoFd == -1     \* the code's sockfd = -1
NoPath == -1

ASSUME NoneAssumption  == None \notin Conns
ASSUME FdsAssumption   == Fds \subseteq Nat
ASSUME PathsAssumption == WsPaths \subseteq Paths /\ Paths \subseteq Nat
ASSUME KindsAssumption == Kinds \subseteq {"get", "quiet", "upgrade", "frame", "close"}
ASSUME OpsAssumption   == WsOps \subseteq {"ignore", "send", "close", "isOpen"}
ASSUME BoundAssumption == MaxSent \in [Conns -> Nat] /\ MayStall \subseteq Conns
ASSUME ModeAssumption  == /\ StopMode \in {"thread", "signal"}
                          /\ {MayStop, StopEarly, PollTimeout} \subseteq BOOLEAN

(* "get" is answered with a body; "quiet" is a request whose Response stays
   empty; "upgrade" is a GET with a valid WebSocket handshake; "frame" and
   "close" are WebSocket frames. *)
Requests == [kind : Kinds \ {"upgrade"}, path : {NoPath}]
            \cup [kind : Kinds \cap {"upgrade"}, path : Paths]

VARIABLES
  phase, peer, sent, stalled,                  \* the clients
  owner, lsn, backlog,                         \* the kernel's sockets
  pc, running, clientList, closedSockets,      \* the loop
  wsRoutes, lrev, revents, sd, rd,
  taken, out, upgraded, dispatched,            \* what has been exchanged
  stopPc, stopWs                               \* the call of stop()

clientVars   == <<peer, sent, stalled>>
sockVars     == <<phase, owner, lsn, backlog>>
exchangeVars == <<taken, out, upgraded, dispatched>>
stopVars     == <<stopPc, stopWs>>
vars == <<clientVars, sockVars, exchangeVars, stopVars, pc, running, clientList,
          closedSockets, wsRoutes, lrev, revents, sd, rd>>

Quiet == [fd \in Fds |-> "NONE"]

Init ==
  /\ phase = [c \in Conns |-> "new"]
  /\ peer = [c \in Conns |-> "open"]
  /\ sent = [c \in Conns |-> <<>>]
  /\ stalled = [c \in Conns |-> "no"]
  /\ owner = [fd \in Fds |-> None]
  /\ lsn = "unset"
  /\ backlog = <<>>
  /\ pc = "socket"
  /\ running = FALSE
  /\ clientList = {}
  /\ closedSockets = {}
  /\ wsRoutes = [p \in WsPaths |-> NoFd]
  /\ lrev = "NONE"
  /\ revents = Quiet
  /\ sd = NoFd
  /\ rd = None
  /\ taken = [c \in Conns |-> 0]
  /\ out = [c \in Conns |-> <<>>]
  /\ upgraded = [c \in Conns |-> NoPath]
  /\ dispatched = [c \in Conns |-> {}]
  /\ stopPc = "idle"
  /\ stopWs = {}

-----------------------------------------------------------------------------
(* The clients and the kernel's side of their connections. *)

serverVars == <<pc, running, clientList, closedSockets, wsRoutes, lrev, revents, sd, rd>>

Connected(c) == phase[c] \in {"queued", "accepted"}

Connect(c) ==
  /\ phase[c] = "new"
  /\ lsn = "open"
  /\ phase' = [phase EXCEPT ![c] = "queued"]
  /\ backlog' = Append(backlog, c)
  /\ UNCHANGED <<clientVars, owner, lsn, serverVars, exchangeVars, stopVars>>

(* A client waits for the 101 before it speaks the WebSocket protocol, and
   speaks nothing else after it. *)
InProtocol(c, r) ==
  IF upgraded[c] # NoPath
  THEN r.kind \in {"frame", "close"}
  ELSE /\ r.kind \in {"get", "quiet", "upgrade"}
       /\ \A i \in 1..Len(sent[c]) : sent[c][i].kind # "upgrade"

Send(c, r) ==
  /\ Connected(c)
  /\ peer[c] = "open"
  /\ Len(sent[c]) < MaxSent[c]
  /\ InProtocol(c, r)
  /\ sent' = [sent EXCEPT ![c] = Append(@, r)]
  /\ UNCHANGED <<peer, stalled, sockVars, serverVars, exchangeVars, stopVars>>

(* The client ends its side of the connection, or the connection is reset. *)
Finish(c) ==
  /\ Connected(c)
  /\ peer[c] = "open"
  /\ peer' = [peer EXCEPT ![c] = "fin"]
  /\ UNCHANGED <<sent, stalled, sockVars, serverVars, exchangeVars, stopVars>>

Reset(c) ==
  /\ Connected(c)
  /\ peer[c] # "rst"
  /\ peer' = [peer EXCEPT ![c] = "rst"]
  /\ UNCHANGED <<sent, stalled, sockVars, serverVars, exchangeVars, stopVars>>

(* The client does not read and the socket's send buffer is full: send()
   fails with EAGAIN until the client reads again. *)
Stall(c) ==
  /\ c \in MayStall
  /\ phase[c] = "accepted"
  /\ stalled[c] = "no"
  /\ stalled' = [stalled EXCEPT ![c] = "full"]
  /\ UNCHANGED <<peer, sent, sockVars, serverVars, exchangeVars, stopVars>>

Drain(c) ==
  /\ stalled[c] = "full"
  /\ stalled' = [stalled EXCEPT ![c] = "drained"]
  /\ UNCHANGED <<peer, sent, sockVars, serverVars, exchangeVars, stopVars>>

ClientNext ==
  \E c \in Conns :
    \/ Connect(c)
    \/ \E r \in Requests : Send(c, r)
    \/ Finish(c)
    \/ Reset(c)
    \/ Stall(c)
    \/ Drain(c)

-----------------------------------------------------------------------------
(* Server::run() up to handleRequests(). *)

(* A signal handler suspends the thread it runs on. *)
LoopRuns == StopMode = "signal" => stopPc \in {"idle", "done"}

Goto(from, to) == LoopRuns /\ pc = from /\ pc' = to

RunSocket ==
  /\ Goto("socket", "bind")
  /\ lsn' = "created"
  /\ UNCHANGED <<clientVars, phase, owner, backlog, exchangeVars, stopVars, running,
                 clientList, closedSockets, wsRoutes, lrev, revents, sd, rd>>

RunListen ==
  /\ Goto("bind", "start")
  /\ lsn = "created"
  /\ lsn' = "open"
  /\ UNCHANGED <<clientVars, phase, owner, backlog, exchangeVars, stopVars, running,
                 clientList, closedSockets, wsRoutes, lrev, revents, sd, rd>>

(* exit(1) .. exit(4) *)
RunFail ==
  /\ LoopRuns
  /\ pc \in {"socket", "bind"}
  /\ pc' = "dead"
  /\ lsn' = "closed"
  /\ UNCHANGED <<clientVars, phase, owner, backlog, exchangeVars, stopVars, running,
                 clientList, closedSockets, wsRoutes, lrev, revents, sd, rd>>

RunStart ==
  /\ Goto("start", "check")
  /\ running' = TRUE
  /\ UNCHANGED <<clientVars, sockVars, exchangeVars, stopVars,
                 clientList, closedSockets, wsRoutes, lrev, revents, sd, rd>>

-----------------------------------------------------------------------------
(* Server::handleRequests(): one turn of the loop is the test of running_,
   poll(), the listen socket, the clients in ascending order, and the removal
   of the closed descriptors. *)

(* Mutant: while (true) *)
CheckNothing ==
  /\ Goto("check", "poll")
  /\ UNCHANGED <<clientVars, sockVars, exchangeVars, stopVars, running,
                 clientList, closedSockets, wsRoutes, lrev, revents, sd, rd>>

CheckRunning ==
  /\ LoopRuns
  /\ pc = "check"
  /\ pc' = IF running THEN "poll" ELSE "exited"
  /\ UNCHANGED <<clientVars, sockVars, exchangeVars, stopVars, running,
                 clientList, closedSockets, wsRoutes, lrev, revents, sd, rd>>

Unread(c) == taken[c] < Len(sent[c])

(* What poll() reports of a descriptor, and of the listen socket. *)
Revents(fd) ==
  LET c == owner[fd] IN
  IF fd \notin clientList THEN "NONE"
  ELSE IF c = None THEN "NVAL"
  ELSE IF peer[c] = "rst" THEN "HUP"
  ELSE IF Unread(c) \/ peer[c] = "fin" THEN "IN" ELSE "NONE"

ListenRevents ==
  IF lsn # "open" THEN "NVAL" ELSE IF backlog # <<>> THEN "IN" ELSE "NONE"

PollReturns ==
  /\ pc' = "listen"
  /\ lrev' = ListenRevents
  /\ revents' = [fd \in Fds |-> Revents(fd)]
  /\ UNCHANGED <<clientVars, sockVars, exchangeVars, stopVars, running,
                 clientList, closedSockets, wsRoutes, sd, rd>>

Blocks ==
  /\ pc' = "blocked"
  /\ UNCHANGED <<clientVars, sockVars, exchangeVars, stopVars, running, clientList,
                 closedSockets, wsRoutes, lrev, revents, sd, rd>>

Poll ==
  /\ LoopRuns
  /\ pc = "poll"
  /\ IF ListenRevents # "NONE" \/ \E fd \in Fds : Revents(fd) # "NONE"
     THEN PollReturns
     ELSE Blocks

(* A close() by another thread does not wake a poll() that already sleeps:
   only events on sockets that are still open do. *)
Wakes ==
  \/ ListenRevents = "IN"
  \/ \E fd \in Fds : owner[fd] # None /\ Revents(fd) # "NONE"

PollWake == LoopRuns /\ pc = "blocked" /\ Wakes /\ PollReturns

PollExpire == LoopRuns /\ pc = "blocked" /\ PollTimeout /\ PollReturns

(* EINTR: continue *)
PollInterrupted ==
  /\ StopMode = "signal"
  /\ stopPc = "done"
  /\ Goto("blocked", "check")
  /\ UNCHANGED <<clientVars, sockVars, exchangeVars, stopVars, running,
                 clientList, closedSockets, wsRoutes, lrev, revents, sd, rd>>

-----------------------------------------------------------------------------
(* Server::handleListenSocket() *)

Free(fd) == owner[fd] = None
LowestFree(fd) == Free(fd) /\ \A g \in Fds : Free(g) => fd <= g

Acceptable == lrev = "IN" /\ lsn = "open" /\ backlog # <<>> /\ \E fd \in Fds : Free(fd)

(* Mutant: the accepted descriptor is not inserted into client_list_. *)
AcceptUnlisted(fd) ==
  /\ Goto("listen", "listen")
  /\ Acceptable
  /\ LowestFree(fd)
  /\ owner' = [owner EXCEPT ![fd] = Head(backlog)]
  /\ phase' = [phase EXCEPT ![Head(backlog)] = "accepted"]
  /\ backlog' = Tail(backlog)
  /\ UNCHANGED <<clientVars, lsn, exchangeVars, stopVars, running, clientList,
                 closedSockets, wsRoutes, lrev, revents, sd, rd>>

Accept(fd) ==
  /\ Goto("listen", "listen")
  /\ Acceptable
  /\ LowestFree(fd)
  /\ owner' = [owner EXCEPT ![fd] = Head(backlog)]
  /\ phase' = [phase EXCEPT ![Head(backlog)] = "accepted"]
  /\ backlog' = Tail(backlog)
  /\ clientList' = clientList \cup {fd}
  /\ UNCHANGED <<clientVars, lsn, exchangeVars, stopVars, running, closedSockets,
                 wsRoutes, lrev, revents, sd, rd>>

(* Mutant: the -1 of a failed accept() is inserted like a descriptor. *)
ListenDoneInserts ==
  /\ Goto("listen", "clients")
  /\ ~Acceptable
  /\ clientList' = clientList \cup {NoFd}
  /\ UNCHANGED <<clientVars, sockVars, exchangeVars, stopVars, running,
                 closedSockets, wsRoutes, lrev, revents, sd, rd>>

(* Nothing to accept, or accept() fails: EAGAIN, EMFILE, EBADF. *)
ListenDone ==
  /\ Goto("listen", "clients")
  /\ ~Acceptable
  /\ UNCHANGED <<clientVars, sockVars, exchangeVars, stopVars, running, clientList,
                 closedSockets, wsRoutes, lrev, revents, sd, rd>>

-----------------------------------------------------------------------------
(* Server::handleClientSocket() *)

Handling(fd) ==
  /\ LoopRuns
  /\ pc = "clients"
  /\ revents[fd] # "NONE"
  /\ \A g \in Fds : revents[g] # "NONE" => fd <= g

(* close(fd): the connection behind it, if there is one, ends. *)
Close(fd) ==
  /\ owner' = [owner EXCEPT ![fd] = None]
  /\ phase' = IF Free(fd) THEN phase ELSE [phase EXCEPT ![owner[fd]] = "closed"]

(* The descriptor is closed and is to leave client_list_. *)
Drop(fd) ==
  /\ Close(fd)
  /\ closedSockets' = closedSockets \cup {fd}
  /\ revents' = [revents EXCEPT ![fd] = "NONE"]
  /\ UNCHANGED <<clientVars, lsn, backlog, exchangeVars, stopVars, pc, running,
                 clientList, wsRoutes, lrev, sd, rd>>

Skip(fd) ==
  /\ revents' = [revents EXCEPT ![fd] = "NONE"]
  /\ UNCHANGED <<clientVars, sockVars, exchangeVars, stopVars, pc, running, clientList,
                 closedSockets, wsRoutes, lrev, sd, rd>>

(* Mutant: closed, but not pushed to closedSockets. *)
DropUnlisted(fd) ==
  /\ Close(fd)
  /\ revents' = [revents EXCEPT ![fd] = "NONE"]
  /\ UNCHANGED <<clientVars, lsn, backlog, exchangeVars, stopVars, pc, running,
                 clientList, closedSockets, wsRoutes, lrev, sd, rd>>

ClientFailedUnlisted(fd) ==
  Handling(fd) /\ revents[fd] \in {"HUP", "NVAL"} /\ DropUnlisted(fd)

(* Mutant: POLLNVAL is ignored. *)
ClientFailedHup(fd) ==
  \/ Handling(fd) /\ revents[fd] = "HUP" /\ Drop(fd)
  \/ Handling(fd) /\ revents[fd] = "NVAL" /\ Skip(fd)

ClientFailed(fd) == Handling(fd) /\ revents[fd] \in {"HUP", "NVAL"} /\ Drop(fd)

Readable(fd) == Handling(fd) /\ revents[fd] = "IN"

RecvFailed(fd) ==
  /\ Readable(fd)
  /\ ~Free(fd) => peer[owner[fd]] = "rst"
  /\ Drop(fd)

AtEof(fd) ==
  /\ Readable(fd)
  /\ ~Free(fd)
  /\ peer[owner[fd]] = "fin"
  /\ ~Unread(owner[fd])

(* Mutants: not pushed to closedSockets; pushed but not closed; closed with
   requests still unread. *)
RecvEofUnlisted(fd) == AtEof(fd) /\ DropUnlisted(fd)

RecvEofUnclosed(fd) ==
  /\ AtEof(fd)
  /\ closedSockets' = closedSockets \cup {fd}
  /\ revents' = [revents EXCEPT ![fd] = "NONE"]
  /\ UNCHANGED <<clientVars, sockVars, exchangeVars, stopVars, pc, running,
                 clientList, wsRoutes, lrev, sd, rd>>

RecvEofEarly(fd) ==
  Readable(fd) /\ ~Free(fd) /\ peer[owner[fd]] = "fin" /\ Drop(fd)

RecvEof(fd) == AtEof(fd) /\ Drop(fd)

(* EAGAIN: the descriptor is another connection's by now. *)
RecvAgain(fd) ==
  /\ Readable(fd)
  /\ ~Free(fd)
  /\ peer[owner[fd]] = "open"
  /\ ~Unread(owner[fd])
  /\ Skip(fd)

-----------------------------------------------------------------------------
(* Server::performRequest() *)

WebSockets == WsPaths # {}

Next1(c) == sent[c][taken[c] + 1]

(* recv() returns the next request of fd's connection. *)
Recv(fd) ==
  /\ Readable(fd)
  /\ ~Free(fd)
  /\ peer[owner[fd]] # "rst"
  /\ Unread(owner[fd])
  /\ taken' = [taken EXCEPT ![owner[fd]] = @ + 1]
  /\ revents' = [revents EXCEPT ![fd] = "NONE"]

(* A Close frame: closeSocket(sd) and return.  closedSockets is left alone. *)
PerformClose(fd) ==
  /\ Recv(fd)
  /\ WebSockets
  /\ Next1(owner[fd]).kind = "close"
  /\ Close(fd)
  /\ UNCHANGED <<clientVars, lsn, backlog, out, upgraded, dispatched, stopVars, pc,
                 running, clientList, closedSockets, wsRoutes, lrev, sd, rd>>

(* getWsRouteBySocketId(): the first route, in the order of the paths, with
   this descriptor. *)
RouteOf(fd, routes, p) ==
  /\ p \in WsPaths
  /\ routes[p] = fd
  /\ \A q \in WsPaths : routes[q] = fd => p <= q

Takes(c) == stalled[c] # "full" /\ peer[c] # "rst"

(* What the handler of route p does with WebSocket(fd), o being what has been
   sent so far: it sends (one attempt, EAGAIN loses the message), closes the
   socket, or asks isOpen(), which reads a byte and closes the socket unless
   there was nothing to read. *)
Handler(fd, o, op) ==
  LET c == owner[fd] IN
  \/ /\ op = "ignore"
     /\ out' = o
     /\ UNCHANGED <<owner, phase>>
  \/ /\ op = "send"
     /\ out' = IF Takes(c) THEN [o EXCEPT ![c] = Append(@, taken'[c])] ELSE o
     /\ UNCHANGED <<owner, phase>>
  \/ /\ op = "close" \/ (op = "isOpen" /\ (taken'[c] < Len(sent[c]) \/ peer[c] # "open"))
     /\ out' = o
     /\ Close(fd)
  \/ /\ op = "isOpen" /\ taken'[c] = Len(sent[c]) /\ peer[c] = "open"
     /\ out' = o
     /\ UNCHANGED <<owner, phase>>

(* The lambda dispatchWebSocket: without a route the bytes are dropped. *)
DispatchWebSocket(fd, routes, o) ==
  \/ \E p \in WsPaths, op \in WsOps :
       /\ RouteOf(fd, routes, p)
       /\ dispatched' = [dispatched EXCEPT ![owner[fd]] = @ \cup {p}]
       /\ Handler(fd, o, op)
  \/ /\ \A p \in WsPaths : routes[p] # fd
     /\ out' = o
     /\ UNCHANGED <<dispatched, owner, phase>>

PerformFrame(fd) ==
  /\ Recv(fd)
  /\ WebSockets
  /\ Next1(owner[fd]).kind = "frame"
  /\ DispatchWebSocket(fd, wsRoutes, out)
  /\ UNCHANGED <<clientVars, lsn, backlog, upgraded, stopVars, pc, running, clientList,
                 closedSockets, wsRoutes, lrev, sd, rd>>

(* WebSocket::send() lets the kernel raise SIGPIPE: a reset between recv() and
   the handler's send() may end the process. *)
KilledBySend(fd) ==
  /\ Recv(fd)
  /\ WebSockets
  /\ "send" \in WsOps
  /\ Next1(owner[fd]).kind = "frame"
  /\ \E p \in WsPaths : RouteOf(fd, wsRoutes, p)
  /\ peer' = [peer EXCEPT ![owner[fd]] = "rst"]
  /\ pc' = "dead"
  /\ UNCHANGED <<sent, stalled, sockVars, out, upgraded, dispatched, stopVars, running,
                 clientList, closedSockets, wsRoutes, lrev, sd, rd>>

(* processWebsocketHandshake() accepts the request: sendResponse(101) is next. *)
PerformUpgrade(fd) ==
  /\ Recv(fd)
  /\ WebSockets
  /\ Next1(owner[fd]).kind = "upgrade"
  /\ pc' = "handshake"
  /\ sd' = fd
  /\ rd' = owner[fd]
  /\ UNCHANGED <<clientVars, sockVars, out, upgraded, dispatched, stopVars, running,
                 clientList, closedSockets, wsRoutes, lrev>>

(* handleRoute() builds a response only if something was written to it. *)
HasBody(r) == r.kind \in {"get", "upgrade"}

PerformHttp(fd) ==
  LET r == Next1(owner[fd]) IN
  /\ Recv(fd)
  /\ r.kind \in {"get", "quiet"} \/ ~WebSockets
  /\ pc' = IF HasBody(r) THEN "respond" ELSE pc
  /\ sd' = IF HasBody(r) THEN fd ELSE sd
  /\ rd' = IF HasBody(r) THEN owner[fd] ELSE rd
  /\ UNCHANGED <<clientVars, sockVars, out, upgraded, dispatched, stopVars, running,
                 clientList, closedSockets, wsRoutes, lrev>>

-----------------------------------------------------------------------------
(* Server::sendResponse(): on EAGAIN it sleeps and tries again, so the loop
   stays here while the client does not read. *)

Delivered == owner[sd] = rd /\ Takes(rd)
SendFails == owner[sd] # rd \/ peer[rd] = "rst"

Idle == sd' = NoFd /\ rd' = None

(* Mutant: the route keeps the descriptor it was registered with. *)
KeepWsRoute(p, fd) == wsRoutes

(* Mutant: the first route is updated, whatever its path. *)
UpdateFirstWsRoute(p, fd) ==
  IF p \in WsPaths
  THEN [q \in WsPaths |-> IF \A r \in WsPaths : q <= r THEN fd ELSE wsRoutes[q]]
  ELSE wsRoutes

updateWsRoute(p, fd) == IF p \in WsPaths THEN [wsRoutes EXCEPT ![p] = fd] ELSE wsRoutes

(* The 101 is sent: the route of the path takes the descriptor, and the
   handler gets the bytes of the handshake. *)
HandshakeSent ==
  LET p == sent[rd][taken[rd]].path
      routes == updateWsRoute(p, sd)
  IN /\ Goto("handshake", "clients")
     /\ Delivered
     /\ upgraded' = [upgraded EXCEPT ![rd] = p]
     /\ wsRoutes' = routes
     /\ UNCHANGED taken
     /\ DispatchWebSocket(sd, routes, [out EXCEPT ![rd] = Append(@, taken[rd])])
     /\ Idle
     /\ UNCHANGED <<clientVars, lsn, backlog, stopVars, running, clientList,
                    closedSockets, lrev, revents>>

(* As KilledBySend(fd): the first dispatch comes with the handshake. *)
KilledBySend101 ==
  /\ Goto("handshake", "dead")
  /\ Delivered
  /\ "send" \in WsOps
  /\ sent[rd][taken[rd]].path \in WsPaths
  /\ peer' = [peer EXCEPT ![rd] = "rst"]
  /\ UNCHANGED <<sent, stalled, sockVars, exchangeVars, stopVars, running, clientList,
                 closedSockets, wsRoutes, lrev, revents, sd, rd>>

(* The handshake's sendResponse() failed: the request goes on to handleRoute(). *)
HandshakeFailed ==
  /\ Goto("handshake", "respond")
  /\ SendFails
  /\ UNCHANGED <<clientVars, sockVars, exchangeVars, stopVars, running, clientList,
                 closedSockets, wsRoutes, lrev, revents, sd, rd>>

(* Mutants: the rest of a partial write starts again from the beginning; the
   connection is closed after its response. *)
ResponseResent ==
  \/ /\ Goto("respond", "clients")
     /\ Delivered
     /\ out' = [out EXCEPT ![rd] = Append(@, taken[rd])]
     /\ Idle
     /\ UNCHANGED <<clientVars, sockVars, taken, upgraded, dispatched, stopVars, running,
                    clientList, closedSockets, wsRoutes, lrev, revents>>
  \/ /\ Goto("respond", "respond")
     /\ Delivered
     /\ Len(out[rd]) < MaxSent[rd]
     /\ out' = [out EXCEPT ![rd] = Append(@, taken[rd])]
     /\ UNCHANGED <<clientVars, sockVars, taken, upgraded, dispatched, stopVars, running,
                    clientList, closedSockets, wsRoutes, lrev, revents, sd, rd>>

ResponseSent ==
  /\ Goto("respond", "clients")
  /\ Delivered
  /\ out' = [out EXCEPT ![rd] = Append(@, taken[rd])]
  /\ Idle
  /\ UNCHANGED <<clientVars, sockVars, taken, upgraded, dispatched, stopVars, running,
                 clientList, closedSockets, wsRoutes, lrev, revents>>

ResponseFailed ==
  /\ Goto("respond", "clients")
  /\ SendFails
  /\ Idle
  /\ UNCHANGED <<clientVars, sockVars, exchangeVars, stopVars, running, clientList,
                 closedSockets, wsRoutes, lrev, revents>>

(* Mutant: closedSockets is kept from one turn to the next. *)
EraseKeeping ==
  /\ Goto("clients", "check")
  /\ revents = Quiet
  /\ clientList' = clientList \ closedSockets
  /\ lrev' = "NONE"
  /\ UNCHANGED <<clientVars, sockVars, exchangeVars, stopVars, running, closedSockets,
                 wsRoutes, revents, sd, rd>>

(* std::erase_if(client_list_, ...) *)
EraseClosed ==
  /\ Goto("clients", "check")
  /\ revents = Quiet
  /\ clientList' = clientList \ closedSockets
  /\ closedSockets' = {}
  /\ lrev' = "NONE"
  /\ UNCHANGED <<clientVars, sockVars, exchangeVars, stopVars, running, wsRoutes,
                 revents, sd, rd>>

HandleClient(fd) ==
  \/ ClientFailed(fd)
  \/ RecvFailed(fd)
  \/ RecvEof(fd)
  \/ RecvAgain(fd)
  \/ PerformClose(fd)
  \/ PerformFrame(fd)
  \/ KilledBySend(fd)
  \/ PerformUpgrade(fd)
  \/ PerformHttp(fd)

LoopNext ==
  \/ RunSocket \/ RunListen \/ RunFail \/ RunStart
  \/ CheckRunning
  \/ Poll \/ PollWake \/ PollExpire \/ PollInterrupted
  \/ \E fd \in Fds : Accept(fd)
  \/ ListenDone
  \/ \E fd \in Fds : HandleClient(fd)
  \/ HandshakeSent \/ HandshakeFailed \/ KilledBySend101
  \/ ResponseSent \/ ResponseFailed
  \/ EraseClosed

-----------------------------------------------------------------------------
(* Server::stop(): the sockets of the WebSocket routes, the listen socket,
   then the flag.  client_list_ is not looked at. *)

StopBegin ==
  /\ MayStop
  /\ running \/ StopEarly
  /\ pc # "dead"
  /\ stopPc = "idle"
  /\ stopPc' = "websockets"
  /\ stopWs' = WsPaths
  /\ UNCHANGED <<clientVars, sockVars, exchangeVars, serverVars>>

StopRoute(p) ==
  /\ stopPc = "websockets"
  /\ p \in stopWs
  /\ \A q \in stopWs : p <= q
  /\ IF wsRoutes[p] \in Fds THEN Close(wsRoutes[p]) ELSE UNCHANGED <<owner, phase>>
  /\ stopWs' = stopWs \ {p}
  /\ UNCHANGED <<clientVars, lsn, backlog, exchangeVars, serverVars, stopPc>>

(* The connections nobody accepted are reset with the listen socket. *)
StopListening ==
  /\ stopPc = "websockets"
  /\ stopWs = {}
  /\ stopPc' = "flag"
  /\ lsn' = IF lsn = "unset" THEN lsn ELSE "closed"
  /\ backlog' = <<>>
  /\ phase' = [c \in Conns |-> IF phase[c] = "queued" THEN "refused" ELSE phase[c]]
  /\ UNCHANGED <<clientVars, owner, exchangeVars, serverVars, stopWs>>

(* Mutant: running_ is left set. *)
StopFlagless ==
  /\ stopPc = "flag"
  /\ stopPc' = "done"
  /\ UNCHANGED <<clientVars, sockVars, exchangeVars, serverVars, stopWs>>

StopFlag ==
  /\ stopPc = "flag"
  /\ stopPc' = "done"
  /\ running' = FALSE
  /\ UNCHANGED <<clientVars, sockVars, exchangeVars, stopWs, pc, clientList,
                 closedSockets, wsRoutes, lrev, revents, sd, rd>>

StopSteps == (\E p \in WsPaths : StopRoute(p)) \/ StopListening \/ StopFlag

StopNext == StopBegin \/ StopSteps

-----------------------------------------------------------------------------
Next == ClientNext \/ LoopNext \/ StopNext

Spec == Init /\ [][Next]_vars

(* The loop's thread and the thread in stop() are scheduled. *)
LoopFairness == WF_vars(LoopNext) /\ WF_vars(StopSteps)
LoopSpec == Spec /\ LoopFairness

(* ... and no client stays away from its socket's buffer for ever. *)
FairSpec == LoopSpec /\ \A c \in Conns : WF_vars(Drain(c))

-----------------------------------------------------------------------------
(* Every variable stays in its range: the loop, the call of stop() and the
   clients only ever leave the states the code has names for. *)
TypeOK ==
  /\ phase \in [Conns -> {"new", "queued", "accepted", "closed", "refused"}]
  /\ peer \in [Conns -> {"open", "fin", "rst"}]
  /\ sent \in [Conns -> Seq(Requests)]
  /\ stalled \in [Conns -> {"no", "full", "drained"}]
  /\ owner \in [Fds -> Conns \cup {None}]
  /\ lsn \in {"unset", "created", "open", "closed"}
  /\ backlog \in Seq(Conns)
  /\ pc \in {"socket", "bind", "start", "check", "poll", "blocked", "listen", "clients",
            "handshake", "respond", "exited", "dead"}
  /\ running \in BOOLEAN
  /\ clientList \subseteq Fds
  /\ closedSockets \subseteq Fds
  /\ wsRoutes \in [WsPaths -> Fds \cup {NoFd}]
  /\ lrev \in {"NONE", "IN", "NVAL"}
  /\ revents \in [Fds -> {"NONE", "IN", "HUP", "NVAL"}]
  /\ sd \in Fds \cup {NoFd}
  /\ rd \in Conns \cup {None}
  /\ taken \in [Conns -> Nat]
  /\ out \in [Conns -> Seq(Nat)]
  /\ upgraded \in [Conns -> Paths \cup {NoPath}]
  /\ dispatched \in [Conns -> SUBSET WsPaths]
  /\ stopPc \in {"idle", "websockets", "flag", "done"}
  /\ stopWs \subseteq WsPaths

(* The loop polls every connection it has accepted and not closed: an open
   socket missing from client_list_ would never be read or closed again. *)
OpenSocketsListed == \A fd \in Fds : owner[fd] # None => fd \in clientList

(* "Remove closed sockets from client_list_" (server.cc:143): between two
   turns, what the loop is about to poll are exactly the open sockets. *)
ListMatchesSockets ==
  pc \in {"check", "poll", "blocked", "exited"}
    => clientList = {fd \in Fds : owner[fd] # None}

(* An event that poll() reported and the loop has not come to yet is still
   about the connection it was reported for: accepting, and serving the
   descriptors before it, does not make it stale. *)
EventsFresh ==
  \A fd \in Fds : revents[fd] # "NONE" =>
    /\ owner[fd] # None
    /\ revents[fd] = "HUP" => peer[owner[fd]] = "rst"
    /\ revents[fd] = "IN" => Unread(owner[fd]) \/ peer[owner[fd]] # "open"

(* The server never ends a connection whose client has not ended it first. *)
OnlyEndedClosed ==
  [][\A c \in Conns : phase[c] = "accepted" /\ phase'[c] = "closed" => peer[c] # "open"]_vars

(* A WebSocket handler may answer the handshake as well, after the 101. *)
Greeted(c, k) == upgraded[c] # NoPath /\ sent[c][k].kind = "upgrade"

(* stop() closes the descriptors of the WebSocket routes, whoever has them. *)
CutByStop(c) == WebSockets /\ stopPc # "idle" /\ phase[c] = "closed"

(* Every request that has a response is answered once, in order, and to the
   connection it came from, a frame by what its handler sends and a handshake
   by the 101 and then what the handler sends; only the one being answered, or
   a connection that the client has reset or stop() has closed, may still lack
   answers (Server::sendResponse, Server::performRequest). *)
AnsweredOnceInOrder ==
  \A c \in Conns :
    /\ \A i, j \in 1..Len(out[c]) : i < j =>
         \/ out[c][i] < out[c][j]
         \/ j = i + 1 /\ out[c][i] = out[c][j] /\ Greeted(c, out[c][i])
    /\ \A i \in 1..Len(out[c]) :
         /\ out[c][i] \in 1..taken[c]
         /\ LET r == sent[c][out[c][i]] IN HasBody(r) \/ r.kind = "frame"
    /\ \A k \in 1..taken[c] :
         /\ HasBody(sent[c][k])
         /\ ~(rd = c /\ k = taken[c])
         /\ peer[c] # "rst" /\ ~CutByStop(c)
         => \E i \in 1..Len(out[c]) : out[c][i] = k

Over == pc \in {"exited", "dead"}
Stopping == stopPc # "idle"

(* Whatever a connected client has sent is read, unless it resets the
   connection or the server is stopped: it does not wait for ever. *)
EveryRequestRead ==
  \A c \in Conns :
    []<>~(Connected(c) /\ Unread(c) /\ peer[c] # "rst" /\ ~Stopping /\ ~Over)

(* A connection the client has ended gives its descriptor back. *)
EndedConnectionsClosed ==
  \A c \in Conns :
    []<>~(phase[c] = "accepted" /\ peer[c] # "open" /\ ~Stopping /\ ~Over)

(* A descriptor that was closed outside handleClientSocket() does not stay in
   client_list_ for ever. *)
ClosedSocketsDelisted ==
  \A fd \in Fds : []<>~(fd \in clientList /\ owner[fd] = None /\ ~Over)

(* "Signals the server to shut down, stops the polling loop" (server.h:121). *)
StopEndsLoop == (stopPc = "done") ~> Over

(* The route of q keeps the descriptor of a subscriber that is gone. *)
LeftBehind(q) == \E d \in Conns : upgraded[d] = q /\ phase[d] = "closed"

(* As long as only one connection has ever upgraded on a path, the path's route
   holds that connection's descriptor, and it is the route that is found for
   the connection's frames; unless the route of a lower path still holds the
   same number, which a subscriber of that path has left behind: a connection
   that is still there takes no frames from another one.
   (getWsRouteBySocketId returns the first route with the number, and nothing
   resets the number of a route, server.h:197-217.) *)
SoleSubscriberRouted ==
  \A c \in Conns, p \in WsPaths :
    /\ phase[c] = "accepted"
    /\ upgraded[c] = p
    /\ \A d \in Conns \ {c} : upgraded[d] # p
    => /\ wsRoutes[p] \in Fds /\ owner[wsRoutes[p]] = c
       /\ \/ RouteOf(wsRoutes[p], wsRoutes, p)
          \/ \E q \in WsPaths : q < p /\ wsRoutes[q] = wsRoutes[p] /\ LeftBehind(q)

(* What a connection sends after its upgrade is given to the handler of its own
   path; to that of another path only after a subscriber of it has gone without
   its number being taken from the route. *)
DispatchedToOwnRoute ==
  \A c \in Conns : \A p \in dispatched[c] : upgraded[c] = p \/ LeftBehind(p)

-----------------------------------------------------------------------------
(* A server without WebSocket routes implements the service of each connection. *)
Service ==
  INSTANCE ConnService WITH owed <- [c \in Conns |-> rd = c]

ImplementsService == Service!Spec

=============================================================================
