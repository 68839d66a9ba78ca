------------------------------- MODULE SslLoop -------------------------------
(***************************************************************************)
(* The event loop of http::SSLServer (src/src/sslserver.h): poll() over    *)
(* the listen socket and the keys of ssl_clients_, a table from descriptors*)
(* to TLS sessions, with stop() called by a signal handler on the loop's   *)
(* own thread.                                                             *)
(*                                                                         *)
(* A session is the SSL object of one connection: accept creates it,       *)
(* closeClient() or a WebSocket handler frees it.  What a client sends     *)
(* after its handshake is a sequence of TLS records.  A record longer than *)
(* the read buffer takes two SSL_read() calls; what the first leaves       *)
(* behind is in the session, where poll() does not see it.  A write is     *)
(* repeated (EAGAIN, sleep, again) while the client does not read, as in   *)
(* EventLoop: the loop stays at "handshake" or "respond".                  *)
(***************************************************************************)
EXTENDS Naturals, Sequences

CONSTANTS
  Conns,       \* the connections clients may open
  Fds,         \* the descriptor numbers accept() may return
  Kinds,       \* the kinds of requests clients send
  Records,     \* the records they send: a kind, and the SSL_read() calls it takes
  WebSockets,  \* does the server have a WebSocket route
  MaxSent,     \* bound: the records each client sends
  MayStall,    \* the clients that may stop reading for a while (once each)
  MayStop,     \* is stop() ever called
  None

ASSUME SslAssumption ==
  /\ None \notin Conns
  /\ Fds \subseteq Nat
  /\ Kinds \subseteq {"get", "quiet", "upgrade", "frame", "close"}
  /\ Records \subseteq [kind : Kinds, parts : {1, 2}]
  /\ MaxSent \in [Conns -> Nat]
  /\ MayStall \subseteq Conns
  /\ {WebSockets, MayStop} \subseteq BOOLEAN

Flights == 2  \* of a client in a TLS handshake

VARIABLES
  peer, hello, sent, stalled,   \* the clients: their side, handshake, records; do they read
  phase, owner, lsn, backlog,   \* the kernel's sockets
  session, seen, taken, rest,   \* the sessions: state, handshake and records read, a rest
  table,                        \* ssl_clients_
  pc, running, ready, dead, cur,
  stopped

clientVars  == <<peer, hello, sent, stalled>>
streamVars  == <<seen, taken, rest>>
socketVars  == <<phase, owner, session, table>>
queueVars   == <<lsn, backlog>>
loopVars    == <<pc, ready, dead, cur>>
vars == <<clientVars, streamVars, socketVars, queueVars, loopVars, running, stopped>>

NoOne == [fd |-> None, ssl |-> None]
NoEntry == [ssl |-> None, done |-> FALSE]
Keys == {fd \in Fds : table[fd] # NoEntry}
Ssl(fd) == table[fd].ssl

Init ==
  /\ peer = [c \in Conns |-> "open"]
  /\ hello = [c \in Conns |-> 0]
  /\ sent = [c \in Conns |-> <<>>]
  /\ stalled = [c \in Conns |-> "no"]
  /\ phase = [c \in Conns |-> "new"]
  /\ owner = [fd \in Fds |-> None]
  /\ lsn = "unset"
  /\ backlog = <<>>
  /\ session = [c \in Conns |-> "none"]
  /\ seen = [c \in Conns |-> 0]
  /\ taken = [c \in Conns |-> 0]
  /\ rest = [c \in Conns |-> FALSE]
  /\ table = [fd \in Fds |-> NoEntry]
  /\ pc = "run"
  /\ running = FALSE
  /\ ready = {}
  /\ dead = {}
  /\ cur = NoOne
  /\ stopped = FALSE

-----------------------------------------------------------------------------
(* The clients. *)

Connected(c) == phase[c] \in {"queued", "accepted"} /\ peer[c] = "open"

Connect(c) ==
  /\ phase[c] = "new"
  /\ lsn = "open"
  /\ phase' = [phase EXCEPT ![c] = "queued"]
  /\ backlog' = Append(backlog, c)
  /\ UNCHANGED <<clientVars, streamVars, owner, session, table, lsn, loopVars, running, stopped>>

Client(c) ==
  /\ Connected(c)
  /\ UNCHANGED <<streamVars, socketVars, queueVars, loopVars, running, stopped>>

Hello(c) ==
  /\ Client(c)
  /\ hello[c] < Flights
  /\ hello' = [hello EXCEPT ![c] = @ + 1]
  /\ UNCHANGED <<peer, sent, stalled>>

(* A client speaks the WebSocket protocol once it has asked for it. *)
InProtocol(c, kind) == kind = "frame" => sent[c] # <<>> /\ sent[c][1].kind = "upgrade"

Send(c, r) ==
  /\ Client(c)
  /\ InProtocol(c, r.kind)
  /\ hello[c] = Flights
  /\ Len(sent[c]) < MaxSent[c]
  /\ sent' = [sent EXCEPT ![c] = Append(@, r)]
  /\ UNCHANGED <<peer, hello, stalled>>

(* The client ends its side, or the connection breaks: a reset, or bytes that
   are no TLS. *)
Leave(c, how) ==
  /\ Client(c)
  /\ peer' = [peer EXCEPT ![c] = how]
  /\ UNCHANGED <<hello, sent, stalled>>

(* The client does not read and the send buffer is full: SSL_write() returns
   -1 with EAGAIN until it reads again. *)
Stall(c) ==
  /\ Client(c)
  /\ c \in MayStall
  /\ phase[c] = "accepted"
  /\ stalled[c] = "no"
  /\ stalled' = [stalled EXCEPT ![c] = "full"]
  /\ UNCHANGED <<peer, hello, sent>>

Drain(c) ==
  /\ stalled[c] = "full"
  /\ stalled' = [stalled EXCEPT ![c] = "drained"]
  /\ UNCHANGED <<peer, hello, sent, streamVars, socketVars, queueVars, loopVars, running, stopped>>

-----------------------------------------------------------------------------
(* SSLServer::run() and the turns of handleRequests(). *)

Goto(from, to) == pc = from /\ pc' = to

Run ==
  /\ Goto("run", "check")
  /\ lsn' = "open"
  /\ running' = TRUE
  /\ UNCHANGED <<clientVars, streamVars, socketVars, backlog, ready, dead, cur, stopped>>

Turn == UNCHANGED <<clientVars, streamVars, socketVars, queueVars, dead, cur, running, stopped>>

(* return 1 .. 5 *)
RunFails == Goto("run", "exited") /\ Turn /\ UNCHANGED ready

CheckRunning == Goto("check", IF running THEN "fds" ELSE "exited") /\ Turn /\ UNCHANGED ready

(* The list for poll(): the listen socket and the keys of the table.  After
   stop() that is the number -1 alone, which never has an event: without a
   timeout poll() sleeps until some other signal comes. *)
BuildPollfds == Goto("fds", IF stopped THEN "asleep" ELSE "poll") /\ Turn /\ UNCHANGED ready

(* What is in the kernel's buffer for a session: handshake flights or records.
   The rest of a record is not: it is in the session. *)
Unread(c) == taken[c] < Len(sent[c])
Arrived(c) == seen[c] < hello[c] \/ Unread(c) \/ peer[c] # "open"

PollIn == {fd \in Keys : owner[fd] # None /\ Arrived(owner[fd])}
ListenIn == lsn = "open" /\ backlog # <<>>

(* A descriptor that was closed is POLLNVAL: poll() returns, and the loop,
   which looks for POLLIN, does nothing about it. *)
Poll ==
  /\ Goto("poll", IF ListenIn THEN "listen" ELSE "clients")
  /\ ListenIn \/ PollIn # {} \/ \E fd \in Keys : owner[fd] = None
  /\ ready' = PollIn
  /\ Turn

(* stop() has come while poll() slept (EINTR: continue), or has closed what it
   was about to poll (POLLNVAL: nothing is ready). *)
PollInterrupted == stopped /\ Goto("poll", "check") /\ Turn /\ UNCHANGED ready

(* accept() succeeds, once a turn. *)
Accepts(fd) ==
  /\ Goto("listen", "clients")
  /\ ListenIn
  /\ owner[fd] = None /\ \A g \in Fds : owner[g] = None => fd <= g
  /\ backlog' = Tail(backlog)
  /\ UNCHANGED <<clientVars, streamVars, lsn, ready, dead, cur, running, stopped>>

(* SSL_new() and its entry; a session the entry held before is lost. *)
Enters(fd, entry) ==
  LET c == Head(backlog) IN
  /\ owner' = [owner EXCEPT ![fd] = c]
  /\ phase' = [phase EXCEPT ![c] = "accepted"]
  /\ session' = [session EXCEPT ![c] = "live"]
  /\ table' = [table EXCEPT ![fd] = entry]

NewEntry == [ssl |-> Head(backlog), done |-> FALSE]

(* Mutants: an entry that exists stays (emplace()); its flag stays. *)
AcceptEmplace(fd) == Accepts(fd) /\ Enters(fd, IF fd \in Keys THEN table[fd] ELSE NewEntry)
AcceptKeepsFlag(fd) == Accepts(fd) /\ Enters(fd, [NewEntry EXCEPT !.done = table[fd].done])

Accept(fd) == Accepts(fd) /\ Enters(fd, NewEntry)

(* SSL_new() fails. *)
AcceptFails(fd) ==
  /\ Accepts(fd)
  /\ phase' = [phase EXCEPT ![Head(backlog)] = "closed"]
  /\ UNCHANGED <<owner, session, table>>

ListenDone ==
  /\ Goto("listen", "clients")
  /\ ~ListenIn \/ \A fd \in Fds : owner[fd] # None
  /\ Turn
  /\ UNCHANGED ready

-----------------------------------------------------------------------------
(* SSLServer::handleClientSocket() *)

Handling(fd) ==
  /\ pc = "clients"
  /\ fd \in ready
  /\ ready' = ready \ {fd}
  /\ UNCHANGED <<clientVars, taken, rest, phase, owner, session, queueVars, running, stopped>>

Gone(fd) == Handling(fd) /\ fd \notin Keys /\ UNCHANGED <<seen, table, pc, dead, cur>>

ToRead(fd) == pc' = "read" /\ cur' = [fd |-> fd, ssl |-> Ssl(fd)] /\ UNCHANGED dead

Established(fd) ==
  /\ Handling(fd)
  /\ table[fd].done
  /\ ToRead(fd)
  /\ UNCHANGED <<seen, table>>

(* SSL_accept() takes what has arrived of the handshake ... *)
Shake(fd) ==
  /\ Handling(fd)
  /\ fd \in Keys
  /\ ~table[fd].done
  /\ seen' = [seen EXCEPT ![Ssl(fd)] = hello[Ssl(fd)]]

(* ... and completes it, ... *)
ShakeDone(fd) ==
  /\ Shake(fd)
  /\ hello[Ssl(fd)] = Flights
  /\ peer[Ssl(fd)] # "rst"
  /\ table' = [table EXCEPT ![fd].done = TRUE]
  /\ ToRead(fd)

(* Mutant: WANT_READ is an error. *)
ShakeOrDie(fd) ==
  /\ Shake(fd)
  /\ hello[Ssl(fd)] < Flights
  /\ dead' = dead \cup {fd}
  /\ UNCHANGED <<table, pc, cur>>

(* ... wants more (WANT_READ), ... *)
ShakeMore(fd) ==
  /\ Shake(fd)
  /\ hello[Ssl(fd)] < Flights
  /\ peer[Ssl(fd)] = "open"
  /\ UNCHANGED <<table, pc, dead, cur>>

(* ... or fails. *)
ShakeFails(fd) ==
  /\ Shake(fd)
  /\ peer[Ssl(fd)] = "rst" \/ (peer[Ssl(fd)] = "fin" /\ hello[Ssl(fd)] < Flights)
  /\ dead' = dead \cup {fd}
  /\ UNCHANGED <<table, pc, cur>>

(* The rest of the handler works on the descriptor and the session c that it
   has found in the table. *)
c == cur.ssl

(* At these the handler has a descriptor and its session in hand. *)
Busy == {"read", "handshake", "respond"}

Serve(from, to) ==
  /\ Goto(from, to)
  /\ cur' = IF to \in {"handshake", "respond", "undefined"} THEN cur ELSE NoOne
  /\ UNCHANGED <<clientVars, seen, table, queueVars, ready, running, stopped>>

KeepSocket == UNCHANGED <<phase, owner, session>>

(* stop() has freed the session meanwhile. *)
UseAfterFree ==
  /\ pc \in Busy
  /\ session[c] # "live"
  /\ Serve(pc, "undefined")
  /\ KeepSocket
  /\ UNCHANGED <<taken, rest, dead>>

Reading(to) == Serve("read", to) /\ session[c] = "live"

ReadNothing ==
  /\ Reading("clients")
  /\ ~rest[c] /\ ~Unread(c) /\ peer[c] = "open"
  /\ KeepSocket
  /\ UNCHANGED <<taken, rest, dead>>

Broken == peer[c] = "rst" \/ (peer[c] = "fin" /\ ~rest[c] /\ ~Unread(c))

(* Mutants: the client is not marked dead; its session is freed at once. *)
ReadFailsUnmarked == Reading("clients") /\ Broken /\ KeepSocket /\ UNCHANGED <<taken, rest, dead>>

ReadFailsFreeing ==
  /\ Reading("clients")
  /\ Broken
  /\ session' = [session EXCEPT ![c] = "freed"]
  /\ dead' = dead \cup {cur.fd}
  /\ UNCHANGED <<phase, owner, taken, rest>>

ReadFails ==
  /\ Reading("clients")
  /\ Broken
  /\ dead' = dead \cup {cur.fd}
  /\ KeepSocket
  /\ UNCHANGED <<taken, rest>>

(* Mutant: a record that has arrived is not read. *)
ReadNone(kind, to) ==
  Reading(to) /\ peer[c] # "rst" /\ Unread(c) /\ kind = "quiet" /\ UNCHANGED <<taken, rest, dead>>

(* SSL_read() returns the rest of a record, or (the first part of) the next.
   performRequest() takes what it is given for a request of its own, also the
   rest of a record, which may look like any. *)
Read(kind, to) ==
  /\ Reading(to)
  /\ peer[c] # "rst"
  /\ \/ /\ rest[c]
        /\ kind \in Kinds \cup {"quiet"}
        /\ rest' = [rest EXCEPT ![c] = FALSE]
        /\ UNCHANGED taken
     \/ /\ ~rest[c] /\ Unread(c)
        /\ taken' = [taken EXCEPT ![c] = @ + 1]
        /\ kind = sent[c][taken'[c]].kind
        /\ rest' = [rest EXCEPT ![c] = sent[c][taken'[c]].parts = 2]
  /\ UNCHANGED dead

(* close(fd) alone: the entry stays in ssl_clients_. *)
CloseSocket ==
  /\ owner' = [owner EXCEPT ![cur.fd] = None]
  /\ phase' = [phase EXCEPT ![c] = "closed"]

PerformClose ==
  /\ WebSockets
  /\ Read("close", "clients")
  /\ CloseSocket
  /\ UNCHANGED session

(* The bytes go to the route's handler if the route is this connection's (see
   EventLoop).  The handler may close the WebSocket: the socket, and the
   session, to which the entry in ssl_clients_ goes on to point. *)
DispatchWebSocket ==
  \/ KeepSocket
  \/ CloseSocket /\ session' = [session EXCEPT ![c] = "closed"]

PerformFrame == WebSockets /\ Read("frame", "clients") /\ DispatchWebSocket

(* What follows a request: the 101, a response, or nothing. *)
Answer(kind) ==
  IF WebSockets /\ kind = "upgrade" THEN "handshake"
  ELSE IF kind \in {"get", "upgrade"} THEN "respond" ELSE "clients"

PerformHttp ==
  /\ \E kind \in Kinds \cup {"quiet"} :
       /\ WebSockets => kind \notin {"frame", "close"}
       /\ Read(kind, Answer(kind))
  /\ KeepSocket

Writing(from, to) ==
  /\ Serve(from, to)
  /\ session[c] = "live"
  /\ UNCHANGED <<taken, rest, dead>>

Written == stalled[c] # "full"

(* processWebsocketHandshake() has written the 101: the route's handler gets
   the handshake.  If it has not, the request goes on to handleRoute(). *)
Switch == Writing("handshake", "clients") /\ Written /\ DispatchWebSocket
SwitchFails == Writing("handshake", "respond") /\ peer[c] # "open" /\ KeepSocket

(* sendResponse() returns, with everything written or a failed write; until
   then the loop sleeps and writes again, and serves no one else. *)
Respond == Writing("respond", "clients") /\ (Written \/ peer[c] # "open") /\ KeepSocket

(* Nothing keeps SIGPIPE off: a write to a connection that is gone may kill,
   the loop's or a handler's. *)
Killed ==
  /\ pc \in {"handshake", "respond"}
  /\ Writing(pc, "killed")
  /\ peer[c] # "open"
  /\ KeepSocket
KilledBySend == WebSockets /\ Read("frame", "killed") /\ peer[c] # "open" /\ KeepSocket

-----------------------------------------------------------------------------
(* closeClient() for each of a set of descriptors: SSL_free(), close(),
   erase().  To free a session again is undefined. *)

(* Mutant: no SSL_free(). *)
FreedNone(fds) == {}

Freed(fds) == {d \in Conns : \E fd \in fds \cap Keys : Ssl(fd) = d}
Ended(fds) == {d \in Conns : \E fd \in fds \cap Keys : owner[fd] = d}

CloseClients(fds, next) ==
  /\ session' = [d \in Conns |-> IF d \notin Freed(fds) THEN session[d]
                                 ELSE IF session[d] = "live" THEN "freed" ELSE "twice"]
  /\ owner' = [fd \in Fds |-> IF fd \in fds \cap Keys THEN None ELSE owner[fd]]
  /\ table' = [fd \in Fds |-> IF fd \in fds THEN NoEntry ELSE table[fd]]
  /\ pc' = IF \E d \in Freed(fds) : session[d] # "live" THEN "undefined" ELSE next

Sweep ==
  /\ pc = "clients"
  /\ ready = {}
  /\ CloseClients(dead, "check")
  /\ phase' = [d \in Conns |-> IF d \in Ended(dead) THEN "closed" ELSE phase[d]]
  /\ dead' = {}
  /\ UNCHANGED <<clientVars, streamVars, queueVars, ready, cur, running, stopped>>

Over == pc \in {"exited", "killed", "undefined"}

StopWith(flag) ==
  /\ MayStop /\ running /\ ~stopped /\ ~Over
  /\ stopped' = TRUE
  /\ running' = flag
  /\ CloseClients(Keys, pc)
  /\ phase' = [d \in Conns |-> IF d \in Ended(Keys) THEN "closed"
                               ELSE IF phase[d] = "queued" THEN "refused" ELSE phase[d]]
  /\ lsn' = "closed"
  /\ backlog' = <<>>
  /\ UNCHANGED <<clientVars, streamVars, ready, dead, cur>>

(* Mutant: running_ is left set. *)
StopFlagless == StopWith(running)

(* SSLServer::stop(), wherever the loop is: the flag, every client, the listen
   socket. *)
Stop == StopWith(FALSE)

-----------------------------------------------------------------------------
ClientNext ==
  \E d \in Conns :
    \/ Connect(d) \/ Hello(d) \/ Stall(d) \/ Drain(d)
    \/ \E r \in Records : Send(d, r)
    \/ \E how \in {"fin", "rst"} : Leave(d, how)

LoopNext ==
  \/ Run \/ RunFails \/ CheckRunning \/ BuildPollfds
  \/ Poll \/ PollInterrupted
  \/ \E fd \in Fds :
       \/ Accept(fd) \/ AcceptFails(fd)
       \/ Gone(fd) \/ Established(fd) \/ ShakeDone(fd) \/ ShakeMore(fd) \/ ShakeFails(fd)
  \/ ListenDone
  \/ UseAfterFree \/ ReadNothing \/ ReadFails
  \/ PerformClose \/ PerformFrame \/ PerformHttp
  \/ Switch \/ SwitchFails \/ Respond \/ Killed \/ KilledBySend
  \/ Sweep

Next == ClientNext \/ LoopNext \/ Stop

Spec == Init /\ [][Next]_vars

(* The loop's thread is scheduled, and a client that has stopped reading reads
   again in the end: until it does sendResponse() serves nobody else. *)
FairSpec == Spec /\ WF_vars(LoopNext) /\ \A d \in Conns : WF_vars(Drain(d))

-----------------------------------------------------------------------------
(* Every variable stays in its range. *)
TypeOK ==
  /\ peer \in [Conns -> {"open", "fin", "rst"}]
  /\ hello \in [Conns -> 0..Flights]
  /\ stalled \in [Conns -> {"no", "full", "drained"}]
  /\ phase \in [Conns -> {"new", "queued", "accepted", "closed", "refused"}]
  /\ owner \in [Fds -> Conns \cup {None}]
  /\ lsn \in {"unset", "open", "closed"}
  /\ session \in [Conns -> {"none", "live", "closed", "freed", "twice"}]
  /\ seen \in [Conns -> 0..Flights]
  /\ taken \in [Conns -> Nat]
  /\ rest \in [Conns -> BOOLEAN]
  /\ table \in [Fds -> [ssl : Conns, done : BOOLEAN] \cup {NoEntry}]
  /\ pc \in {"run", "check", "fds", "poll", "asleep", "listen", "clients", "exited",
            "killed", "undefined"} \cup Busy
  /\ {running, stopped} \subseteq BOOLEAN
  /\ ready \subseteq Fds
  /\ dead \subseteq Fds
  /\ cur \in [fd : Fds, ssl : Conns] \cup {NoOne}

(* An open socket is served with the session of the connection behind it, also
   when its number was another connection's before. *)
SessionOfSocket ==
  \A fd \in Fds : owner[fd] # None => Ssl(fd) = owner[fd] /\ session[owner[fd]] = "live"

Last(d) == sent[d][taken[d]]

(* A record that may reach a route's handler: the rest of one may look like a
   frame or an upgrade. *)
Handled(r) == r.kind \in {"upgrade", "frame"} \/ r.parts = 2

(* While the server is not stopped no session is used after it was freed, nor
   freed twice.  stop() may free the session that the loop has in hand, which
   goes on with it; and it frees again what a handler's WebSocket::close() has
   freed, but nothing else (closeClient()). *)
NoUseAfterFree ==
  /\ \A d \in Conns :
       session[d] = "twice" => stopped /\ taken[d] > 0 /\ Handled(Last(d))
  /\ pc = "undefined" =>
       /\ stopped
       /\ \/ \E d \in Conns : session[d] = "twice"
          \/ cur # NoOne /\ session[cur.ssl] = "freed"

(* No request is served before the handshake of its own connection is over. *)
HandshakeFirst == \A d \in Conns : taken[d] > 0 => seen[d] = Flights

(* A live session can still be found and freed, except for one whose socket a
   Close frame (or what looks like one) closed: its entry is overwritten when
   the number comes back. *)
SessionsKept ==
  \A d \in Conns :
    session[d] = "live" /\ ~(taken[d] > 0 /\ (Last(d).kind = "close" \/ Last(d).parts = 2))
      => \E fd \in Keys : Ssl(fd) = d

Served(d) == phase[d] = "accepted" /\ peer[d] # "rst" /\ ~Over

(* What a client sends does not wait for ever, nor does what SSL_read() has left
   of a record in the session once anything else has arrived after it.  (Until
   then it stays there, where poll() does not see it.) *)
DataRead ==
  \A d \in Conns :
    /\ []<>~(Served(d) /\ Unread(d))
    /\ []<>~(Served(d) /\ rest[d] /\ Arrived(d))

(* A connection that its client has ended is closed. *)
EndedConnectionsClosed ==
  \A d \in Conns : []<>~(phase[d] = "accepted" /\ peer[d] # "open" /\ ~Over)

-----------------------------------------------------------------------------
(* The server implements the service of each connection. *)
MayClose(r) == r.kind = "close" \/ Handled(r)

Service ==
  INSTANCE TlsService WITH
    Requests <- Records,
    hello <- [d \in Conns |-> hello[d] = Flights],
    shaken <- [d \in Conns |-> seen[d] = Flights],
    down <- stopped

(* Whatever the loop does with its descriptors and sessions, each connection is
   served as TlsService says: in order, after its own handshake, without losing
   what was sent before an orderly end, and closed for its own reasons or by
   stop() only (SSLServer::handleRequests(), closeClient() and stop()). *)
ImplementsTls == Service!Spec

=============================================================================
