--------------------------- MODULE EventLoopProofs ---------------------------
(***************************************************************************)
(* Theorems about EventLoop, for every set of connections, descriptors and *)
(* routes and for both ways of calling stop(): the types, the list of      *)
(* sockets, WebSocket routes, the service that a server without such       *)
(* routes implements, and the feeds that write beside the loop.            *)
(***************************************************************************)
EXTENDS Feeds, TLAPS

(* The request being answered is the last one taken from the connection that
   is being answered. *)
InFlight ==
  /\ \A c \in Conns : taken[c] <= Len(sent[c])
  /\ pc \in {"handshake", "respond"} =>
       /\ sd \in Fds
       /\ rd \in Conns
       /\ taken[rd] \in 1..Len(sent[rd])
  /\ pc = "handshake" => sent[rd][taken[rd]].kind = "upgrade"

TypeInv == TypeOK /\ InFlight

LEMMA InitTypeInv == Init => TypeInv
<1> SUFFICES ASSUME Init PROVE TypeInv
  OBVIOUS
<1>1. sent \in [Conns -> Seq(Requests)] /\ out \in [Conns -> Seq(Nat)] /\ backlog \in Seq(Conns)
  BY DEF Init
<1>2. TypeOK
  BY <1>1 DEF Init, TypeOK, Quiet, NoFd, NoPath
<1>3. InFlight
  BY DEF Init, InFlight
<1> QED
  BY <1>2, <1>3 DEF TypeInv

(* A request that asks for an upgrade names a path. *)
LEMMA UpgradePath ==
  ASSUME NEW r \in Requests, r.kind = "upgrade"
  PROVE  r.path \in Paths
  BY DEF Requests

LEMMA ClientTypeInv ==
  ASSUME TypeInv, ClientNext
  PROVE  TypeInv'
<1> USE DEF TypeInv, TypeOK, InFlight, clientVars, sockVars, exchangeVars, stopVars, serverVars
<1>1. PICK c \in Conns : \/ Connect(c) \/ (\E r \in Requests : Send(c, r)) \/ Finish(c)
                         \/ Reset(c) \/ Stall(c) \/ Drain(c)
  BY DEF ClientNext
<1>2. CASE Connect(c)
  BY <1>2 DEF Connect
<1>3. ASSUME NEW r \in Requests, Send(c, r) PROVE TypeInv'
  <2>1. sent' \in [Conns -> Seq(Requests)]
    BY <1>3 DEF Send
  <2>2. \A d \in Conns : Len(sent[d]) <= Len(sent'[d])
                         /\ \A i \in 1..Len(sent[d]) : sent'[d][i] = sent[d][i]
    BY <1>3 DEF Send
  <2> QED
    BY <1>3, <2>1, <2>2 DEF Send
<1>4. CASE Finish(c)
  BY <1>4 DEF Finish
<1>5. CASE Reset(c)
  BY <1>5 DEF Reset
<1>6. CASE Stall(c)
  BY <1>6 DEF Stall
<1>7. CASE Drain(c)
  BY <1>7, SMTT(30) DEF Drain
<1> QED
  BY <1>1, <1>2, <1>3, <1>4, <1>5, <1>6, <1>7

(* close() keeps the tables of descriptors and connections what they are. *)
LEMMA CloseType ==
  ASSUME TypeOK, NEW fd \in Fds, Close(fd)
  PROVE  /\ owner' \in [Fds -> Conns \cup {None}]
         /\ phase' \in [Conns -> {"new", "queued", "accepted", "closed", "refused"}]
  BY DEF TypeOK, Close, Free

LEMMA DropTypeInv ==
  ASSUME TypeInv, NEW fd \in Fds, Drop(fd)
  PROVE  TypeInv'
<1>1. TypeOK
  BY DEF TypeInv
<1>2. Close(fd)
  BY DEF Drop
<1>3. /\ owner' \in [Fds -> Conns \cup {None}]
      /\ phase' \in [Conns -> {"new", "queued", "accepted", "closed", "refused"}]
  BY <1>1, <1>2, CloseType
<1>4. /\ closedSockets' = closedSockets \cup {fd}
      /\ revents' = [revents EXCEPT ![fd] = "NONE"]
      /\ UNCHANGED <<clientVars, lsn, backlog, exchangeVars, stopVars, pc, running,
                     clientList, wsRoutes, lrev, sd, rd>>
  BY DEF Drop
<1>5. TypeOK'
  BY <1>1, <1>3, <1>4 DEF TypeOK, clientVars, exchangeVars, stopVars
<1>6. InFlight'
  BY <1>4 DEF TypeInv, InFlight, clientVars, exchangeVars
<1> QED
  BY <1>5, <1>6 DEF TypeInv

(* A route's handler, and the dispatch to it, append to what was sent to one
   connection and at most close one descriptor. *)
LEMMA DispatchType ==
  ASSUME TypeInv, NEW fd \in Fds, owner[fd] # None,
         NEW routes, NEW o \in [Conns -> Seq(Nat)],
         taken' \in [Conns -> Nat],
         DispatchWebSocket(fd, routes, o)
  PROVE  /\ owner' \in [Fds -> Conns \cup {None}]
         /\ phase' \in [Conns -> {"new", "queued", "accepted", "closed", "refused"}]
         /\ out' \in [Conns -> Seq(Nat)]
         /\ dispatched' \in [Conns -> SUBSET WsPaths]
<1> DEFINE T == /\ owner' \in [Fds -> Conns \cup {None}]
                /\ phase' \in [Conns -> {"new", "queued", "accepted", "closed", "refused"}]
<1>0. TypeOK
  BY DEF TypeInv
<1>1. ASSUME NEW op, Handler(fd, o, op)
      PROVE  T /\ out' \in [Conns -> Seq(Nat)]
  <2>1. Close(fd) => T
    BY <1>0, CloseType
  <2>2. owner' = owner /\ phase' = phase => T
    BY <1>0 DEF TypeOK
  <2>3. T
    BY <1>1, <2>1, <2>2 DEF Handler
  <2>4. out' = o \/ out' = [o EXCEPT ![owner[fd]] = Append(@, taken'[owner[fd]])]
    BY <1>1 DEF Handler
  <2>5. owner[fd] \in Conns
    BY <1>0 DEF TypeOK
  <2>6. Append(o[owner[fd]], taken'[owner[fd]]) \in Seq(Nat)
    BY <2>5
  <2>7. out' \in [Conns -> Seq(Nat)]
    BY <2>4, <2>5, <2>6
  <2> QED
    BY <2>3, <2>7
<1>2. ASSUME NEW p \in WsPaths, NEW op \in WsOps,
             dispatched' = [dispatched EXCEPT ![owner[fd]] = @ \cup {p}],
             Handler(fd, o, op)
      PROVE  T /\ out' \in [Conns -> Seq(Nat)] /\ dispatched' \in [Conns -> SUBSET WsPaths]
  <2>1. dispatched' \in [Conns -> SUBSET WsPaths]
    BY <1>0, <1>2 DEF TypeOK
  <2> QED
    BY <1>1, <1>2, <2>1
<1>3. CASE out' = o /\ UNCHANGED <<dispatched, owner, phase>>
  BY <1>0, <1>3 DEF TypeOK
<1> QED
  BY <1>2, <1>3 DEF DispatchWebSocket

LEMMA RecvType ==
  ASSUME TypeInv, NEW fd \in Fds, Recv(fd)
  PROVE  /\ owner[fd] \in Conns
         /\ taken' \in [Conns -> Nat]
         /\ taken'[owner[fd]] \in 1..Len(sent[owner[fd]])
         /\ \A c \in Conns : taken'[c] <= Len(sent[c])
         /\ Next1(owner[fd]) = sent[owner[fd]][taken'[owner[fd]]]
         /\ revents' \in [Fds -> {"NONE", "IN", "HUP", "NVAL"}]
         /\ pc = "clients"
<1>1. owner[fd] \in Conns
  BY DEF TypeInv, TypeOK, Recv, Free
<1>2. taken' = [taken EXCEPT ![owner[fd]] = @ + 1] /\ taken[owner[fd]] < Len(sent[owner[fd]])
  BY DEF Recv, Unread
<1>3. \A c \in Conns : Len(sent[c]) \in Nat
  BY DEF TypeInv, TypeOK
<1> QED
  BY <1>1, <1>2, <1>3 DEF TypeInv, TypeOK, InFlight, Recv, Readable, Handling, Next1

LEMMA LoopTypeInv ==
  ASSUME TypeInv, LoopNext
  PROVE  TypeInv'
<1> USE DEF clientVars, sockVars, exchangeVars, stopVars
<1>0. TypeOK /\ InFlight
  BY DEF TypeInv
<1>1. CASE RunSocket \/ RunListen \/ RunFail \/ RunStart \/ CheckRunning
  BY <1>0, <1>1, ZenonT(40) DEF RunSocket, RunListen, RunFail, RunStart, CheckRunning, Goto,
     TypeInv, TypeOK, InFlight
<1>2. ASSUME PollReturns PROVE TypeInv'
  <2>1. revents' \in [Fds -> {"NONE", "IN", "HUP", "NVAL"}]
    BY <1>2 DEF PollReturns, Revents
  <2>2. lrev' \in {"NONE", "IN", "NVAL"}
    BY <1>2 DEF PollReturns, ListenRevents
  <2> QED
    BY <1>0, <1>2, <2>1, <2>2 DEF PollReturns, TypeInv, TypeOK, InFlight
<1>3. CASE Poll \/ PollWake \/ PollExpire \/ PollInterrupted
  BY <1>0, <1>2, <1>3 DEF Poll, Blocks, PollWake, PollExpire, PollInterrupted, Goto,
     TypeInv, TypeOK, InFlight
<1>4. ASSUME NEW fd \in Fds, Accept(fd) PROVE TypeInv'
  <2>1. Head(backlog) \in Conns /\ Tail(backlog) \in Seq(Conns)
    BY <1>0, <1>4 DEF TypeOK, Accept, Acceptable
  <2>2. /\ owner' \in [Fds -> Conns \cup {None}]
        /\ phase' \in [Conns -> {"new", "queued", "accepted", "closed", "refused"}]
        /\ clientList' \subseteq Fds /\ backlog' \in Seq(Conns)
    BY <1>0, <1>4, <2>1 DEF Accept, TypeOK
  <2>3. TypeOK'
    BY <1>0, <1>4, <2>2 DEF Accept, Goto, TypeOK
  <2>4. InFlight'
    BY <1>0, <1>4 DEF Accept, Goto, InFlight
  <2> QED
    BY <2>3, <2>4 DEF TypeInv
<1>5. CASE ListenDone
  BY <1>0, <1>5 DEF ListenDone, Goto, TypeInv, TypeOK, InFlight
<1>6. ASSUME NEW fd \in Fds, HandleClient(fd) PROVE TypeInv'
  <2>1. CASE ClientFailed(fd) \/ RecvFailed(fd) \/ RecvEof(fd)
    BY <2>1, DropTypeInv DEF ClientFailed, RecvFailed, RecvEof
  <2>2. CASE RecvAgain(fd)
    BY <1>0, <2>2 DEF RecvAgain, Skip, TypeInv, TypeOK, InFlight
  <2>3. CASE PerformClose(fd)
    <3>1. Recv(fd) /\ Close(fd)
      BY <2>3 DEF PerformClose
    <3> QED
      BY <1>0, <2>3, <3>1, RecvType, CloseType DEF PerformClose, TypeInv, TypeOK, InFlight
  <2>4. CASE PerformFrame(fd)
    <3>1. Recv(fd) /\ DispatchWebSocket(fd, wsRoutes, out)
      BY <2>4 DEF PerformFrame
    <3>2. owner[fd] # None
      BY <3>1 DEF Recv, Free
    <3>3. /\ owner' \in [Fds -> Conns \cup {None}]
          /\ phase' \in [Conns -> {"new", "queued", "accepted", "closed", "refused"}]
          /\ out' \in [Conns -> Seq(Nat)]
          /\ dispatched' \in [Conns -> SUBSET WsPaths]
      BY <1>0, <3>1, <3>2, RecvType, DispatchType DEF TypeOK
    <3>4. /\ taken' \in [Conns -> Nat] /\ \A c \in Conns : taken'[c] <= Len(sent[c])
          /\ revents' \in [Fds -> {"NONE", "IN", "HUP", "NVAL"}] /\ pc = "clients"
      BY <3>1, RecvType
    <3>5. TypeOK'
      BY <1>0, <2>4, <3>3, <3>4 DEF PerformFrame, TypeOK
    <3>6. InFlight'
      BY <1>0, <2>4, <3>4 DEF PerformFrame, InFlight
    <3> QED
      BY <3>5, <3>6 DEF TypeInv
  <2>5. CASE PerformUpgrade(fd)
    <3>1. Recv(fd)
      BY <2>5 DEF PerformUpgrade
    <3> QED
      BY <1>0, <2>5, <3>1, RecvType DEF PerformUpgrade, TypeInv, TypeOK, InFlight
  <2>7. CASE KilledBySend(fd)
    <3>1. Recv(fd)
      BY <2>7 DEF KilledBySend
    <3> QED
      BY <1>0, <2>7, <3>1, RecvType DEF KilledBySend, TypeInv, TypeOK, InFlight
  <2>6. CASE PerformHttp(fd)
    <3>1. Recv(fd)
      BY <2>6 DEF PerformHttp
    <3>2. \/ pc' = "respond" /\ sd' = fd /\ rd' = owner[fd]
          \/ pc' = "clients" /\ sd' = sd /\ rd' = rd
      BY <2>6, <3>1, RecvType DEF PerformHttp, HasBody
    <3>3. UNCHANGED <<clientVars, sockVars, out, upgraded, dispatched, stopVars, running,
                      clientList, closedSockets, wsRoutes, lrev>>
      BY <2>6 DEF PerformHttp
    <3> QED
      BY <1>0, <3>1, <3>2, <3>3, RecvType, ZenonT(40) DEF TypeInv, TypeOK, InFlight
  <2> QED
    BY <1>6, <2>1, <2>2, <2>3, <2>4, <2>5, <2>6, <2>7 DEF HandleClient
<1>7. CASE HandshakeSent
  <2> DEFINE p == sent[rd][taken[rd]].path
             o == [out EXCEPT ![rd] = Append(@, taken[rd])]
  <2>1. rd \in Conns /\ sd \in Fds /\ taken[rd] \in 1..Len(sent[rd])
    BY <1>0, <1>7 DEF HandshakeSent, Goto, InFlight
  <2>2. sent[rd][taken[rd]] \in Requests
    BY <1>0, <2>1 DEF TypeOK
  <2>3. p \in Paths
    BY <1>0, <1>7, <2>2, UpgradePath DEF HandshakeSent, Goto, InFlight
  <2>4. updateWsRoute(p, sd) \in [WsPaths -> Fds \cup {NoFd}]
    BY <1>0, <2>1 DEF updateWsRoute, TypeOK
  <2>5. o \in [Conns -> Seq(Nat)]
    BY <1>0, <2>1 DEF TypeOK
  <2>6. owner[sd] # None
    BY <2>1, NoneAssumption, <1>7 DEF HandshakeSent, Delivered
  <2>7. taken' = taken /\ DispatchWebSocket(sd, updateWsRoute(p, sd), o)
    BY <1>7 DEF HandshakeSent
  <2>8. /\ owner' \in [Fds -> Conns \cup {None}]
        /\ phase' \in [Conns -> {"new", "queued", "accepted", "closed", "refused"}]
        /\ out' \in [Conns -> Seq(Nat)]
        /\ dispatched' \in [Conns -> SUBSET WsPaths]
    <3> HIDE DEF p, o
    <3>1. taken' \in [Conns -> Nat]
      BY <1>0, <2>7 DEF TypeOK
    <3> QED
      BY <1>0, <2>1, <2>5, <2>6, <2>7, <3>1, DispatchType
  <2>9. /\ wsRoutes' = updateWsRoute(p, sd)
        /\ upgraded' = [upgraded EXCEPT ![rd] = p]
        /\ pc' = "clients" /\ sd' = NoFd /\ rd' = None
        /\ UNCHANGED <<clientVars, lsn, backlog, stopVars, running, clientList,
                       closedSockets, lrev, revents>>
    BY <1>7 DEF HandshakeSent, Goto, Idle
  <2> HIDE DEF p, o
  <2> QED
    BY <1>0, <2>1, <2>3, <2>4, <2>7, <2>8, <2>9 DEF TypeInv, TypeOK, InFlight
<1>8. CASE HandshakeFailed \/ KilledBySend101
  BY <1>0, <1>8, ZenonT(40) DEF HandshakeFailed, KilledBySend101, Goto, TypeInv, TypeOK, InFlight
<1>9. CASE ResponseSent
  BY <1>0, <1>9 DEF ResponseSent, Idle, Goto, TypeInv, TypeOK, InFlight
<1>10. CASE ResponseFailed
  BY <1>0, <1>10 DEF ResponseFailed, Idle, Goto, TypeInv, TypeOK, InFlight
<1>11. CASE EraseClosed
  BY <1>0, <1>11 DEF EraseClosed, Goto, TypeInv, TypeOK, InFlight
<1> QED
  BY <1>1, <1>3, <1>4, <1>5, <1>6, <1>7, <1>8, <1>9, <1>10, <1>11 DEF LoopNext

LEMMA StopTypeInv ==
  ASSUME TypeInv, StopNext
  PROVE  TypeInv'
<1> USE DEF clientVars, sockVars, exchangeVars, serverVars
<1>1. CASE StopBegin
  BY <1>1 DEF StopBegin, TypeInv, TypeOK, InFlight
<1>2. ASSUME NEW p \in WsPaths, StopRoute(p) PROVE TypeInv'
  <2>1. /\ owner' \in [Fds -> Conns \cup {None}]
        /\ phase' \in [Conns -> {"new", "queued", "accepted", "closed", "refused"}]
    <3>1. CASE wsRoutes[p] \in Fds /\ Close(wsRoutes[p])
      BY <3>1, CloseType DEF TypeInv
    <3>2. CASE UNCHANGED <<owner, phase>>
      BY <3>2 DEF TypeInv, TypeOK
    <3> QED
      BY <1>2, <3>1, <3>2 DEF StopRoute
  <2> QED
    BY <1>2, <2>1 DEF StopRoute, TypeInv, TypeOK, InFlight
<1>3. CASE StopListening
  BY <1>3 DEF StopListening, TypeInv, TypeOK, InFlight
<1>4. CASE StopFlag
  BY <1>4, ZenonT(40) DEF StopFlag, TypeInv, TypeOK, InFlight
<1> QED
  BY <1>1, <1>2, <1>3, <1>4 DEF StopNext, StopSteps

LEMMA TypeInvNext == TypeInv /\ [Next]_vars => TypeInv'
<1>1. ASSUME TypeInv, UNCHANGED vars PROVE TypeInv'
  BY <1>1 DEF vars, clientVars, sockVars, exchangeVars, stopVars, TypeInv, TypeOK, InFlight
<1> QED
  BY <1>1, ClientTypeInv, LoopTypeInv, StopTypeInv DEF Next

(* Every reachable state of the server is well typed, whatever the clients do
   and however stop() is called. *)
THEOREM TypeInvariant == Spec => []TypeInv
  BY InitTypeInv, TypeInvNext, PTL DEF Spec

THEOREM TypeCorrect == Spec => []TypeOK
<1>1. TypeInv => TypeOK
  BY DEF TypeInv
<1> QED
  BY <1>1, TypeInvariant, PTL

-----------------------------------------------------------------------------
(* No connection is forgotten.  Descriptors leave client_list_ only through
   closedSockets, which is empty while descriptors are handed out and holds
   closed ones otherwise; this makes OpenSocketsListed inductive. *)
ListInv ==
  /\ OpenSocketsListed
  /\ \A fd \in closedSockets : owner[fd] = None
  /\ closedSockets # {} => pc \in {"clients", "handshake", "respond", "dead"}

(* What a step may do to the tables without any harm: close some descriptors,
   and put closed ones into closedSockets while the clients are handled. *)
OnlyCloses ==
  /\ \A fd \in Fds : owner'[fd] = owner[fd] \/ owner'[fd] = None
  /\ clientList' = clientList
  /\ \A fd \in closedSockets' : fd \in closedSockets \/ owner'[fd] = None
  /\ closedSockets' # {} => pc' \in {"clients", "handshake", "respond", "dead"}

LEMMA OnlyClosesListInv ==
  ASSUME TypeOK, ListInv, OnlyCloses, closedSockets' \subseteq Fds
  PROVE  ListInv'
  BY DEF TypeOK, ListInv, OpenSocketsListed, OnlyCloses

LEMMA CloseOnlyCloses ==
  ASSUME TypeOK, NEW fd \in Fds, Close(fd)
  PROVE  owner'[fd] = None /\ \A g \in Fds : owner'[g] = owner[g] \/ owner'[g] = None
  BY DEF TypeOK, Close

LEMMA DispatchOnlyCloses ==
  ASSUME TypeOK, NEW fd \in Fds, NEW routes, NEW o, DispatchWebSocket(fd, routes, o)
  PROVE  (owner' = owner /\ phase' = phase) \/ Close(fd)
  BY DEF DispatchWebSocket, Handler

LEMMA ListInvNext ==
  ASSUME TypeInv, TypeInv', ListInv, [Next]_vars
  PROVE  ListInv'
<1> USE DEF clientVars, sockVars, exchangeVars, stopVars, serverVars
<1>1. TypeOK /\ TypeOK' /\ closedSockets' \subseteq Fds
  BY DEF TypeInv, TypeOK
<1>2. CASE UNCHANGED <<owner, clientList, closedSockets>> /\ closedSockets = {}
  BY <1>2 DEF ListInv, OpenSocketsListed
<1>3. CASE UNCHANGED <<owner, clientList, closedSockets, pc>>
  BY <1>3 DEF ListInv, OpenSocketsListed
<1>4. CASE ClientNext
  BY <1>3, <1>4 DEF ClientNext, Connect, Send, Finish, Reset, Stall, Drain
<1>5. CASE LoopNext
  <2>1. CASE RunSocket \/ RunListen \/ RunFail \/ RunStart \/ CheckRunning
    BY <1>2, <2>1 DEF ListInv, RunSocket, RunListen, RunFail, RunStart, CheckRunning, Goto
  <2>2. CASE Poll \/ PollWake \/ PollExpire \/ PollInterrupted
    BY <1>2, <2>2 DEF ListInv, Poll, PollReturns, Blocks, PollWake, PollExpire,
       PollInterrupted, Goto
  <2>3. ASSUME NEW fd \in Fds, Accept(fd) PROVE ListInv'
    <3>1. closedSockets = {} /\ closedSockets' = {}
      BY <2>3 DEF ListInv, Accept, Goto
    <3>2. \A g \in Fds \ {fd} : owner'[g] = owner[g]
      BY <1>1, <2>3 DEF TypeOK, Accept
    <3>3. clientList' = clientList \cup {fd}
      BY <2>3 DEF Accept
    <3> QED
      BY <3>1, <3>2, <3>3 DEF ListInv, OpenSocketsListed
  <2>4. CASE ListenDone
    BY <1>2, <2>4 DEF ListInv, ListenDone, Goto
  <2>5. ASSUME NEW fd \in Fds, HandleClient(fd) PROVE ListInv'
    <3>1. pc = "clients"
      BY <2>5 DEF HandleClient, ClientFailed, RecvFailed, RecvEof, AtEof, RecvAgain, PerformClose,
         PerformFrame, KilledBySend, PerformUpgrade, PerformHttp, Recv, Readable, Handling
    <3>2. ASSUME Drop(fd) PROVE ListInv'
      <4>1. owner'[fd] = None /\ \A g \in Fds : owner'[g] = owner[g] \/ owner'[g] = None
        BY <1>1, <3>2, CloseOnlyCloses DEF Drop
      <4>2. OnlyCloses
        BY <3>1, <3>2, <4>1 DEF Drop, OnlyCloses
      <4> QED
        BY <1>1, <4>2, OnlyClosesListInv
    <3>3. ASSUME Close(fd), UNCHANGED <<pc, clientList, closedSockets>> PROVE ListInv'
      <4>1. \A g \in Fds : owner'[g] = owner[g] \/ owner'[g] = None
        BY <1>1, <3>3, CloseOnlyCloses
      <4>2. OnlyCloses
        BY <3>1, <3>3, <4>1 DEF OnlyCloses
      <4> QED
        BY <1>1, <4>2, OnlyClosesListInv
    <3>4. ASSUME UNCHANGED <<owner, clientList, closedSockets>>,
                 pc' \in {"clients", "handshake", "respond", "dead"}
          PROVE  ListInv'
      BY <3>4 DEF ListInv, OpenSocketsListed
    <3>5. CASE ClientFailed(fd) \/ RecvFailed(fd) \/ RecvEof(fd)
      BY <3>2, <3>5 DEF ClientFailed, RecvFailed, RecvEof
    <3>6. CASE RecvAgain(fd)
      BY <3>1, <3>4, <3>6 DEF RecvAgain, Skip
    <3>7. CASE PerformClose(fd)
      BY <3>3, <3>7 DEF PerformClose
    <3>8. CASE PerformFrame(fd)
      BY <1>1, <3>1, <3>3, <3>4, <3>8, DispatchOnlyCloses DEF PerformFrame
    <3>9. CASE PerformUpgrade(fd)
      BY <3>4, <3>9 DEF PerformUpgrade
    <3>10. CASE PerformHttp(fd)
      BY <3>1, <3>4, <3>10 DEF PerformHttp
    <3>11. CASE KilledBySend(fd)
      BY <3>4, <3>11 DEF KilledBySend
    <3> QED
      BY <2>5, <3>5, <3>6, <3>7, <3>8, <3>9, <3>10, <3>11 DEF HandleClient
  <2>6. CASE HandshakeSent
    <3>1. sd \in Fds
      BY <2>6 DEF TypeInv, InFlight, HandshakeSent, Goto
    <3>2. PICK routes, o : DispatchWebSocket(sd, routes, o)
      BY <2>6 DEF HandshakeSent
    <3>3. owner' = owner \/ Close(sd)
      BY <1>1, <3>1, <3>2, DispatchOnlyCloses
    <3>4. \A g \in Fds : owner'[g] = owner[g] \/ owner'[g] = None
      BY <1>1, <3>1, <3>3, CloseOnlyCloses
    <3>5. OnlyCloses
      BY <2>6, <3>4 DEF HandshakeSent, Goto, OnlyCloses
    <3> QED
      BY <1>1, <3>5, OnlyClosesListInv
  <2>7. CASE HandshakeFailed \/ KilledBySend101 \/ ResponseSent \/ ResponseFailed
    BY <2>7 DEF ListInv, OpenSocketsListed, HandshakeFailed, KilledBySend101, ResponseSent,
       ResponseFailed, Goto
  <2>8. CASE EraseClosed
    BY <1>1, <2>8 DEF ListInv, OpenSocketsListed, EraseClosed, TypeOK
  <2> QED
    BY <1>5, <2>1, <2>2, <2>3, <2>4, <2>5, <2>6, <2>7, <2>8 DEF LoopNext
<1>6. CASE StopNext
  <2>1. CASE StopBegin \/ StopListening \/ StopFlag
    BY <1>3, <2>1 DEF StopBegin, StopListening, StopFlag
  <2>2. ASSUME NEW p \in WsPaths, StopRoute(p) PROVE ListInv'
    <3>1. UNCHANGED <<pc, clientList, closedSockets>>
      BY <2>2 DEF StopRoute
    <3>2. owner' = owner \/ (wsRoutes[p] \in Fds /\ Close(wsRoutes[p]))
      BY <2>2 DEF StopRoute
    <3>3. \A g \in Fds : owner'[g] = owner[g] \/ owner'[g] = None
      BY <1>1, <3>2, CloseOnlyCloses
    <3>4. OnlyCloses
      BY <3>1, <3>3 DEF OnlyCloses, ListInv
    <3> QED
      BY <1>1, <3>4, OnlyClosesListInv
  <2> QED
    BY <1>6, <2>1, <2>2 DEF StopNext, StopSteps
<1>7. CASE UNCHANGED vars
  BY <1>3, <1>7 DEF vars
<1> QED
  BY <1>4, <1>5, <1>6, <1>7 DEF Next

LEMMA InitListInv == Init => ListInv
  BY DEF Init, ListInv, OpenSocketsListed

LEMMA ListInvariant == Spec => []ListInv
<1>1. TypeInv /\ TypeInv' /\ ListInv /\ [Next]_vars => ListInv'
  BY ListInvNext
<1> QED
  BY <1>1, InitListInv, TypeInvariant, PTL DEF Spec

(* Every socket that accept() returned and nobody closed stays in client_list_,
   with or without WebSocket routes, handlers that close, and stop(). *)
THEOREM OpenSocketsStayListed == Spec => []OpenSocketsListed
<1>1. ListInv => OpenSocketsListed
  BY DEF ListInv
<1> QED
  BY <1>1, ListInvariant, PTL

-----------------------------------------------------------------------------
(* A connection has at most one descriptor, and none while it waits to be
   accepted. *)
SocketInv ==
  /\ \A fd \in Fds : owner[fd] # None => phase[owner[fd]] = "accepted"
  /\ \A fd, g \in Fds : owner[fd] = owner[g] /\ owner[fd] # None => fd = g
  /\ \A i \in 1..Len(backlog) : phase[backlog[i]] = "queued"
  /\ \A i, j \in 1..Len(backlog) : backlog[i] = backlog[j] => i = j

LEMMA CloseSocketInv ==
  ASSUME TypeOK, SocketInv, NEW fd \in Fds, Close(fd), backlog' = backlog
  PROVE  SocketInv'
<1>1. CASE owner[fd] = None
  BY <1>1 DEF TypeOK, SocketInv, Close, Free
<1>2. CASE owner[fd] # None
  <2>1. /\ owner' = [owner EXCEPT ![fd] = None]
        /\ phase' = [phase EXCEPT ![owner[fd]] = "closed"]
        /\ owner[fd] \in Conns
    BY <1>2 DEF TypeOK, Close, Free
  <2>2. \A i \in 1..Len(backlog) : backlog[i] # owner[fd]
    BY <1>2 DEF SocketInv
  <2>3. \A g \in Fds \ {fd} : owner[g] # owner[fd]
    BY <1>2 DEF SocketInv
  <2>4. \A i \in 1..Len(backlog) : backlog[i] \in Conns
    BY DEF TypeOK
  <2>5. \A i \in 1..Len(backlog') : phase'[backlog'[i]] = "queued"
    BY <2>1, <2>2, <2>4 DEF TypeOK, SocketInv
  <2>6. \A g \in Fds : owner'[g] # None => phase'[owner'[g]] = "accepted"
    BY <2>1, <2>3 DEF TypeOK, SocketInv
  <2>7. \A f, g \in Fds : owner'[f] = owner'[g] /\ owner'[f] # None => f = g
    BY <2>1 DEF TypeOK, SocketInv
  <2> QED
    BY <2>5, <2>6, <2>7 DEF SocketInv
<1> QED
  BY <1>1, <1>2

LEMMA AcceptSocketInv ==
  ASSUME TypeOK, SocketInv, NEW fd \in Fds, Accept(fd)
  PROVE  SocketInv'
<1> DEFINE h == Head(backlog)
<1>1. backlog # <<>> /\ backlog \in Seq(Conns)
  BY DEF TypeOK, Accept, Acceptable
<1>2. h \in Conns /\ h = backlog[1] /\ 1 \in 1..Len(backlog) /\ h # None
  BY <1>1, NoneAssumption
<1>3. /\ owner' = [owner EXCEPT ![fd] = h]
      /\ phase' = [phase EXCEPT ![h] = "accepted"]
      /\ backlog' = Tail(backlog)
      /\ owner[fd] = None
  BY DEF Accept, LowestFree, Free
<1>4. /\ Len(backlog') = Len(backlog) - 1
      /\ \A i \in 1..Len(backlog') : i + 1 \in 1..Len(backlog) /\ backlog'[i] = backlog[i + 1]
  BY <1>1, <1>3
<1>5. phase[h] = "queued"
  BY <1>2 DEF SocketInv
<1>6. \A g \in Fds : owner[g] # h
  BY <1>2, <1>5 DEF SocketInv
<1>7. \A i \in 1..Len(backlog') : backlog'[i] # h
  BY <1>1, <1>2, <1>4 DEF SocketInv
<1> HIDE DEF h
<1>8. \A g \in Fds : owner'[g] # None => phase'[owner'[g]] = "accepted"
  BY <1>2, <1>3, <1>6 DEF TypeOK, SocketInv
<1>9. \A f, g \in Fds : owner'[f] = owner'[g] /\ owner'[f] # None => f = g
  BY <1>3, <1>6 DEF TypeOK, SocketInv
<1>10. \A i \in 1..Len(backlog') : phase'[backlog'[i]] = "queued"
  <2> SUFFICES ASSUME NEW i \in 1..Len(backlog') PROVE phase'[backlog'[i]] = "queued"
    OBVIOUS
  <2>1. backlog[i + 1] \in Conns /\ phase[backlog[i + 1]] = "queued"
    BY <1>1, <1>4 DEF SocketInv
  <2> QED
    BY <1>3, <1>4, <1>7, <2>1 DEF TypeOK
<1>11. \A i, j \in 1..Len(backlog') : backlog'[i] = backlog'[j] => i = j
  <2> SUFFICES ASSUME NEW i \in 1..Len(backlog'), NEW j \in 1..Len(backlog'),
                      backlog'[i] = backlog'[j]
               PROVE  i = j
    OBVIOUS
  <2>1. i + 1 = j + 1
    BY <1>4 DEF SocketInv
  <2> QED
    BY <1>1, <1>4, <2>1
<1> QED
  BY <1>8, <1>9, <1>10, <1>11 DEF SocketInv

LEMMA ConnectSocketInv ==
  ASSUME TypeOK, SocketInv, NEW c \in Conns, Connect(c)
  PROVE  SocketInv'
<1>1. /\ phase[c] = "new"
      /\ phase' = [phase EXCEPT ![c] = "queued"]
      /\ backlog' = Append(backlog, c)
      /\ owner' = owner
  BY DEF Connect
<1>2. /\ Len(backlog') = Len(backlog) + 1
      /\ backlog'[Len(backlog) + 1] = c
      /\ \A i \in 1..Len(backlog) : backlog'[i] = backlog[i]
      /\ Len(backlog) \in Nat
  BY <1>1 DEF TypeOK
<1>3. (\A fd \in Fds : owner[fd] # c) /\ \A i \in 1..Len(backlog) : backlog[i] # c
  BY <1>1, NoneAssumption DEF SocketInv
<1>4. \A i \in 1..Len(backlog') : i \in 1..Len(backlog) \/ i = Len(backlog) + 1
  BY <1>2
<1>5. \A i \in 1..Len(backlog') : phase'[backlog'[i]] = "queued"
  BY <1>1, <1>2, <1>3, <1>4 DEF TypeOK, SocketInv
<1>6. \A i, j \in 1..Len(backlog') : backlog'[i] = backlog'[j] => i = j
  BY <1>2, <1>3, <1>4 DEF SocketInv
<1>7. \A fd \in Fds : owner'[fd] # None => phase'[owner'[fd]] = "accepted"
  BY <1>1, <1>3 DEF TypeOK, SocketInv
<1> QED
  BY <1>1, <1>5, <1>6, <1>7 DEF SocketInv

LEMMA StopListeningSocketInv ==
  ASSUME TypeOK, SocketInv, StopListening
  PROVE  SocketInv'
<1>1. /\ backlog' = <<>> /\ owner' = owner
      /\ phase' = [c \in Conns |-> IF phase[c] = "queued" THEN "refused" ELSE phase[c]]
  BY DEF StopListening
<1>2. \A fd \in Fds : owner[fd] # None => owner[fd] \in Conns
  BY DEF TypeOK
<1> QED
  BY <1>1, <1>2 DEF SocketInv

LEMMA SocketInvNext ==
  ASSUME TypeInv, SocketInv, [Next]_vars
  PROVE  SocketInv'
<1> USE DEF clientVars, sockVars, exchangeVars, stopVars, serverVars
<1>1. TypeOK
  BY DEF TypeInv
<1>2. CASE UNCHANGED <<phase, owner, backlog>>
  BY <1>2 DEF SocketInv
<1>3. CASE ClientNext
  BY <1>1, <1>2, <1>3, ConnectSocketInv DEF ClientNext, Send, Finish, Reset, Stall, Drain
<1>4. CASE LoopNext
  <2>1. CASE RunSocket \/ RunListen \/ RunFail \/ RunStart \/ CheckRunning
    BY <1>2, <2>1 DEF RunSocket, RunListen, RunFail, RunStart, CheckRunning
  <2>2. CASE Poll \/ PollWake \/ PollExpire \/ PollInterrupted
    BY <1>2, <2>2 DEF Poll, PollReturns, Blocks, PollWake, PollExpire, PollInterrupted
  <2>3. ASSUME NEW fd \in Fds, Accept(fd) PROVE SocketInv'
    BY <1>1, <2>3, AcceptSocketInv
  <2>4. ASSUME NEW fd \in Fds, HandleClient(fd) PROVE SocketInv'
    <3>1. ASSUME Close(fd), backlog' = backlog PROVE SocketInv'
      BY <1>1, <3>1, CloseSocketInv
    <3>2. CASE ClientFailed(fd) \/ RecvFailed(fd) \/ RecvEof(fd)
      BY <3>1, <3>2 DEF ClientFailed, RecvFailed, RecvEof, Drop
    <3>3. CASE RecvAgain(fd) \/ KilledBySend(fd) \/ PerformUpgrade(fd) \/ PerformHttp(fd)
      BY <1>2, <3>3 DEF RecvAgain, Skip, KilledBySend, PerformUpgrade, PerformHttp
    <3>4. CASE PerformClose(fd)
      BY <3>1, <3>4 DEF PerformClose
    <3>5. CASE PerformFrame(fd)
      <4>1. DispatchWebSocket(fd, wsRoutes, out) /\ backlog' = backlog
        BY <3>5 DEF PerformFrame
      <4> QED
        BY <1>1, <1>2, <3>1, <4>1, DispatchOnlyCloses
    <3> QED
      BY <2>4, <3>2, <3>3, <3>4, <3>5 DEF HandleClient
  <2>5. CASE HandshakeSent
    <3>1. sd \in Fds /\ backlog' = backlog
      BY <2>5 DEF TypeInv, InFlight, HandshakeSent, Goto
    <3>2. PICK routes, o : DispatchWebSocket(sd, routes, o)
      BY <2>5 DEF HandshakeSent
    <3> QED
      BY <1>1, <1>2, <3>1, <3>2, CloseSocketInv, DispatchOnlyCloses
  <2>6. CASE \/ ListenDone \/ HandshakeFailed \/ KilledBySend101
              \/ ResponseSent \/ ResponseFailed \/ EraseClosed
    BY <1>2, <2>6 DEF ListenDone, HandshakeFailed, KilledBySend101, ResponseSent, ResponseFailed,
       EraseClosed
  <2> QED
    BY <1>4, <2>1, <2>2, <2>3, <2>4, <2>5, <2>6 DEF LoopNext
<1>5. CASE StopNext
  <2>1. CASE StopBegin \/ StopFlag
    BY <1>2, <2>1 DEF StopBegin, StopFlag
  <2>2. CASE StopListening
    BY <1>1, <2>2, StopListeningSocketInv
  <2>3. ASSUME NEW p \in WsPaths, StopRoute(p) PROVE SocketInv'
    BY <1>1, <1>2, <2>3, CloseSocketInv DEF StopRoute
  <2> QED
    BY <1>5, <2>1, <2>2, <2>3 DEF StopNext, StopSteps
<1>6. CASE UNCHANGED vars
  BY <1>2, <1>6 DEF vars
<1> QED
  BY <1>3, <1>4, <1>5, <1>6 DEF Next

LEMMA SocketInvariant == Spec => []SocketInv
<1>1. Init => SocketInv
  BY DEF Init, SocketInv
<1>2. TypeInv /\ SocketInv /\ [Next]_vars => SocketInv'
  BY SocketInvNext
<1> QED
  BY <1>1, <1>2, TypeInvariant, PTL DEF Spec

-----------------------------------------------------------------------------
(* A server without WebSocket routes.  Only handleClientSocket() closes
   descriptors, and it reports each of them; so between two turns client_list_
   holds open sockets only, poll() never reports POLLNVAL, and a reported event
   stays true until the loop comes to it. *)
PlainInv ==
  /\ pc # "handshake"
  /\ pc \notin {"listen", "clients", "respond"} => revents = Quiet
  /\ \A fd \in clientList : owner[fd] # None \/ fd \in closedSockets
  /\ \A fd \in Fds : revents[fd] # "NVAL"
  /\ EventsFresh

(* A step that only lets clients send more, or end their connections, makes no
   event stale. *)
LEMMA FreshClients ==
  ASSUME TypeOK, TypeOK', PlainInv,
         UNCHANGED <<pc, revents, clientList, closedSockets, owner, taken>>,
         \A c \in Conns : Len(sent[c]) <= Len(sent'[c]),
         \A c \in Conns : peer[c] # "open" => peer'[c] # "open",
         \A c \in Conns : peer[c] = "rst" => peer'[c] = "rst"
  PROVE  PlainInv'
<1>1. \A c \in Conns : taken[c] \in Nat /\ Len(sent[c]) \in Nat /\ Len(sent'[c]) \in Nat
  BY SMTT(30) DEF TypeOK
<1>2. \A fd \in Fds : owner[fd] # None => owner[fd] \in Conns
  BY DEF TypeOK
<1>3. EventsFresh'
  BY <1>1, <1>2 DEF PlainInv, EventsFresh, Unread
<1> QED
  BY <1>3 DEF PlainInv, Quiet

(* Handling fd leaves the events of the other descriptors alone: they belong
   to other connections. *)
LEMMA FreshOthers ==
  ASSUME TypeOK, SocketInv, PlainInv, NEW fd \in Fds,
         revents' = [revents EXCEPT ![fd] = "NONE"],
         \A g \in Fds \ {fd} : owner'[g] = owner[g],
         \A c \in Conns : c # owner[fd] => taken'[c] = taken[c],
         UNCHANGED clientVars
  PROVE  EventsFresh' /\ \A g \in Fds : revents'[g] # "NVAL"
<1>1. \A g \in Fds : revents'[g] # "NONE" => g # fd /\ revents'[g] = revents[g]
  BY DEF TypeOK
<1>2. \A g \in Fds : g # fd /\ owner[g] # None => owner[g] # owner[fd] /\ owner[g] \in Conns
  BY DEF TypeOK, SocketInv
<1> QED
  BY <1>1, <1>2 DEF PlainInv, EventsFresh, Unread, clientVars

LEMMA PlainDrop ==
  ASSUME TypeOK, SocketInv, PlainInv, NEW fd \in Fds, pc = "clients", Drop(fd)
  PROVE  PlainInv'
<1>1. \A g \in Fds \ {fd} : owner'[g] = owner[g]
  BY DEF TypeOK, Drop, Close
<1>2. EventsFresh' /\ \A g \in Fds : revents'[g] # "NVAL"
  BY <1>1, FreshOthers DEF Drop, exchangeVars
<1>3. pc' = "clients" /\ clientList' = clientList /\ closedSockets' = closedSockets \cup {fd}
  BY DEF Drop
<1>4. \A g \in clientList' : owner'[g] # None \/ g \in closedSockets'
  BY <1>1, <1>3 DEF PlainInv, TypeOK
<1> QED
  BY <1>2, <1>3, <1>4 DEF PlainInv

LEMMA PlainRecv ==
  ASSUME TypeOK, SocketInv, PlainInv, NEW fd \in Fds, Recv(fd), UNCHANGED clientVars,
         pc' \in {"clients", "respond"}, UNCHANGED <<owner, clientList, closedSockets>>
  PROVE  PlainInv'
<1>1. \A c \in Conns : c # owner[fd] => taken'[c] = taken[c]
  BY DEF TypeOK, Recv
<1>2. EventsFresh' /\ \A g \in Fds : revents'[g] # "NVAL"
  BY <1>1, FreshOthers DEF Recv
<1> QED
  BY <1>2 DEF PlainInv

LEMMA PlainPoll ==
  ASSUME TypeOK, ListInv, PlainInv, pc \in {"poll", "blocked"}, PollReturns
  PROVE  PlainInv'
<1> USE DEF clientVars, sockVars, exchangeVars
<1>1. closedSockets = {} /\ \A fd \in clientList : owner[fd] # None
  BY DEF ListInv, PlainInv
<1>2. /\ pc' = "listen" /\ revents' = [fd \in Fds |-> Revents(fd)]
      /\ UNCHANGED <<owner, clientList, closedSockets, taken, sent, peer>>
  BY DEF PollReturns
<1>3. \A fd \in Fds : revents'[fd] # "NVAL"
  BY <1>1, <1>2 DEF Revents
<1>4. EventsFresh'
  BY <1>1, <1>2 DEF Revents, EventsFresh, Unread
<1> QED
  BY <1>1, <1>2, <1>3, <1>4 DEF PlainInv

LEMMA PlainAccept ==
  ASSUME TypeOK, PlainInv, NEW fd \in Fds, Accept(fd)
  PROVE  PlainInv'
<1>1. /\ pc = "listen" /\ pc' = "listen" /\ owner[fd] = None
      /\ clientList' = clientList \cup {fd}
      /\ owner' = [owner EXCEPT ![fd] = Head(backlog)]
      /\ Head(backlog) # None
      /\ UNCHANGED <<taken, sent, peer, revents, closedSockets>>
  BY NoneAssumption DEF TypeOK, Accept, Acceptable, LowestFree, Free, Goto, clientVars, exchangeVars
<1>2. revents[fd] = "NONE"
  BY <1>1 DEF PlainInv, EventsFresh
<1>3. EventsFresh'
  BY <1>1, <1>2 DEF TypeOK, PlainInv, EventsFresh, Unread
<1>4. \A g \in clientList' : owner'[g] # None \/ g \in closedSockets'
  BY <1>1 DEF TypeOK, PlainInv
<1> QED
  BY <1>1, <1>3, <1>4 DEF PlainInv

LEMMA PlainClients ==
  ASSUME TypeOK, TypeOK', PlainInv, ClientNext
  PROVE  PlainInv'
<1>1. UNCHANGED <<pc, revents, clientList, closedSockets, owner, taken>>
  BY DEF ClientNext, Connect, Send, Finish, Reset, Stall, Drain, sockVars, serverVars, exchangeVars
<1>2. PICK c \in Conns : \/ Connect(c) \/ (\E r \in Requests : Send(c, r)) \/ Finish(c)
                         \/ Reset(c) \/ Stall(c) \/ Drain(c)
  BY DEF ClientNext
<1>3. \A d \in Conns : Len(sent[d]) <= Len(sent'[d])
  <2>1. sent' = sent \/ \E r \in Requests : sent' = [sent EXCEPT ![c] = Append(@, r)]
    BY <1>2 DEF Connect, Send, Finish, Reset, Stall, Drain, clientVars
  <2>2. \A d \in Conns : sent[d] \in Seq(Requests) /\ Len(sent[d]) \in Nat
    BY DEF TypeOK
  <2>3. ASSUME NEW r \in Requests, sent' = [sent EXCEPT ![c] = Append(@, r)]
        PROVE  \A d \in Conns : Len(sent[d]) <= Len(sent'[d])
    BY <2>2, <2>3 DEF TypeOK
  <2> QED
    BY <2>1, <2>2, <2>3
<1>4. \A d \in Conns : /\ peer[d] # "open" => peer'[d] # "open"
                       /\ peer[d] = "rst" => peer'[d] = "rst"
  <2>1. \/ peer' = peer
        \/ peer[c] = "open" /\ peer' = [peer EXCEPT ![c] = "fin"]
        \/ peer' = [peer EXCEPT ![c] = "rst"]
    BY <1>2 DEF Connect, Send, Finish, Reset, Stall, Drain, clientVars
  <2>2. \A d \in Conns : peer'[d] = peer[d] \/ peer'[d] = "rst" \/ (peer[d] = "open" /\ peer'[d] = "fin")
    BY <2>1 DEF TypeOK
  <2> QED
    BY <2>2
<1> QED
  BY <1>1, <1>3, <1>4, FreshClients

LEMMA PlainLoop ==
  ASSUME WsPaths = {}, TypeInv, ListInv, SocketInv, PlainInv, LoopNext
  PROVE  PlainInv'
<1> USE DEF clientVars, sockVars, exchangeVars, stopVars, serverVars
<1>1. TypeOK
  BY DEF TypeInv
<1>2. CASE /\ UNCHANGED <<revents, clientList, closedSockets, owner, taken, sent, peer>>
           /\ pc' # "handshake"
           /\ pc' \notin {"listen", "clients", "respond"} => revents = Quiet
  BY <1>2 DEF PlainInv, EventsFresh, Unread, Quiet
<1>3. CASE RunSocket \/ RunListen \/ RunFail \/ RunStart \/ CheckRunning
  BY <1>2, <1>3 DEF PlainInv, RunSocket, RunListen, RunFail, RunStart, CheckRunning, Goto
<1>4. CASE Poll \/ PollWake \/ PollExpire \/ PollInterrupted
  BY <1>1, <1>2, <1>4, PlainPoll DEF PlainInv, Poll, Blocks, PollWake, PollExpire,
     PollInterrupted, Goto
<1>5. ASSUME NEW fd \in Fds, Accept(fd) PROVE PlainInv'
  BY <1>1, <1>5, PlainAccept
<1>6. ASSUME NEW fd \in Fds, HandleClient(fd) PROVE PlainInv'
  <2>1. ~WebSockets
    BY DEF WebSockets
  <2>2. CASE ClientFailed(fd) \/ RecvFailed(fd) \/ RecvEof(fd)
    BY <1>1, <2>2, PlainDrop DEF ClientFailed, RecvFailed, RecvEof, AtEof, Readable, Handling
  <2>3. CASE RecvAgain(fd)
    <3>1. pc = "clients" /\ pc' = "clients"
          /\ UNCHANGED <<clientList, closedSockets, owner, taken, sent, peer, stalled>>
          /\ revents' = [revents EXCEPT ![fd] = "NONE"]
      BY <2>3 DEF RecvAgain, Readable, Handling, Skip
    <3>2. EventsFresh' /\ \A g \in Fds : revents'[g] # "NVAL"
      BY <1>1, <3>1, FreshOthers
    <3> QED
      BY <3>1, <3>2 DEF PlainInv
  <2>4. CASE PerformHttp(fd)
    <3>1. pc' \in {"clients", "respond"} /\ Recv(fd)
      BY <2>4 DEF PerformHttp, Recv, Readable, Handling
    <3> QED
      BY <1>1, <2>4, <3>1, PlainRecv DEF PerformHttp
  <2> QED
    BY <1>6, <2>1, <2>2, <2>3, <2>4 DEF HandleClient, PerformClose, PerformFrame, KilledBySend,
       PerformUpgrade
<1>7. CASE ListenDone \/ ResponseSent \/ ResponseFailed
  BY <1>2, <1>7 DEF ListenDone, ResponseSent, ResponseFailed, Goto
<1>8. CASE HandshakeSent \/ HandshakeFailed \/ KilledBySend101
  BY <1>8 DEF PlainInv, HandshakeSent, HandshakeFailed, KilledBySend101, Goto
<1>9. CASE EraseClosed
  <2>1. pc' = "check" /\ revents = Quiet /\ revents' = Quiet
        /\ UNCHANGED <<owner, taken, sent, peer>> /\ clientList' = clientList \ closedSockets
    BY <1>9 DEF EraseClosed, Goto
  <2> QED
    BY <2>1 DEF PlainInv, EventsFresh, Quiet
<1> QED
  BY <1>3, <1>4, <1>5, <1>6, <1>7, <1>8, <1>9 DEF LoopNext

LEMMA PlainStop ==
  ASSUME WsPaths = {}, PlainInv, StopNext
  PROVE  PlainInv'
<1>1. StopBegin \/ StopListening \/ StopFlag
  BY DEF StopNext, StopSteps
<1>2. UNCHANGED <<pc, revents, clientList, closedSockets, owner, taken, sent, peer>>
  BY <1>1 DEF StopBegin, StopListening, StopFlag, clientVars, sockVars, exchangeVars, serverVars
<1> QED
  BY <1>2 DEF PlainInv, EventsFresh, Unread, Quiet

LEMMA PlainInvNext ==
  ASSUME WsPaths = {}, TypeInv, TypeInv', ListInv, SocketInv, PlainInv, [Next]_vars
  PROVE  PlainInv'
<1>1. CASE UNCHANGED vars
  BY <1>1 DEF vars, clientVars, sockVars, exchangeVars, PlainInv, EventsFresh, Unread, Quiet
<1> QED
  BY <1>1, PlainClients, PlainLoop, PlainStop DEF Next, TypeInv

LEMMA PlainInvariant ==
  ASSUME WsPaths = {}
  PROVE  Spec => []PlainInv
<1>1. Init => PlainInv
  BY DEF Init, PlainInv, EventsFresh, Quiet
<1>2. TypeInv /\ TypeInv' /\ ListInv /\ SocketInv /\ PlainInv /\ [Next]_vars => PlainInv'
  BY PlainInvNext
<1> QED
  BY <1>1, <1>2, TypeInvariant, ListInvariant, SocketInvariant, PTL DEF Spec

(* A server without WebSocket routes polls exactly its open sockets: what the
   comment on the removal of closed sockets (server.cc:143) intends. *)
THEOREM PlainListMatches ==
  ASSUME WsPaths = {}
  PROVE  Spec => []ListMatchesSockets
<1>1. TypeInv /\ ListInv /\ PlainInv => ListMatchesSockets
  BY DEF TypeInv, TypeOK, ListInv, OpenSocketsListed, PlainInv, ListMatchesSockets
<1> QED
  BY <1>1, TypeInvariant, ListInvariant, PlainInvariant, PTL

(* Without WebSocket routes, no event of a batch goes stale before the loop
   handles it, whatever it accepts, closes and answers in between. *)
THEOREM PlainEventsFresh ==
  ASSUME WsPaths = {}
  PROVE  Spec => []EventsFresh
<1>1. PlainInv => EventsFresh
  BY DEF PlainInv
<1> QED
  BY <1>1, PlainInvariant, PTL

LEMMA PlainCloseEnded ==
  ASSUME WsPaths = {}, TypeInv, PlainInv, Next, NEW c \in Conns,
         phase[c] = "accepted", phase'[c] = "closed"
  PROVE  peer[c] # "open"
<1> USE DEF clientVars, sockVars, exchangeVars, stopVars, serverVars
<1>1. TypeOK
  BY DEF TypeInv
<1>2. phase' # phase
  OBVIOUS
<1>3. ~ClientNext
  <2>1. ASSUME NEW d \in Conns, Connect(d) PROVE FALSE
    BY <1>1, <2>1 DEF Connect, TypeOK
  <2> QED
    BY <1>2, <2>1 DEF ClientNext, Send, Finish, Reset, Stall, Drain
<1>4. ~StopNext
  <2>1. ASSUME StopListening PROVE FALSE
    BY <2>1 DEF StopListening
  <2> QED
    BY <1>2, <2>1 DEF StopNext, StopSteps, StopBegin, StopFlag
<1>5. ASSUME NEW fd \in Fds, Accept(fd) PROVE FALSE
  BY <1>1, <1>5 DEF Accept, TypeOK
<1>6. PICK fd \in Fds : HandleClient(fd)
  BY <1>2, <1>3, <1>4, <1>5 DEF Next, LoopNext, RunSocket, RunListen, RunFail, RunStart,
     CheckRunning, Poll, PollReturns, Blocks, PollWake, PollExpire, PollInterrupted, ListenDone,
     HandshakeSent, HandshakeFailed, KilledBySend101, ResponseSent, ResponseFailed, EraseClosed,
     PlainInv, Goto
<1>7. ClientFailed(fd) \/ RecvFailed(fd) \/ RecvEof(fd)
  BY <1>2, <1>6 DEF HandleClient, RecvAgain, Skip, PerformClose, PerformFrame, KilledBySend,
     PerformUpgrade, PerformHttp, WebSockets
<1>8. Close(fd) /\ revents[fd] # "NONE" /\ owner[fd] # None
  BY <1>7 DEF ClientFailed, RecvFailed, RecvEof, AtEof, Drop, Readable, Handling, PlainInv,
     EventsFresh
<1>9. owner[fd] = c
  BY <1>1, <1>8 DEF Close, Free, TypeOK
<1>10. CASE ClientFailed(fd)
  BY <1>8, <1>9, <1>10 DEF ClientFailed, PlainInv, EventsFresh
<1>11. CASE RecvFailed(fd) \/ RecvEof(fd)
  BY <1>8, <1>9, <1>11 DEF RecvFailed, RecvEof, AtEof, Free
<1> QED
  BY <1>7, <1>10, <1>11

(* A server without WebSocket routes never ends a connection whose client has
   not ended it: neither an accept that reuses a descriptor, nor a failed
   read, nor stop() can hit somebody else's connection. *)
THEOREM PlainOnlyEndedClosed ==
  ASSUME WsPaths = {}
  PROVE  Spec => OnlyEndedClosed
<1> DEFINE A == \A c \in Conns : phase[c] = "accepted" /\ phase'[c] = "closed" => peer[c] # "open"
<1>1. TypeInv /\ PlainInv /\ [Next]_vars => [A]_vars
  BY PlainCloseEnded
<1>2. Spec => [][A]_vars
  BY <1>1, TypeInvariant, PlainInvariant, PTL DEF Spec
<1> QED
  BY <1>2 DEF OnlyEndedClosed

-----------------------------------------------------------------------------
(* The route of a path and its subscriber, with any routes.  A connection asks for
   one upgrade at most, so its handshake is the only step that gives a route to it;
   after that, the descriptor in the route is its own until it is closed. *)

OneUpgrade ==
  \A c \in Conns : \A i, j \in 1..Len(sent[c]) :
    sent[c][i].kind = "upgrade" /\ sent[c][j].kind = "upgrade" => i = j

UpgradeInv ==
  /\ OneUpgrade
  /\ \A c \in Conns : upgraded[c] # NoPath => \E i \in 1..taken[c] : sent[c][i].kind = "upgrade"
  /\ pc = "handshake" => upgraded[rd] = NoPath

NewPlain == \A c \in Conns : phase[c] \in {"new", "queued"} => upgraded[c] = NoPath

(* The route of a sole subscriber's path holds its descriptor. *)
SoleSubscriberHeld ==
  \A c \in Conns, p \in WsPaths :
    /\ phase[c] = "accepted"
    /\ upgraded[c] = p
    /\ \A d \in Conns \ {c} : upgraded[d] # p
    => wsRoutes[p] \in Fds /\ owner[wsRoutes[p]] = c

(* A number in a route is a subscriber's own, or one that it has left behind. *)
RoutesTaken ==
  \A p \in WsPaths : wsRoutes[p] # NoFd =>
    \E d \in Conns : upgraded[d] = p /\ (phase[d] = "closed" \/ owner[wsRoutes[p]] = d)

RouteInv == UpgradeInv /\ NewPlain /\ SoleSubscriberHeld /\ RoutesTaken /\ DispatchedToOwnRoute

(* What every step does to the connections: one is accepted only from the queue, gets
   its descriptor then, and keeps it until it is closed. *)
KeepsAccepted ==
  \A c \in Conns :
    /\ phase'[c] \in {"new", "queued"} => phase[c] \in {"new", "queued"}
    /\ phase'[c] = "accepted" => phase[c] \in {"queued", "accepted"}
    /\ phase'[c] = "accepted" => \A fd \in Fds : owner[fd] = c => owner'[fd] = c
    /\ \A fd \in Fds : owner'[fd] = c /\ owner[fd] # c => phase[c] = "queued"
    /\ phase[c] \in {"accepted", "closed"} => phase'[c] \in {"accepted", "closed"}

LEMMA SameKeeps ==
  ASSUME UNCHANGED <<phase, owner>>
  PROVE  KeepsAccepted
  BY DEF KeepsAccepted

LEMMA CloseKeeps ==
  ASSUME TypeOK, NEW fd \in Fds, Close(fd)
  PROVE  KeepsAccepted
<1>1. CASE owner[fd] = None
  <2>1. phase' = phase /\ \A g \in Fds : owner'[g] = owner[g]
    BY <1>1 DEF TypeOK, Close, Free
  <2> QED
    BY <2>1 DEF KeepsAccepted
<1>2. CASE owner[fd] # None
  <2>1. PICK d \in Conns : d = owner[fd]
    BY <1>2 DEF TypeOK
  <2>2. /\ phase' = [phase EXCEPT ![d] = "closed"]
        /\ owner'[fd] = None /\ \A g \in Fds : g # fd => owner'[g] = owner[g]
    BY <1>2, <2>1 DEF TypeOK, Close, Free
  <2>3. \A c \in Conns : IF c = d THEN phase'[c] = "closed" ELSE phase'[c] = phase[c]
    BY <2>2 DEF TypeOK
  <2> QED
    BY <2>1, <2>2, <2>3, NoneAssumption DEF KeepsAccepted
<1> QED
  BY <1>1, <1>2

LEMMA AcceptKeeps ==
  ASSUME TypeOK, SocketInv, NEW fd \in Fds, Accept(fd)
  PROVE  KeepsAccepted
<1>1. PICK h \in Conns : h = Head(backlog) /\ phase[h] = "queued"
  BY DEF TypeOK, SocketInv, Accept, Acceptable
<1>2. /\ phase' = [phase EXCEPT ![h] = "accepted"] /\ owner' = [owner EXCEPT ![fd] = h]
      /\ owner[fd] = None
  BY <1>1 DEF Accept, LowestFree, Free
<1>3. \A c \in Conns : IF c = h THEN phase[c] = "queued" ELSE phase'[c] = phase[c]
  BY <1>1, <1>2 DEF TypeOK
<1>4. \A c \in Conns, g \in Fds : owner[g] = c => owner'[g] = c
  BY <1>2, NoneAssumption DEF TypeOK
<1>5. \A c \in Conns, g \in Fds : owner'[g] = c /\ owner[g] # c => phase[c] = "queued"
  BY <1>1, <1>2 DEF TypeOK
<1> QED
  BY <1>3, <1>4, <1>5 DEF KeepsAccepted

LEMMA NextKeeps ==
  ASSUME TypeInv, SocketInv, [Next]_vars
  PROVE  KeepsAccepted
<1> USE DEF clientVars, sockVars, exchangeVars, stopVars, serverVars
<1>1. TypeOK
  BY DEF TypeInv
<1>2. CASE ClientNext
  <2>1. PICK c \in Conns : \/ Connect(c) \/ (\E r \in Requests : Send(c, r)) \/ Finish(c)
                           \/ Reset(c) \/ Stall(c) \/ Drain(c)
    BY <1>2 DEF ClientNext
  <2>2. CASE Connect(c)
    BY <1>1, <2>2 DEF Connect, KeepsAccepted, TypeOK
  <2>3. ASSUME NEW r \in Requests, Send(c, r) PROVE KeepsAccepted
    BY <2>3, SameKeeps DEF Send
  <2>4. CASE Finish(c) \/ Reset(c) \/ Stall(c) \/ Drain(c)
    BY <2>4, SameKeeps DEF Finish, Reset, Stall, Drain
  <2> QED
    BY <2>1, <2>2, <2>3, <2>4
<1>3. CASE LoopNext
  <2>1. CASE RunSocket \/ RunListen \/ RunFail \/ RunStart \/ CheckRunning
    BY <2>1, SameKeeps DEF RunSocket, RunListen, RunFail, RunStart, CheckRunning
  <2>2. CASE Poll \/ PollWake \/ PollExpire \/ PollInterrupted
    BY <2>2, SameKeeps DEF Poll, PollReturns, Blocks, PollWake, PollExpire, PollInterrupted
  <2>3. CASE \/ ListenDone \/ HandshakeFailed \/ KilledBySend101
              \/ ResponseSent \/ ResponseFailed \/ EraseClosed
    BY <2>3, SameKeeps DEF ListenDone, HandshakeFailed, KilledBySend101, ResponseSent,
       ResponseFailed, EraseClosed
  <2>4. ASSUME NEW fd \in Fds, Accept(fd) PROVE KeepsAccepted
    BY <1>1, <2>4, AcceptKeeps
  <2>5. ASSUME NEW fd \in Fds, HandleClient(fd) PROVE KeepsAccepted
    <3>1. CASE ClientFailed(fd) \/ RecvFailed(fd) \/ RecvEof(fd) \/ PerformClose(fd)
      BY <1>1, <3>1, CloseKeeps DEF ClientFailed, RecvFailed, RecvEof, PerformClose, Drop
    <3>2. CASE RecvAgain(fd) \/ PerformUpgrade(fd) \/ KilledBySend(fd) \/ PerformHttp(fd)
      BY <3>2, SameKeeps DEF RecvAgain, Skip, PerformUpgrade, KilledBySend, PerformHttp
    <3>3. CASE PerformFrame(fd)
      BY <1>1, <3>3, DispatchOnlyCloses, SameKeeps, CloseKeeps DEF PerformFrame
    <3> QED
      BY <2>5, <3>1, <3>2, <3>3 DEF HandleClient
  <2>6. CASE HandshakeSent
    <3>1. PICK routes, o : DispatchWebSocket(sd, routes, o)
      BY <2>6 DEF HandshakeSent
    <3>2. sd \in Fds
      BY <2>6 DEF HandshakeSent, Goto, TypeInv, InFlight
    <3> QED
      BY <1>1, <3>1, <3>2, DispatchOnlyCloses, SameKeeps, CloseKeeps
  <2> QED
    BY <1>3, <2>1, <2>2, <2>3, <2>4, <2>5, <2>6 DEF LoopNext
<1>4. CASE StopNext
  <2>1. CASE StopBegin \/ StopFlag
    BY <2>1, SameKeeps DEF StopBegin, StopFlag
  <2>2. CASE StopListening
    BY <2>2 DEF StopListening, KeepsAccepted
  <2>3. ASSUME NEW p \in WsPaths, StopRoute(p) PROVE KeepsAccepted
    BY <1>1, <2>3, SameKeeps, CloseKeeps DEF StopRoute
  <2> QED
    BY <1>4, <2>1, <2>2, <2>3 DEF StopNext, StopSteps
<1>5. CASE UNCHANGED vars
  BY <1>5, SameKeeps DEF vars
<1> QED
  BY <1>2, <1>3, <1>4, <1>5 DEF Next

(* A connection that has its descriptor keeps it until it is closed. *)
LEMMA HolderKept ==
  ASSUME SocketInv, KeepsAccepted, NEW d \in Conns, NEW fd \in Fds,
         phase[d] = "closed" \/ owner[fd] = d
  PROVE  phase'[d] = "closed" \/ owner'[fd] = d
<1>1. owner[fd] = d => phase[d] = "accepted"
  BY NoneAssumption DEF SocketInv
<1> QED
  BY <1>1 DEF KeepsAccepted

LEMMA RoutedKept ==
  ASSUME TypeOK, SocketInv, NewPlain, SoleSubscriberHeld, RoutesTaken, KeepsAccepted,
         UNCHANGED <<wsRoutes, upgraded>>
  PROVE  NewPlain' /\ SoleSubscriberHeld' /\ RoutesTaken'
<1>1. NewPlain'
  BY DEF NewPlain, KeepsAccepted
<1>2. ASSUME NEW c \in Conns, NEW p \in WsPaths, phase'[c] = "accepted", upgraded[c] = p,
             \A d \in Conns \ {c} : upgraded[d] # p
      PROVE  wsRoutes[p] \in Fds /\ owner'[wsRoutes[p]] = c
  <2>1. p # NoPath
    BY PathsAssumption DEF NoPath
  <2>2. phase[c] = "accepted"
    BY <1>2, <2>1 DEF NewPlain, KeepsAccepted
  <2>3. wsRoutes[p] \in Fds /\ owner[wsRoutes[p]] = c
    BY <1>2, <2>2 DEF SoleSubscriberHeld
  <2> QED
    BY <1>2, <2>3 DEF KeepsAccepted
<1>3. SoleSubscriberHeld'
  BY <1>2 DEF SoleSubscriberHeld
<1>4. ASSUME NEW p \in WsPaths, wsRoutes[p] # NoFd
      PROVE  \E d \in Conns : upgraded[d] = p /\ (phase'[d] = "closed" \/ owner'[wsRoutes[p]] = d)
  <2>1. PICK d \in Conns : upgraded[d] = p /\ (phase[d] = "closed" \/ owner[wsRoutes[p]] = d)
    BY <1>4 DEF RoutesTaken
  <2>2. wsRoutes[p] \in Fds
    BY <1>4 DEF TypeOK
  <2>3. phase'[d] = "closed" \/ owner'[wsRoutes[p]] = d
    BY <2>1, <2>2, HolderKept
  <2> QED
    BY <2>1, <2>3
<1>5. RoutesTaken'
  BY <1>4 DEF RoutesTaken
<1> QED
  BY <1>1, <1>3, <1>5

(* What is dispatched in this step goes to the path the connection upgraded on, or to
   one whose subscriber has left its number in the route. *)
DispatchGrows ==
  \A c \in Conns : \A p \in dispatched'[c] \ dispatched[c] : upgraded'[c] = p \/ LeftBehind(p)

LEMMA StraysKept ==
  ASSUME SocketInv, DispatchedToOwnRoute, KeepsAccepted, DispatchGrows,
         \A c \in Conns : upgraded[c] # NoPath => upgraded'[c] = upgraded[c],
         TypeOK'
  PROVE  DispatchedToOwnRoute'
<1>1. ASSUME NEW p, p # NoPath, LeftBehind(p)
      PROVE  LeftBehind(p)'
  BY <1>1 DEF LeftBehind, KeepsAccepted
<1>2. ASSUME NEW c \in Conns, NEW p \in dispatched'[c], p # NoPath
      PROVE  upgraded'[c] = p \/ LeftBehind(p)'
  <2>1. CASE p \in dispatched[c]
    BY <1>1, <1>2, <2>1 DEF DispatchedToOwnRoute
  <2>2. CASE p \notin dispatched[c]
    BY <1>1, <1>2, <2>2 DEF DispatchGrows
  <2> QED
    BY <2>1, <2>2
<1>3. \A c \in Conns : \A p \in dispatched'[c] : p # NoPath
  BY PathsAssumption DEF TypeOK, NoPath
<1> QED
  BY <1>2, <1>3 DEF DispatchedToOwnRoute

(* The route that is found holds the descriptor: its subscriber is the connection
   behind it, or gone. *)
LEMMA DispatchStrays ==
  ASSUME SocketInv, TypeOK, RoutesTaken, NEW fd \in Fds, NEW p \in WsPaths, RouteOf(fd, wsRoutes, p)
  PROVE  upgraded[owner[fd]] = p \/ LeftBehind(p)
<1>1. wsRoutes[p] = fd /\ fd # NoFd
  BY FdsAssumption DEF RouteOf, NoFd
<1>2. PICK d \in Conns : upgraded[d] = p /\ (phase[d] = "closed" \/ owner[fd] = d)
  BY <1>1 DEF RoutesTaken
<1> QED
  BY <1>2 DEF LeftBehind

LEMMA UpgradeKept ==
  ASSUME TypeOK, TypeOK', UpgradeInv, UNCHANGED <<sent, upgraded>>,
         \A c \in Conns : taken[c] <= taken'[c],
         pc' = "handshake" => pc = "handshake" /\ rd' = rd
  PROVE  UpgradeInv'
<1>1. \A c \in Conns : taken[c] \in Nat /\ taken'[c] \in Nat
  BY DEF TypeOK
<1>2. \A c \in Conns, i \in Nat : i \in 1..taken[c] => i \in 1..taken'[c]
  BY <1>1
<1>3. \A c \in Conns : upgraded'[c] # NoPath => \E i \in 1..taken'[c] : sent'[c][i].kind = "upgrade"
  BY <1>1, <1>2 DEF UpgradeInv
<1> QED
  BY <1>3 DEF UpgradeInv, OneUpgrade

(* A client asks for one upgrade. *)
LEMMA SendUpgrade ==
  ASSUME TypeInv, UpgradeInv, NEW c \in Conns, NEW r \in Requests, Send(c, r)
  PROVE  UpgradeInv'
<1>1. /\ sent' = [sent EXCEPT ![c] = Append(sent[c], r)]
      /\ UNCHANGED <<taken, upgraded, pc, rd>>
      /\ sent \in [Conns -> Seq(Requests)] /\ taken \in [Conns -> Nat]
      /\ \A d \in Conns : taken[d] <= Len(sent[d])
  BY DEF Send, serverVars, exchangeVars, TypeInv, TypeOK, InFlight
<1>2. r.kind = "upgrade" => \A i \in 1..Len(sent[c]) : sent[c][i].kind # "upgrade"
  BY DEF Send, InProtocol
<1>3. PICK s \in Seq(Requests) : s = sent[c]
  BY <1>1
<1>4. PICK t \in Seq(Requests) : t = sent'[c] /\ t = Append(s, r)
  <2>1. Append(s, r) \in Seq(Requests)
    OBVIOUS
  <2> QED
    BY <1>1, <1>3, <2>1
<1>5. /\ Len(t) = Len(s) + 1 /\ t[Len(s) + 1] = r /\ \A i \in 1..Len(s) : t[i] = s[i]
      /\ \A i \in 1..Len(t) : i \in 1..Len(s) \/ i = Len(s) + 1
  BY <1>4
<1>6. \A d \in Conns : d # c => sent'[d] = sent[d]
  BY <1>1
<1>7. OneUpgrade'
  <2>1. ASSUME NEW i \in 1..Len(t), NEW j \in 1..Len(t),
               t[i].kind = "upgrade", t[j].kind = "upgrade"
        PROVE  i = j
    BY <1>2, <1>3, <1>5, <2>1 DEF UpgradeInv, OneUpgrade
  <2>2. ASSUME NEW d \in Conns, NEW i \in 1..Len(sent'[d]), NEW j \in 1..Len(sent'[d]),
               sent'[d][i].kind = "upgrade", sent'[d][j].kind = "upgrade"
        PROVE  i = j
    BY <1>4, <1>6, <2>1, <2>2 DEF UpgradeInv, OneUpgrade
  <2> QED
    BY <2>2 DEF OneUpgrade
<1>8. \A d \in Conns : \A i \in 1..taken[d] : sent'[d][i] = sent[d][i]
  BY <1>1, <1>3, <1>4, <1>5, <1>6
<1>9. \A d \in Conns : upgraded'[d] # NoPath => \E i \in 1..taken'[d] : sent'[d][i].kind = "upgrade"
  <2> SUFFICES ASSUME NEW d \in Conns, upgraded[d] # NoPath
               PROVE  \E i \in 1..taken[d] : sent'[d][i].kind = "upgrade"
    BY <1>1
  <2>1. PICK i \in 1..taken[d] : sent[d][i].kind = "upgrade"
    BY DEF UpgradeInv
  <2> QED
    BY <1>8, <2>1
<1>10. pc' = "handshake" => upgraded'[rd'] = NoPath
  BY <1>1 DEF UpgradeInv
<1> QED
  BY <1>7, <1>9, <1>10 DEF UpgradeInv

LEMMA PerformUpgradeOnce ==
  ASSUME TypeInv, UpgradeInv, NEW fd \in Fds, PerformUpgrade(fd)
  PROVE  UpgradeInv'
<1>1. PICK c \in Conns : c = owner[fd]
  BY RecvType DEF PerformUpgrade
<1>2. /\ taken' = [taken EXCEPT ![c] = @ + 1] /\ rd' = c /\ taken[c] < Len(sent[c])
      /\ sent[c][taken[c] + 1].kind = "upgrade" /\ UNCHANGED <<sent, upgraded>>
  BY <1>1 DEF PerformUpgrade, Recv, Unread, Next1, clientVars
<1>3. /\ taken \in [Conns -> Nat] /\ \A d \in Conns : taken[d] \in Nat /\ Len(sent[d]) \in Nat
  BY DEF TypeInv, TypeOK
<1>4. upgraded[c] = NoPath
  <2> SUFFICES ASSUME upgraded[c] # NoPath
               PROVE  FALSE
    OBVIOUS
  <2>1. PICK i \in 1..taken[c] : sent[c][i].kind = "upgrade"
    BY DEF UpgradeInv
  <2>2. i \in 1..Len(sent[c]) /\ taken[c] + 1 \in 1..Len(sent[c]) /\ i # taken[c] + 1
    BY <1>2, <1>3
  <2> QED
    BY <1>2, <2>1, <2>2 DEF UpgradeInv, OneUpgrade
<1>5. \A d \in Conns : upgraded'[d] # NoPath => \E i \in 1..taken'[d] : sent'[d][i].kind = "upgrade"
  <2>1. \A d \in Conns : upgraded[d] # NoPath => d # c /\ taken'[d] = taken[d]
    BY <1>2, <1>3, <1>4
  <2> QED
    BY <1>2, <2>1 DEF UpgradeInv
<1> QED
  BY <1>2, <1>4, <1>5 DEF UpgradeInv, OneUpgrade

(* The handshake gives the route to the connection it is with, which had none. *)
LEMMA NoPathNotPath == \A p \in WsPaths : p # NoPath /\ p \in Nat
  BY PathsAssumption DEF NoPath

LEMMA NoFdNotFd == NoFd \notin Fds
  BY FdsAssumption DEF NoFd

LEMMA HandshakeRoutes ==
  ASSUME TypeInv, TypeOK', SocketInv, RouteInv, HandshakeSent
  PROVE  RouteInv'
<1>1. PICK c \in Conns : c = rd /\ c = owner[sd] /\ sd \in Fds
  BY DEF HandshakeSent, Goto, Delivered, TypeInv, InFlight
<1>2. PICK q : q = sent[c][taken[c]].path
  OBVIOUS
<1>3. /\ pc = "handshake" /\ pc' = "clients" /\ upgraded' = [upgraded EXCEPT ![c] = q]
      /\ wsRoutes' = updateWsRoute(q, sd) /\ UNCHANGED <<sent, taken>>
  BY <1>1, <1>2 DEF HandshakeSent, Goto, clientVars
<1>4. /\ upgraded[c] = NoPath /\ taken[c] \in 1..Len(sent[c])
      /\ sent[c][taken[c]].kind = "upgrade" /\ upgraded \in [Conns -> Paths \cup {NoPath}]
      /\ taken[c] \in Nat
  BY <1>1, <1>3 DEF RouteInv, UpgradeInv, TypeInv, InFlight, TypeOK
<1>5. /\ TypeOK /\ owner[sd] # None /\ phase[c] = "accepted"
  BY <1>1, NoneAssumption DEF TypeInv, SocketInv
<1>7. KeepsAccepted
  BY NextKeeps DEF Next, LoopNext
<1>8. UpgradeInv'
  <2>1. \A d \in Conns : upgraded'[d] # NoPath => \E i \in 1..taken'[d] : sent'[d][i].kind = "upgrade"
    <3>1. taken[c] \in 1..taken[c]
      BY <1>4
    <3>2. \A d \in Conns : d # c => upgraded'[d] = upgraded[d]
      BY <1>3, <1>4
    <3> QED
      BY <1>3, <1>4, <3>1, <3>2 DEF RouteInv, UpgradeInv
  <2> QED
    BY <1>3, <2>1 DEF RouteInv, UpgradeInv, OneUpgrade
<1>9. NewPlain'
  <2>1. \A d \in Conns : phase'[d] \in {"new", "queued"} => phase[d] \in {"new", "queued"} /\ d # c
    BY <1>5, <1>7 DEF KeepsAccepted
  <2> QED
    BY <1>3, <1>4, <2>1 DEF RouteInv, NewPlain
<1>10. ASSUME NEW d \in Conns, NEW p \in WsPaths, phase'[d] = "accepted", upgraded'[d] = p,
              \A e \in Conns \ {d} : upgraded'[e] # p
       PROVE  wsRoutes'[p] \in Fds /\ owner'[wsRoutes'[p]] = d
  <2>1. p # NoPath /\ wsRoutes \in [WsPaths -> Fds \cup {NoFd}]
    <3>1. p # NoPath
      BY NoPathNotPath
    <3>2. wsRoutes \in [WsPaths -> Fds \cup {NoFd}]
      BY <1>5 DEF TypeOK
    <3> QED
      BY <3>1, <3>2
  <2>2. CASE d = c
    <3>1. q = p /\ wsRoutes'[p] = sd
      BY <1>3, <1>4, <1>10, <2>1, <2>2 DEF updateWsRoute
    <3>2. owner'[sd] = c
      BY <1>1, <1>7, <1>10, <2>2 DEF KeepsAccepted
    <3> QED
      BY <1>1, <2>2, <3>1, <3>2
  <2>3. CASE d # c
    <3>1. q # p /\ wsRoutes'[p] = wsRoutes[p]
      BY <1>3, <1>4, <1>10, <2>1, <2>3 DEF updateWsRoute
    <3>2. upgraded[d] = p /\ \A e \in Conns \ {d} : upgraded[e] # p
      BY <1>3, <1>4, <1>10, <2>1, <2>3
    <3>3. phase[d] = "accepted"
      BY <1>7, <1>10, <2>1, <3>2 DEF KeepsAccepted, RouteInv, NewPlain
    <3>4. wsRoutes[p] \in Fds /\ owner[wsRoutes[p]] = d
      BY <3>2, <3>3 DEF RouteInv, SoleSubscriberHeld
    <3> QED
      BY <1>7, <1>10, <3>1, <3>4 DEF KeepsAccepted
  <2> QED
    BY <2>2, <2>3
<1>11. SoleSubscriberHeld'
  BY <1>10 DEF SoleSubscriberHeld
<1>12. ASSUME NEW p \in WsPaths, wsRoutes'[p] # NoFd
       PROVE  \E d \in Conns :
                upgraded'[d] = p /\ (phase'[d] = "closed" \/ owner'[wsRoutes'[p]] = d)
  <2>1. p # NoPath /\ wsRoutes \in [WsPaths -> Fds \cup {NoFd}]
    <3>1. p # NoPath
      BY NoPathNotPath
    <3>2. wsRoutes \in [WsPaths -> Fds \cup {NoFd}]
      BY <1>5 DEF TypeOK
    <3> QED
      BY <3>1, <3>2
  <2>2. CASE p = q
    <3>1. upgraded'[c] = p /\ wsRoutes'[p] = sd
      BY <1>3, <1>4, <2>1, <2>2 DEF updateWsRoute
    <3>2. phase'[c] = "closed" \/ owner'[sd] = c
      BY <1>1, <1>7, HolderKept
    <3> QED
      BY <3>1, <3>2
  <2>3. CASE p # q
    <3>1. wsRoutes'[p] = wsRoutes[p] /\ wsRoutes[p] \in Fds
      BY <1>3, <1>12, <2>1, <2>3 DEF updateWsRoute
    <3>2. PICK d \in Conns :
            upgraded[d] = p /\ (phase[d] = "closed" \/ owner[wsRoutes[p]] = d)
      BY <3>1, <2>1, NoFdNotFd DEF RouteInv, RoutesTaken
    <3>3. upgraded'[d] = p
      BY <1>3, <1>4, <2>1, <3>2
    <3>4. phase'[d] = "closed" \/ owner'[wsRoutes[p]] = d
      BY <1>7, <3>1, <3>2, HolderKept
    <3> QED
      BY <3>1, <3>3, <3>4
  <2> QED
    BY <2>2, <2>3
<1>13. RoutesTaken'
  BY <1>12 DEF RoutesTaken
<1>14. DispatchGrows
  <2>1. ASSUME NEW d \in Conns, NEW p \in dispatched'[d] \ dispatched[d]
        PROVE  upgraded'[d] = p \/ LeftBehind(p)
    <3>1. PICK r \in WsPaths : RouteOf(sd, updateWsRoute(q, sd), r)
                              /\ dispatched' = [dispatched EXCEPT ![c] = @ \cup {r}]
      BY <1>1, <1>2, <2>1 DEF HandshakeSent, DispatchWebSocket
    <3>2. d = c /\ p = r /\ r # NoPath
      BY <1>5, <2>1, <3>1, PathsAssumption DEF TypeOK, NoPath
    <3>3. CASE r = q
      BY <1>3, <1>4, <3>2, <3>3
    <3>4. CASE r # q
      <4>1. wsRoutes[r] = sd
        BY <1>5, <3>1, <3>4 DEF RouteOf, updateWsRoute, TypeOK
      <4>2. PICK e \in Conns : upgraded[e] = r /\ (phase[e] = "closed" \/ owner[sd] = e)
        BY <1>1, <4>1, NoFdNotFd DEF RouteInv, RoutesTaken
      <4>3. e # c
        BY <1>4, <3>2, <4>2
      <4> QED
        BY <1>1, <3>2, <4>2, <4>3 DEF LeftBehind
    <3> QED
      BY <3>3, <3>4
  <2> QED
    BY <2>1 DEF DispatchGrows
<1>15. \A d \in Conns : upgraded[d] # NoPath => upgraded'[d] = upgraded[d]
  BY <1>3, <1>4
<1>16. DispatchedToOwnRoute'
  BY <1>7, <1>14, <1>15, StraysKept DEF RouteInv
<1> QED
  BY <1>8, <1>9, <1>11, <1>13, <1>16 DEF RouteInv

LEMMA RouteInvNext ==
  ASSUME TypeInv, TypeInv', SocketInv, RouteInv, [Next]_vars
  PROVE  RouteInv'
<1> USE DEF clientVars, sockVars, exchangeVars, stopVars, serverVars
<1>1. TypeOK /\ TypeOK' /\ UpgradeInv /\ NewPlain /\ SoleSubscriberHeld
      /\ RoutesTaken /\ DispatchedToOwnRoute
      /\ \A c \in Conns : taken[c] \in Nat
  BY DEF TypeInv, TypeOK, RouteInv
<1>0. KeepsAccepted
  BY NextKeeps
<1>2. ASSUME UNCHANGED <<wsRoutes, upgraded>>, UpgradeInv', DispatchGrows
      PROVE  RouteInv'
  <2>1. DispatchedToOwnRoute'
    BY <1>0, <1>1, <1>2, StraysKept
  <2> QED
    BY <1>0, <1>1, <1>2, <2>1, RoutedKept DEF RouteInv
<1>9. ASSUME UNCHANGED dispatched
      PROVE  DispatchGrows
  BY <1>9 DEF DispatchGrows
<1>3. ASSUME UNCHANGED <<sent, upgraded>>, \A c \in Conns : taken[c] <= taken'[c],
             pc' = "handshake" => pc = "handshake" /\ rd' = rd
      PROVE  UpgradeInv'
  BY <1>1, <1>3, UpgradeKept
<1>4. ASSUME UNCHANGED <<wsRoutes, upgraded, sent, taken, dispatched>>,
             pc' = "handshake" => pc = "handshake" /\ rd' = rd
      PROVE  RouteInv'
  <2>1. \A c \in Conns : taken[c] <= taken'[c]
    BY <1>1, <1>4
  <2> QED
    BY <1>2, <1>3, <1>4, <1>9, <2>1
<1>5. CASE ClientNext
  <2>1. PICK c \in Conns : \/ Connect(c) \/ (\E r \in Requests : Send(c, r)) \/ Finish(c)
                           \/ Reset(c) \/ Stall(c) \/ Drain(c)
    BY <1>5 DEF ClientNext
  <2>2. CASE Connect(c) \/ Finish(c) \/ Reset(c) \/ Stall(c) \/ Drain(c)
    BY <1>4, <2>2 DEF Connect, Finish, Reset, Stall, Drain
  <2>3. ASSUME NEW r \in Requests, Send(c, r) PROVE RouteInv'
    <3>1. UNCHANGED <<wsRoutes, upgraded, dispatched>>
      BY <2>3 DEF Send
    <3> QED
      BY <1>1, <1>2, <1>9, <2>3, <3>1, SendUpgrade
  <2> QED
    BY <2>1, <2>2, <2>3
<1>6. CASE LoopNext
  <2>1. CASE RunSocket \/ RunListen \/ RunFail \/ RunStart \/ CheckRunning
    BY <1>4, <2>1 DEF RunSocket, RunListen, RunFail, RunStart, CheckRunning, Goto
  <2>2. CASE Poll \/ PollWake \/ PollExpire \/ PollInterrupted
    BY <1>4, <2>2 DEF Poll, PollReturns, Blocks, PollWake, PollExpire, PollInterrupted, Goto
  <2>3. CASE \/ ListenDone \/ HandshakeFailed \/ KilledBySend101
              \/ ResponseSent \/ ResponseFailed \/ EraseClosed
    BY <1>4, <2>3 DEF ListenDone, HandshakeFailed, KilledBySend101, ResponseSent, ResponseFailed,
       EraseClosed, Goto
  <2>4. ASSUME NEW fd \in Fds, Accept(fd) PROVE RouteInv'
    BY <1>4, <2>4 DEF Accept, Goto
  <2>5. ASSUME NEW fd \in Fds, HandleClient(fd) PROVE RouteInv'
    <3>1. CASE PerformUpgrade(fd)
      <4>1. UNCHANGED <<wsRoutes, upgraded, dispatched>>
        BY <3>1 DEF PerformUpgrade
      <4> QED
        BY <1>1, <1>2, <1>9, <3>1, <4>1, PerformUpgradeOnce
    <3>2. ASSUME Recv(fd)
          PROVE  \A d \in Conns : taken[d] <= taken'[d]
      <4>1. taken \in [Conns -> Nat] /\ taken' = [taken EXCEPT ![owner[fd]] = @ + 1]
        BY <1>1, <3>2 DEF Recv, TypeOK
      <4> QED
        BY <4>1
    <3>3. CASE ClientFailed(fd) \/ RecvFailed(fd) \/ RecvEof(fd) \/ RecvAgain(fd)
      BY <1>4, <3>3 DEF ClientFailed, RecvFailed, RecvEof, RecvAgain, Drop, Skip
    <3>4. CASE PerformClose(fd) \/ PerformFrame(fd) \/ KilledBySend(fd) \/ PerformHttp(fd)
      <4>1. Recv(fd) /\ UNCHANGED <<wsRoutes, upgraded, sent>>
        BY <3>4 DEF PerformClose, PerformFrame, KilledBySend, PerformHttp
      <4>2. pc' # "handshake"
        BY <3>4 DEF PerformClose, PerformFrame, KilledBySend, PerformHttp, Recv, Readable, Handling
      <4>3. CASE PerformFrame(fd)
        <5>1. ASSUME NEW d \in Conns, NEW p \in dispatched'[d] \ dispatched[d]
              PROVE  upgraded'[d] = p \/ LeftBehind(p)
          <6>1. PICK r \in WsPaths : RouteOf(fd, wsRoutes, r)
                                    /\ dispatched' = [dispatched EXCEPT ![owner[fd]] = @ \cup {r}]
            BY <4>3, <5>1 DEF PerformFrame, DispatchWebSocket
          <6>2. d = owner[fd] /\ p = r
            BY <1>1, <5>1, <6>1 DEF TypeOK
          <6> QED
            BY <1>1, <4>1, <6>1, <6>2, DispatchStrays
        <5>2. DispatchGrows
          BY <5>1 DEF DispatchGrows
        <5> QED
          BY <1>2, <1>3, <3>2, <4>1, <4>2, <5>2
      <4>4. CASE PerformClose(fd) \/ KilledBySend(fd) \/ PerformHttp(fd)
        <5>1. UNCHANGED dispatched
          BY <4>4 DEF PerformClose, KilledBySend, PerformHttp
        <5> QED
          BY <1>2, <1>3, <1>9, <3>2, <4>1, <4>2, <5>1
      <4> QED
        BY <3>4, <4>3, <4>4
    <3> QED
      BY <2>5, <3>1, <3>3, <3>4 DEF HandleClient
  <2> QED
    BY <1>6, <2>1, <2>2, <2>3, <2>4, <2>5, <1>1, HandshakeRoutes DEF LoopNext
<1>7. CASE StopNext
  BY <1>4, <1>7 DEF StopNext, StopSteps, StopBegin, StopRoute, StopListening, StopFlag
<1>8. CASE UNCHANGED vars
  BY <1>4, <1>8 DEF vars
<1> QED
  BY <1>5, <1>6, <1>7, <1>8 DEF Next

LEMMA RouteInvariant == Spec => []RouteInv
<1>1. Init => RouteInv
  <2> SUFFICES ASSUME Init
               PROVE  RouteInv
    OBVIOUS
  <2>1. \A c \in Conns : Len(sent[c]) = 0 /\ upgraded[c] = NoPath
    BY DEF Init
  <2>2. \A p \in WsPaths : p # NoPath
    BY PathsAssumption DEF NoPath
  <2> QED
    BY <2>1, <2>2 DEF Init, RouteInv, UpgradeInv, OneUpgrade, NewPlain, SoleSubscriberHeld,
       RoutesTaken, DispatchedToOwnRoute
<1>2. TypeInv /\ TypeInv' /\ SocketInv /\ RouteInv /\ [Next]_vars => RouteInv'
  BY RouteInvNext
<1> QED
  BY <1>1, <1>2, TypeInvariant, SocketInvariant, PTL DEF Spec

(* The route that is not found first is hidden by a lower one with the same number,
   and the subscriber of that one is not the connection that has the number now. *)
LEMMA FoundOrHidden ==
  ASSUME TypeOK, RouteInv
  PROVE  SoleSubscriberRouted
<1> SUFFICES ASSUME NEW c \in Conns, NEW p \in WsPaths, phase[c] = "accepted", upgraded[c] = p,
                    \A d \in Conns \ {c} : upgraded[d] # p
             PROVE  /\ wsRoutes[p] \in Fds /\ owner[wsRoutes[p]] = c
                    /\ \/ RouteOf(wsRoutes[p], wsRoutes, p)
                       \/ \E q \in WsPaths :
                            q < p /\ wsRoutes[q] = wsRoutes[p] /\ LeftBehind(q)
  BY DEF SoleSubscriberRouted
<1>1. wsRoutes[p] \in Fds /\ owner[wsRoutes[p]] = c
  BY DEF RouteInv, SoleSubscriberHeld
<1>2. ASSUME ~RouteOf(wsRoutes[p], wsRoutes, p)
      PROVE  \E q \in WsPaths : q < p /\ wsRoutes[q] = wsRoutes[p] /\ LeftBehind(q)
  <2>1. PICK q \in WsPaths : wsRoutes[q] = wsRoutes[p] /\ ~(p <= q)
    BY <1>2 DEF RouteOf
  <2>2. q < p
    <3>1. p \in Nat /\ q \in Nat
      BY NoPathNotPath
    <3> QED
      BY <2>1, <3>1
  <2>3. PICK d \in Conns : upgraded[d] = q /\ (phase[d] = "closed" \/ owner[wsRoutes[q]] = d)
    BY <1>1, <2>1, NoFdNotFd DEF RouteInv, RoutesTaken
  <2>4. d # c
    <3>1. p \in Nat /\ q \in Nat
      BY NoPathNotPath
    <3> QED
      BY <2>2, <2>3, <3>1
  <2> QED
    BY <1>1, <2>1, <2>2, <2>3, <2>4 DEF LeftBehind
<1> QED
  BY <1>1, <1>2

(* The only connection that has ever upgraded on a path has its descriptor in the
   path's route, and that route is the first with the number, unless a subscriber
   that is gone has left the number in a lower one (updateWsRoute and
   getWsRouteBySocketId, server.h:197-217). *)
THEOREM SoleSubscriberStaysRouted == Spec => []SoleSubscriberRouted
<1>1. TypeInv /\ RouteInv => SoleSubscriberRouted
  BY FoundOrHidden DEF TypeInv
<1> QED
  BY <1>1, TypeInvariant, RouteInvariant, PTL

(* What is dispatched to the handler of another path than the connection's own was
   dispatched by a number that a subscriber of that path had left behind. *)
THEOREM StraysOnlyByLeftNumbers == Spec => []DispatchedToOwnRoute
<1>1. RouteInv => DispatchedToOwnRoute
  BY DEF RouteInv
<1> QED
  BY <1>1, RouteInvariant, PTL

-----------------------------------------------------------------------------
(* The service: the event loop of a server without WebSocket routes implements
   the service of each connection (ConnService).  One loop over all of them, the
   reuse of descriptors, stop() and the batches of poll() do not show. *)

(* Between requests nothing is owed, and the connection being answered still
   has the descriptor the answer goes to. *)
OwedInv ==
  /\ pc # "respond" => rd = None
  /\ pc = "respond" => owner[sd] = rd

LEMMA OwedInvNext ==
  ASSUME WsPaths = {}, TypeInv, PlainInv, OwedInv, [Next]_vars
  PROVE  OwedInv'
<1> USE DEF clientVars, sockVars, exchangeVars, stopVars, serverVars
<1>1. CASE UNCHANGED <<pc, rd, sd, owner>>
  BY <1>1 DEF OwedInv
<1>2. CASE ClientNext \/ UNCHANGED vars
  BY <1>1, <1>2 DEF ClientNext, Connect, Send, Finish, Reset, Stall, Drain, vars
<1>3. CASE StopNext
  BY <1>1, <1>3 DEF StopNext, StopSteps, StopBegin, StopListening, StopFlag
<1>4. CASE LoopNext
  <2>1. CASE pc # "respond" /\ pc' # "respond" /\ rd' = rd
    BY <2>1 DEF OwedInv
  <2>2. CASE RunSocket \/ RunListen \/ RunFail \/ RunStart \/ CheckRunning
    BY <2>1, <2>2 DEF RunSocket, RunListen, RunFail, RunStart, CheckRunning, Goto
  <2>3. CASE Poll \/ PollWake \/ PollExpire \/ PollInterrupted
    BY <2>1, <2>3 DEF Poll, PollReturns, Blocks, PollWake, PollExpire, PollInterrupted, Goto
  <2>4. CASE (\E fd \in Fds : Accept(fd)) \/ ListenDone \/ EraseClosed
    BY <2>1, <2>4 DEF Accept, ListenDone, EraseClosed, Goto
  <2>5. ASSUME NEW fd \in Fds, HandleClient(fd) PROVE OwedInv'
    <3>1. CASE ClientFailed(fd) \/ RecvFailed(fd) \/ RecvEof(fd) \/ RecvAgain(fd)
      BY <2>1, <3>1 DEF ClientFailed, RecvFailed, RecvEof, AtEof, RecvAgain, Drop, Skip,
         Readable, Handling
    <3>2. CASE PerformHttp(fd)
      <4>1. pc = "clients"
        BY <3>2 DEF PerformHttp, Recv, Readable, Handling
      <4> QED
        BY <3>2, <4>1 DEF PerformHttp, HasBody, OwedInv
    <3> QED
      BY <2>5, <3>1, <3>2 DEF HandleClient, PerformClose, PerformFrame, KilledBySend,
         PerformUpgrade, WebSockets
  <2>6. CASE HandshakeSent \/ HandshakeFailed \/ KilledBySend101
    BY <2>6 DEF PlainInv, HandshakeSent, HandshakeFailed, KilledBySend101, Goto
  <2>7. CASE ResponseSent \/ ResponseFailed
    BY <2>7 DEF ResponseSent, ResponseFailed, Idle, Goto, OwedInv
  <2> QED
    BY <1>4, <2>2, <2>3, <2>4, <2>5, <2>6, <2>7 DEF LoopNext
<1> QED
  BY <1>2, <1>3, <1>4 DEF Next

LEMMA OwedInvariant ==
  ASSUME WsPaths = {}
  PROVE  Spec => []OwedInv
<1>1. Init => OwedInv
  BY DEF Init, OwedInv
<1>2. TypeInv /\ PlainInv /\ OwedInv /\ [Next]_vars => OwedInv'
  BY OwedInvNext
<1> QED
  BY <1>1, <1>2, TypeInvariant, PlainInvariant, PTL DEF Spec

-----------------------------------------------------------------------------
(* The step of the service that each action of the loop is. *)

LEMMA ClientServes ==
  ASSUME TypeInv, ClientNext
  PROVE  [Service!Next]_(Service!vars)
<1> USE DEF clientVars, sockVars, exchangeVars, stopVars, serverVars, Service!vars
<1>1. PICK c \in Conns : \/ Connect(c) \/ (\E r \in Requests : Send(c, r)) \/ Finish(c)
                         \/ Reset(c) \/ Stall(c) \/ Drain(c)
  BY DEF ClientNext
<1>2. CASE Connect(c)
  BY <1>2 DEF Connect, Service!Next, Service!Connect
<1>3. ASSUME NEW r \in Requests, Send(c, r) PROVE Service!Next
  BY <1>3 DEF Send, Connected, Service!Next, Service!Send, Service!Live
<1>4. CASE Finish(c)
  <2>1. Service!End(c, "fin")
    BY <1>4 DEF Finish, Connected, Service!End, Service!Live
  <2> QED
    BY <2>1 DEF Service!Next
<1>5. CASE Reset(c)
  <2>1. Service!End(c, "rst")
    BY <1>5 DEF Reset, Connected, Service!End, Service!Live
  <2> QED
    BY <2>1 DEF Service!Next
<1>6. CASE Stall(c) \/ Drain(c)
  BY <1>6 DEF Stall, Drain
<1> QED
  BY <1>1, <1>2, <1>3, <1>4, <1>5, <1>6

LEMMA DropServes ==
  ASSUME TypeOK, SocketInv, OwedInv, NEW fd \in Fds, Drop(fd), pc = "clients", owner[fd] # None,
         peer[owner[fd]] = "rst"
           \/ (peer[owner[fd]] = "fin" /\ taken[owner[fd]] = Len(sent[owner[fd]]))
  PROVE  Service!Next
<1>1. owner[fd] \in Conns /\ phase[owner[fd]] = "accepted" /\ rd = None
  BY DEF TypeOK, SocketInv, OwedInv
<1>2. Service!Release(owner[fd])
  BY <1>1 DEF Drop, Close, Free, Service!Release, clientVars, exchangeVars
<1> QED
  BY <1>1, <1>2 DEF Service!Next

LEMMA HttpServes ==
  ASSUME TypeInv, SocketInv, OwedInv, NEW fd \in Fds, PerformHttp(fd)
  PROVE  Service!Next
<1>1. Recv(fd) /\ owner[fd] \in Conns /\ pc = "clients"
  BY RecvType DEF PerformHttp
<1>2. PICK c \in Conns : c = owner[fd]
  BY <1>1
<1>3. c # None /\ phase[c] = "accepted" /\ rd = None
  BY <1>1, <1>2, NoneAssumption DEF SocketInv, OwedInv
<1>4. taken[c] < Len(sent[c]) /\ taken' = [taken EXCEPT ![c] = @ + 1]
  BY <1>1, <1>2 DEF Recv, Unread
<1>5. Next1(c) = sent[c][taken'[c]]
  BY <1>1, <1>2, RecvType
<1>6. PICK b \in BOOLEAN : b = HasBody(sent[c][taken'[c]])
  <2>1. HasBody(sent[c][taken'[c]]) \in BOOLEAN
    BY DEF HasBody
  <2> QED
    BY <2>1, Zenon
<1>7. rd' = IF b THEN c ELSE None
  BY <1>2, <1>3, <1>5, <1>6 DEF PerformHttp
<1>8. [d \in Conns |-> rd' = d] = [[d \in Conns |-> rd = d] EXCEPT ![c] = b]
  BY <1>2, <1>3, <1>7, NoneAssumption
<1>9. UNCHANGED <<phase, peer, sent, out>>
  BY DEF PerformHttp, clientVars, sockVars
<1>10. Service!Take(c)
  BY <1>3, <1>4, <1>6, <1>8, <1>9 DEF Service!Take
<1> QED
  BY <1>10 DEF Service!Next

LEMMA RespondServes ==
  ASSUME TypeInv, OwedInv, ResponseSent \/ ResponseFailed
  PROVE  Service!Next
<1>1. rd \in Conns /\ owner[sd] = rd /\ rd' = None
  BY DEF TypeInv, InFlight, OwedInv, ResponseSent, ResponseFailed, Goto, Idle
<1>2. PICK c \in Conns : c = rd
  BY <1>1
<1>3. [d \in Conns |-> rd' = d] = [[d \in Conns |-> rd = d] EXCEPT ![c] = FALSE]
  BY <1>1, <1>2, NoneAssumption
<1>4. CASE ResponseSent
  <2>1. Service!Answer(c)
    BY <1>1, <1>2, <1>3, <1>4 DEF ResponseSent, Delivered, Takes, Service!Answer, clientVars,
       sockVars
  <2> QED
    BY <2>1 DEF Service!Next
<1>5. CASE ResponseFailed
  <2>1. Service!GiveUp(c)
    BY <1>1, <1>2, <1>3, <1>5 DEF ResponseFailed, SendFails, Service!GiveUp, clientVars, sockVars,
       exchangeVars
  <2> QED
    BY <2>1 DEF Service!Next
<1> QED
  BY <1>4, <1>5

LEMMA AcceptServes ==
  ASSUME TypeOK, SocketInv, NEW fd \in Fds, Accept(fd)
  PROVE  Service!Next
<1>1. Head(backlog) \in Conns /\ phase[Head(backlog)] = "queued"
  BY DEF TypeOK, SocketInv, Accept, Acceptable
<1>2. Service!Accept(Head(backlog))
  BY <1>1 DEF Accept, Service!Accept, clientVars, exchangeVars
<1> QED
  BY <1>1, <1>2 DEF Service!Next

LEMMA LoopServes ==
  ASSUME WsPaths = {}, TypeInv, SocketInv, PlainInv, OwedInv, LoopNext
  PROVE  [Service!Next]_(Service!vars)
<1> USE DEF clientVars, sockVars, exchangeVars, stopVars, serverVars
<1>1. TypeOK
  BY DEF TypeInv
<1>2. CASE UNCHANGED <<phase, peer, sent, taken, out, rd>>
  BY <1>2 DEF Service!vars
<1>3. CASE RunSocket \/ RunListen \/ RunFail \/ RunStart \/ CheckRunning
  BY <1>2, <1>3 DEF RunSocket, RunListen, RunFail, RunStart, CheckRunning
<1>4. CASE Poll \/ PollWake \/ PollExpire \/ PollInterrupted
  BY <1>2, <1>4 DEF Poll, PollReturns, Blocks, PollWake, PollExpire, PollInterrupted
<1>5. CASE ListenDone \/ EraseClosed
  BY <1>2, <1>5 DEF ListenDone, EraseClosed
<1>6. CASE \E fd \in Fds : Accept(fd)
  BY <1>1, <1>6, AcceptServes
<1>7. ASSUME NEW fd \in Fds, HandleClient(fd) PROVE [Service!Next]_(Service!vars)
  <2>1. CASE ClientFailed(fd)
    BY <1>1, <2>1, DropServes DEF ClientFailed, Handling, PlainInv, EventsFresh
  <2>2. CASE RecvFailed(fd)
    BY <1>1, <2>2, DropServes DEF RecvFailed, Readable, Handling, Free, PlainInv, EventsFresh
  <2>3. CASE RecvEof(fd)
    <3>1. owner[fd] \in Conns
      BY <1>1, <2>3 DEF RecvEof, AtEof, Free, TypeOK
    <3>2. taken[owner[fd]] = Len(sent[owner[fd]])
      BY <1>1, <2>3, <3>1 DEF RecvEof, AtEof, Unread, TypeInv, TypeOK, InFlight
    <3> QED
      BY <1>1, <2>3, <3>2, DropServes DEF RecvEof, AtEof, Readable, Handling, Free
  <2>4. CASE RecvAgain(fd)
    BY <1>2, <2>4 DEF RecvAgain, Skip
  <2>5. CASE PerformHttp(fd)
    BY <2>5, HttpServes
  <2> QED
    BY <1>7, <2>1, <2>2, <2>3, <2>4, <2>5
       DEF HandleClient, PerformClose, PerformFrame, KilledBySend,
         PerformUpgrade, WebSockets
<1>8. CASE HandshakeSent \/ HandshakeFailed \/ KilledBySend101
  BY <1>8 DEF PlainInv, HandshakeSent, HandshakeFailed, KilledBySend101, Goto
<1>9. CASE ResponseSent \/ ResponseFailed
  BY <1>9, RespondServes
<1> QED
  BY <1>3, <1>4, <1>5, <1>6, <1>7, <1>8, <1>9 DEF LoopNext

LEMMA StopServes ==
  ASSUME WsPaths = {}, StopNext
  PROVE  [Service!Next]_(Service!vars)
<1> USE DEF clientVars, sockVars, exchangeVars, serverVars
<1>1. CASE StopBegin \/ StopFlag
  BY <1>1 DEF StopBegin, StopFlag, Service!vars
<1>2. CASE StopListening
  BY <1>2 DEF StopListening, Service!Next, Service!Refuse
<1> QED
  BY <1>1, <1>2 DEF StopNext, StopSteps

(* A server without WebSocket routes implements ConnService: whatever the
   clients do and however stop() interleaves with the loop, each connection
   sees its requests taken in order, answered once, and its end respected. *)
THEOREM PlainImplementsService ==
  ASSUME WsPaths = {}
  PROVE  Spec => ImplementsService
<1>1. Init => Service!Init
  <2>1. ASSUME Init PROVE [c \in Conns |-> rd = c] = [c \in Conns |-> FALSE]
    BY <2>1, NoneAssumption DEF Init
  <2> QED
    BY <2>1 DEF Init, Service!Init
<1>2. TypeInv /\ SocketInv /\ PlainInv /\ OwedInv /\ [Next]_vars
        => [Service!Next]_(Service!vars)
  <2>1. CASE UNCHANGED vars
    BY <2>1 DEF vars, clientVars, sockVars, exchangeVars, Service!vars
  <2> QED
    BY <2>1, ClientServes, LoopServes, StopServes DEF Next
<1>3. Spec => Service!Spec
  BY <1>1, <1>2, TypeInvariant, SocketInvariant, PlainInvariant, OwedInvariant, PTL
     DEF Spec, Service!Spec
<1> QED
  BY <1>3 DEF ImplementsService

-----------------------------------------------------------------------------
(* Answered once, in order, with any routes.  An answer is the index of its request,
   and Told says what a connection has been told: o are its answers and s its
   requests, n of them taken; those in G may have been answered twice, the one in H
   is in hand, and the answers of those in E may be missing. *)

Said(o) == {o[i] : i \in 1..Len(o)}

Ordered(o, G) ==
  \A i, j \in 1..Len(o) : i < j => o[i] < o[j] \/ (j = i + 1 /\ o[i] = o[j] /\ o[i] \in G)

Told(o, s, n, G, H, E) ==
  /\ Ordered(o, G)
  /\ \A k \in Said(o) : k \in 1..n /\ (HasBody(s[k]) \/ s[k].kind = "frame")
  /\ \A k \in H : k = n /\ k \in 1..n /\ k \notin Said(o) /\ HasBody(s[k])
  /\ \A k \in 1..n : HasBody(s[k]) => k \in Said(o) \/ k \in H \/ k \in E

Twice(c) == {k \in 1..Len(sent[c]) : Greeted(c, k)}
InHand(c) == {k \in {taken[c]} : rd = c}
Excused(c) == {k \in Nat : peer[c] = "rst" \/ CutByStop(c)}

AnswerInv ==
  \A c \in Conns : Told(out[c], sent[c], taken[c], Twice(c), InHand(c), Excused(c))

LEMMA SaidAppend ==
  ASSUME NEW o \in Seq(Nat), NEW k \in Nat
  PROVE  /\ Append(o, k) \in Seq(Nat)
         /\ Len(Append(o, k)) = Len(o) + 1
         /\ Append(o, k)[Len(o) + 1] = k
         /\ \A i \in 1..Len(o) : Append(o, k)[i] = o[i]
         /\ \A i \in 1..Len(o) + 1 : i \in 1..Len(o) \/ i = Len(o) + 1
         /\ Said(Append(o, k)) = Said(o) \cup {k}
<1>1. /\ Append(o, k) \in Seq(Nat) /\ Len(o) \in Nat
      /\ Len(Append(o, k)) = Len(o) + 1
      /\ Append(o, k)[Len(o) + 1] = k
      /\ \A i \in 1..Len(o) : Append(o, k)[i] = o[i]
      /\ \A i \in 1..Len(o) + 1 : i \in 1..Len(o) \/ i = Len(o) + 1
  OBVIOUS
<1>2. PICK p \in Seq(Nat) : p = Append(o, k)
  BY <1>1
<1>3. PICK n \in Nat : n = Len(o)
  BY <1>1
<1>4. Len(p) = n + 1 /\ p[n + 1] = k /\ \A i \in 1..n : p[i] = o[i]
  BY <1>1, <1>2, <1>3
<1>5. ASSUME NEW e \in Said(p) PROVE e \in Said(o) \cup {k}
  BY <1>1, <1>3, <1>4, <1>5 DEF Said
<1>6. ASSUME NEW e \in Said(o) \cup {k} PROVE e \in Said(p)
  <2>1. CASE e = k
    <3>1. n + 1 \in 1..Len(p)
      BY <1>4
    <3> QED
      BY <1>4, <2>1, <3>1 DEF Said
  <2>2. CASE e \in Said(o)
    <3>1. PICK i \in 1..n : e = o[i]
      BY <1>3, <2>2 DEF Said
    <3>2. i \in 1..Len(p)
      BY <1>4, <3>1
    <3> QED
      BY <1>4, <3>1, <3>2 DEF Said
  <2> QED
    BY <1>6, <2>1, <2>2
<1> QED
  BY <1>1, <1>2, <1>5, <1>6

(* The last request taken is answered: all that was said is about earlier ones. *)
LEMMA OrderedLater ==
  ASSUME NEW o \in Seq(Nat), NEW n \in Nat, NEW G, Ordered(o, G), \A k \in Said(o) : k < n
  PROVE  Ordered(Append(o, n), G)
<1>1. PICK p \in Seq(Nat) : p = Append(o, n)
  BY SaidAppend
<1>2. PICK m \in Nat : m = Len(o)
  OBVIOUS
<1>3. /\ Len(p) = m + 1 /\ p[m + 1] = n /\ \A i \in 1..m : p[i] = o[i]
      /\ \A i \in 1..m + 1 : i \in 1..m \/ i = m + 1
  BY <1>1, <1>2, SaidAppend
<1>4. \A i \in 1..m : o[i] < n
  BY <1>2 DEF Said
<1> SUFFICES ASSUME NEW i \in 1..m + 1, NEW j \in 1..m + 1, i < j
             PROVE  p[i] < p[j] \/ (j = i + 1 /\ p[i] = p[j] /\ p[i] \in G)
  BY <1>1, <1>3 DEF Ordered
<1>5. i \in 1..m
  OBVIOUS
<1>6. CASE j = m + 1
  BY <1>3, <1>4, <1>5, <1>6
<1>7. CASE j \in 1..m
  BY <1>2, <1>3, <1>5, <1>7 DEF Ordered
<1> QED
  BY <1>3, <1>6, <1>7

(* The handler of a route answers the handshake after the 101. *)
LEMMA OrderedTwice ==
  ASSUME NEW o \in Seq(Nat), NEW n \in Nat, NEW G, Ordered(o, G), \A k \in Said(o) : k < n,
         n \in G
  PROVE  Ordered(Append(Append(o, n), n), G)
<1>1. PICK p \in Seq(Nat) : p = Append(o, n)
  BY SaidAppend
<1>2. PICK m \in Nat : m = Len(o)
  OBVIOUS
<1>3. /\ Len(p) = m + 1 /\ p[m + 1] = n /\ \A i \in 1..m : p[i] = o[i]
      /\ \A i \in 1..m + 1 : i \in 1..m \/ i = m + 1
  BY <1>1, <1>2, SaidAppend
<1>4. PICK q \in Seq(Nat) : q = Append(p, n)
  BY SaidAppend
<1>5. /\ Len(q) = m + 2 /\ q[m + 2] = n /\ \A i \in 1..m + 1 : q[i] = p[i]
      /\ \A i \in 1..m + 2 : i \in 1..m + 1 \/ i = m + 2
  BY <1>3, <1>4, SaidAppend
<1>6. Ordered(p, G)
  BY <1>1, OrderedLater
<1>7. \A i \in 1..m : o[i] < n
  BY <1>2 DEF Said
<1> SUFFICES ASSUME NEW i \in 1..m + 2, NEW j \in 1..m + 2, i < j
             PROVE  q[i] < q[j] \/ (j = i + 1 /\ q[i] = q[j] /\ q[i] \in G)
  BY <1>1, <1>4, <1>5 DEF Ordered
<1>8. i \in 1..m + 1
  OBVIOUS
<1>9. CASE j \in 1..m + 1
  BY <1>3, <1>5, <1>6, <1>8, <1>9 DEF Ordered
<1>10. CASE j = m + 2
  <2>1. CASE i = m + 1
    BY <1>3, <1>5, <1>8, <1>10, <2>1
  <2>2. CASE i \in 1..m
    BY <1>3, <1>5, <1>7, <1>8, <1>10, <2>2
  <2> QED
    BY <1>3, <1>8, <2>1, <2>2
<1> QED
  BY <1>5, <1>9, <1>10

(* Nothing is taken and nothing said. *)
LEMMA ToldKept ==
  ASSUME NEW o, NEW s, NEW t, NEW n \in Nat, NEW G, NEW F, NEW H, NEW E, NEW D,
         Told(o, s, n, G, H, E),
         \A k \in 1..n : t[k] = s[k], G \subseteq F, E \subseteq D
  PROVE  Told(o, t, n, F, H, D)
<1>1. \A k \in 1..n : (HasBody(t[k]) <=> HasBody(s[k])) /\ t[k].kind = s[k].kind
  BY DEF HasBody
<1>2. Ordered(o, F)
  BY DEF Told, Ordered
<1>3. \A k \in Said(o) : k \in 1..n /\ (HasBody(t[k]) \/ t[k].kind = "frame")
  BY <1>1 DEF Told
<1>4. \A k \in H : k = n /\ k \in 1..n /\ k \notin Said(o) /\ HasBody(t[k])
  BY <1>1 DEF Told
<1>5. \A k \in 1..n : HasBody(t[k]) => k \in Said(o) \/ k \in H \/ k \in D
  BY <1>1 DEF Told
<1> QED
  BY <1>2, <1>3, <1>4, <1>5 DEF Told

(* The next request is taken; nothing was in hand. *)
LEMMA ToldTaken ==
  ASSUME NEW o, NEW s, NEW n \in Nat, NEW G, NEW E, NEW H,
         Told(o, s, n, G, {}, E), H = {k \in {n + 1} : HasBody(s[k])}
  PROVE  Told(o, s, n + 1, G, H, E)
<1>1. \A k \in Said(o) : k \in 1..n
  BY DEF Told
<1>2. \A k \in 1..n : k \in 1..n + 1 /\ k # n + 1
  OBVIOUS
<1>3. \A k \in 1..n + 1 : k \in 1..n \/ k = n + 1
  OBVIOUS
<1>4. n + 1 \notin Said(o) /\ n + 1 \in 1..n + 1
  BY <1>1, <1>2
<1> QED
  BY <1>1, <1>2, <1>3, <1>4 DEF Told

LEMMA ToldFrame ==
  ASSUME NEW o \in Seq(Nat), NEW s, NEW n \in Nat, NEW G, NEW E,
         Told(o, s, n, G, {}, E), s[n + 1].kind = "frame"
  PROVE  Told(Append(o, n + 1), s, n + 1, G, {}, E)
<1>1. \A k \in Said(o) : k \in 1..n
  BY DEF Told
<1>2. PICK m \in Nat : m = n + 1
  OBVIOUS
<1>3. PICK p \in Seq(Nat) : p = Append(o, m)
  BY SaidAppend
<1>4. Said(p) = Said(o) \cup {m}
  BY <1>3, SaidAppend
<1>5. \A k \in 1..n : k \in 1..m /\ k < m
  BY <1>2
<1>6. \A k \in 1..m : k \in 1..n \/ k = m
  BY <1>2
<1>7. Ordered(p, G)
  BY <1>1, <1>3, <1>5, OrderedLater DEF Told
<1>8. m \in 1..m
  BY <1>2
<1> QED
  BY <1>1, <1>2, <1>3, <1>4, <1>5, <1>6, <1>7, <1>8 DEF Told, HasBody

(* What was in hand is said, once or, a handshake, twice; or it does not arrive. *)
LEMMA ToldAnswered ==
  ASSUME NEW o \in Seq(Nat), NEW s, NEW n \in Nat, NEW G, NEW E,
         Told(o, s, n, G, {n}, E)
  PROVE  /\ Told(Append(o, n), s, n, G, {}, E)
         /\ n \in G => Told(Append(Append(o, n), n), s, n, G, {}, E)
<1>1. n \in 1..n /\ HasBody(s[n]) /\ \A k \in Said(o) : k \in 1..n /\ k # n
  BY DEF Told
<1>2. PICK p \in Seq(Nat) : p = Append(o, n)
  BY SaidAppend
<1>3. Said(p) = Said(o) \cup {n}
  BY <1>2, SaidAppend
<1>4. \A k \in 1..n : k # n => k < n
  OBVIOUS
<1>5. \A k \in Said(o) : k < n
  BY <1>1, <1>4
<1>6. Ordered(o, G)
  BY DEF Told
<1>7. Ordered(p, G)
  BY <1>2, <1>5, <1>6, OrderedLater
<1>8. Told(p, s, n, G, {}, E)
  BY <1>1, <1>3, <1>7 DEF Told
<1>9. ASSUME n \in G PROVE Told(Append(p, n), s, n, G, {}, E)
  <2>1. Ordered(Append(p, n), G)
    BY <1>2, <1>5, <1>6, <1>9, OrderedTwice
  <2>2. Said(Append(p, n)) = Said(p)
    BY <1>3, SaidAppend
  <2> QED
    BY <1>8, <2>1, <2>2 DEF Told
<1> QED
  BY <1>2, <1>8, <1>9

LEMMA ToldLost ==
  ASSUME NEW o, NEW s, NEW n \in Nat, NEW G, NEW E, NEW H,
         Told(o, s, n, G, H, E)
  PROVE  Told(o, s, n, G, {}, Nat)
  BY DEF Told

(* What a step does not take back. *)
Lasts ==
  \A c \in Conns :
    /\ Len(sent[c]) <= Len(sent'[c]) /\ \A i \in 1..Len(sent[c]) : sent'[c][i] = sent[c][i]
    /\ upgraded[c] # NoPath => upgraded'[c] # NoPath
    /\ peer[c] = "rst" => peer'[c] = "rst"
    /\ CutByStop(c) => CutByStop(c)'

LEMMA NextLasts ==
  ASSUME TypeInv, SocketInv, [Next]_vars
  PROVE  Lasts
<1> USE DEF clientVars, sockVars, exchangeVars, stopVars, serverVars
<1>1. /\ sent \in [Conns -> Seq(Requests)] /\ peer \in [Conns -> {"open", "fin", "rst"}]
      /\ upgraded \in [Conns -> Paths \cup {NoPath}]
  BY DEF TypeInv, TypeOK
<1> DEFINE Q == /\ stopPc # "idle" => stopPc' # "idle"
                /\ \A c \in Conns :
                     /\ Len(sent[c]) <= Len(sent'[c])
                     /\ \A i \in 1..Len(sent[c]) : sent'[c][i] = sent[c][i]
                     /\ upgraded[c] # NoPath => upgraded'[c] # NoPath
                     /\ peer[c] = "rst" => peer'[c] = "rst"
<1>2. UNCHANGED <<stopPc, sent, upgraded, peer>> => Q
  BY <1>1
<1> HIDE DEF Q
<1>3. ASSUME ClientNext
      PROVE  Q
  <2>1. PICK c \in Conns : \/ Connect(c) \/ (\E r \in Requests : Send(c, r)) \/ Finish(c)
                           \/ Reset(c) \/ Stall(c) \/ Drain(c)
    BY <1>3 DEF ClientNext
  <2>2. ASSUME Connect(c) \/ Stall(c) \/ Drain(c)
        PROVE  Q
    BY <1>2, <2>2 DEF Connect, Stall, Drain
  <2>3. ASSUME Finish(c) \/ Reset(c)
        PROVE  Q
    BY <1>1, <2>3 DEF Finish, Reset, Q
  <2>4. ASSUME NEW r \in Requests, Send(c, r) PROVE Q
    BY <1>1, <2>4 DEF Send, Q
  <2> QED
    BY <2>1, <2>2, <2>3, <2>4
<1>4. ASSUME LoopNext
      PROVE  Q
  <2>1. ASSUME RunSocket \/ RunListen \/ RunFail \/ RunStart \/ CheckRunning
        PROVE  Q
    BY <1>2, <2>1 DEF RunSocket, RunListen, RunFail, RunStart, CheckRunning
  <2>2. ASSUME Poll \/ PollWake \/ PollExpire \/ PollInterrupted
        PROVE  Q
    BY <1>2, <2>2 DEF Poll, PollReturns, Blocks, PollWake, PollExpire, PollInterrupted
  <2>3. ASSUME \/ ListenDone \/ HandshakeFailed \/ ResponseSent \/ ResponseFailed \/ EraseClosed
               \/ \E fd \in Fds : Accept(fd)
        PROVE  Q
    BY <1>2, <2>3 DEF ListenDone, HandshakeFailed, ResponseSent, ResponseFailed, EraseClosed,
       Accept
  <2>4. ASSUME NEW fd \in Fds, HandleClient(fd) PROVE Q
    <3>1. ASSUME KilledBySend(fd) PROVE Q
      BY <1>1, <3>1 DEF KilledBySend, Q
    <3> QED
      BY <1>2, <2>4, <3>1 DEF HandleClient, ClientFailed, RecvFailed, RecvEof, RecvAgain,
         PerformClose, PerformFrame, PerformUpgrade, PerformHttp, Drop, Skip
  <2>5. ASSUME KilledBySend101
        PROVE  Q
    BY <1>1, <2>5 DEF KilledBySend101, Q
  <2>6. ASSUME HandshakeSent
        PROVE  Q
    <3>1. PICK p : p = sent[rd][taken[rd]].path
      OBVIOUS
    <3>2. p \in Paths
      BY <3>1, <2>6, UpgradePath DEF HandshakeSent, Goto, TypeInv, TypeOK, InFlight
    <3>3. upgraded' = [upgraded EXCEPT ![rd] = p] /\ p # NoPath
      BY <2>6, <3>1, <3>2, PathsAssumption DEF HandshakeSent, NoPath
    <3>4. UNCHANGED <<stopPc, sent, peer>>
      BY <2>6 DEF HandshakeSent
    <3> QED
      BY <1>1, <3>3, <3>4 DEF Q
  <2> QED
    BY <1>4, <2>1, <2>2, <2>3, <2>4, <2>5, <2>6 DEF LoopNext
<1>5. ASSUME StopNext
      PROVE  Q
  BY <1>5 DEF StopNext, StopSteps, StopBegin, StopRoute, StopListening, StopFlag, Q
<1>6. ASSUME UNCHANGED vars
      PROVE  Q
  BY <1>2, <1>6 DEF vars
<1>7. Q
  BY <1>3, <1>4, <1>5, <1>6 DEF Next
<1>8. \A c \in Conns : phase[c] = "closed" => phase'[c] = "closed"
  BY NextKeeps DEF KeepsAccepted
<1> QED
  BY <1>7, <1>8 DEF Q, Lasts, CutByStop, WebSockets

(* While an answer is in hand its connection has the descriptor it goes to, unless
   stop() has closed that; between requests none is. *)
InHandInv ==
  /\ pc \notin {"handshake", "respond", "dead"} => rd = None
  /\ pc \in {"handshake", "respond"} /\ ~CutByStop(rd) => owner[sd] = rd

(* Such a connection keeps the descriptor through every step that does not close one. *)
LEMMA InHandKept ==
  ASSUME TypeInv, SocketInv, InHandInv, KeepsAccepted, Lasts, UNCHANGED <<sd, rd>>,
         pc \in {"handshake", "respond"},
         \/ UNCHANGED phase
         \/ WebSockets /\ stopPc' # "idle"
         \/ \A c \in Conns : phase[c] = "accepted" => phase'[c] = "accepted"
  PROVE  ~CutByStop(rd)' => owner'[sd'] = rd'
<1> SUFFICES ASSUME ~CutByStop(rd)'
             PROVE  owner'[sd] = rd
  OBVIOUS
<1>1. rd \in Conns /\ sd \in Fds
  BY DEF TypeInv, InFlight
<1>2. ~CutByStop(rd)
  BY <1>1 DEF Lasts, CutByStop
<1>3. owner[sd] = rd /\ phase[rd] = "accepted"
  BY <1>1, <1>2, NoneAssumption DEF InHandInv, SocketInv
<1>4. phase'[rd] = "accepted"
  BY <1>1, <1>3 DEF KeepsAccepted, CutByStop, WebSockets
<1> QED
  BY <1>1, <1>3, <1>4 DEF KeepsAccepted

LEMMA InHandNext ==
  ASSUME TypeInv, SocketInv, InHandInv, [Next]_vars
  PROVE  InHandInv'
<1> USE DEF clientVars, sockVars, exchangeVars, stopVars, serverVars
<1>0. KeepsAccepted /\ Lasts
  BY NextKeeps, NextLasts
<1>1. ASSUME UNCHANGED <<pc, sd, rd>>,
             \/ UNCHANGED phase
             \/ WebSockets /\ stopPc' # "idle"
             \/ \A c \in Conns : phase[c] = "accepted" => phase'[c] = "accepted"
      PROVE  InHandInv'
  <2>1. pc \in {"handshake", "respond"} => (~CutByStop(rd)' => owner'[sd'] = rd')
    BY <1>0, <1>1, InHandKept
  <2> QED
    BY <1>1, <2>1 DEF InHandInv
<1>2. ASSUME pc \notin {"handshake", "respond", "dead"}, rd' = rd,
             pc' \notin {"handshake", "respond"}
      PROVE  InHandInv'
  BY <1>2 DEF InHandInv
<1>3. CASE ClientNext
  <2>1. PICK c \in Conns : \/ Connect(c) \/ (\E r \in Requests : Send(c, r)) \/ Finish(c)
                           \/ Reset(c) \/ Stall(c) \/ Drain(c)
    BY <1>3 DEF ClientNext
  <2>2. CASE Connect(c)
    <3>1. \A d \in Conns : phase[d] = "accepted" => phase'[d] = "accepted"
      BY <2>2 DEF Connect, TypeInv, TypeOK
    <3> QED
      BY <1>1, <2>2, <3>1 DEF Connect
  <2> QED
    BY <1>1, <2>1, <2>2 DEF Send, Finish, Reset, Stall, Drain
<1>4. CASE LoopNext
  <2>1. CASE RunSocket \/ RunListen \/ RunFail \/ RunStart \/ CheckRunning
    BY <1>2, <2>1 DEF RunSocket, RunListen, RunFail, RunStart, CheckRunning, Goto
  <2>2. CASE Poll \/ PollWake \/ PollExpire \/ PollInterrupted
    BY <1>2, <2>2 DEF Poll, PollReturns, Blocks, PollWake, PollExpire, PollInterrupted, Goto
  <2>3. CASE (\E fd \in Fds : Accept(fd)) \/ ListenDone \/ EraseClosed
    BY <1>2, <2>3 DEF Accept, ListenDone, EraseClosed, Goto
  <2>4. ASSUME NEW fd \in Fds, HandleClient(fd) PROVE InHandInv'
    <3>1. pc = "clients"
      BY <2>4 DEF HandleClient, ClientFailed, RecvFailed, RecvEof, AtEof, RecvAgain, PerformClose,
         PerformFrame, KilledBySend, PerformUpgrade, PerformHttp, Recv, Readable, Handling
    <3>2. CASE ClientFailed(fd) \/ RecvFailed(fd) \/ RecvEof(fd) \/ RecvAgain(fd)
      BY <1>2, <3>1, <3>2 DEF ClientFailed, RecvFailed, RecvEof, RecvAgain, Drop, Skip
    <3>3. CASE PerformClose(fd) \/ PerformFrame(fd) \/ KilledBySend(fd)
      BY <1>2, <3>1, <3>3 DEF PerformClose, PerformFrame, KilledBySend
    <3>4. CASE PerformUpgrade(fd)
      BY <3>4 DEF PerformUpgrade, InHandInv
    <3>5. CASE PerformHttp(fd)
      BY <3>1, <3>5 DEF PerformHttp, InHandInv
    <3> QED
      BY <2>4, <3>2, <3>3, <3>4, <3>5 DEF HandleClient
  <2>5. CASE HandshakeFailed
    <3>1. pc = "handshake" /\ UNCHANGED <<phase, sd, rd>>
      BY <2>5 DEF HandshakeFailed, Goto
    <3>2. ~CutByStop(rd)' => owner'[sd'] = rd'
      BY <1>0, <3>1, InHandKept
    <3> QED
      BY <2>5, <3>2 DEF HandshakeFailed, Goto, InHandInv
  <2>6. CASE HandshakeSent \/ ResponseSent \/ ResponseFailed
    BY <2>6 DEF HandshakeSent, ResponseSent, ResponseFailed, Idle, Goto, InHandInv
  <2>7. CASE KilledBySend101
    BY <2>7 DEF KilledBySend101, Goto, InHandInv
  <2> QED
    BY <1>4, <2>1, <2>2, <2>3, <2>4, <2>5, <2>6, <2>7 DEF LoopNext
<1>5. CASE StopNext
  <2>1. CASE StopBegin \/ StopFlag
    BY <1>1, <2>1 DEF StopBegin, StopFlag
  <2>2. CASE StopListening
    <3>1. \A c \in Conns : phase[c] = "accepted" => phase'[c] = "accepted"
      BY <2>2 DEF StopListening, TypeInv, TypeOK
    <3> QED
      BY <1>1, <2>2, <3>1 DEF StopListening
  <2>3. ASSUME NEW p \in WsPaths, StopRoute(p) PROVE InHandInv'
    BY <1>1, <2>3 DEF StopRoute, WebSockets
  <2> QED
    BY <1>5, <2>1, <2>2, <2>3 DEF StopNext, StopSteps
<1>6. CASE UNCHANGED vars
  BY <1>1, <1>6 DEF vars
<1> QED
  BY <1>3, <1>4, <1>5, <1>6 DEF Next

LEMMA InHandInvariant == Spec => []InHandInv
<1>1. Init => InHandInv
  BY DEF Init, InHandInv
<1>2. TypeInv /\ SocketInv /\ InHandInv /\ [Next]_vars => InHandInv'
  BY InHandNext
<1> QED
  BY <1>1, <1>2, TypeInvariant, SocketInvariant, PTL DEF Spec

(* A step changes what one connection has been told, whatever it does beside. *)
LEMMA AnswersStep ==
  ASSUME TypeInv, Lasts, NEW c \in Conns,
         NEW o, NEW n \in Nat, NEW G, NEW H, NEW E,
         Told(o, sent[c], n, G, H, E), n <= Len(sent[c]),
         out'[c] = o, taken'[c] = n, G \subseteq Twice(c)', H = InHand(c)', E \subseteq Excused(c)'
  PROVE  Told(out[c], sent[c], taken[c], Twice(c), InHand(c), Excused(c))'
<1>1. Len(sent[c]) \in Nat
  BY DEF TypeInv, TypeOK
<1>2. PICK t : t = sent'[c]
  OBVIOUS
<1>3. \A k \in 1..n : t[k] = sent[c][k]
  BY <1>1, <1>2 DEF Lasts
<1>4. PICK F, D : F = Twice(c)' /\ D = Excused(c)'
  OBVIOUS
<1>5. Told(o, t, n, F, H, D)
  BY <1>3, <1>4, ToldKept
<1> QED
  BY <1>2, <1>4, <1>5

LEMMA MoreExcused ==
  ASSUME TypeInv, TypeInv', Lasts, NEW c \in Conns
  PROVE  Twice(c) \subseteq Twice(c)' /\ Excused(c) \subseteq Excused(c)'
<1>1. ASSUME NEW k \in Twice(c) PROVE k \in Twice(c)'
  <2>1. sent \in [Conns -> Seq(Requests)] /\ sent' \in [Conns -> Seq(Requests)]
    BY DEF TypeInv, TypeOK
  <2>2. Len(sent[c]) <= Len(sent'[c])
    BY DEF Lasts
  <2>3. k \in 1..Len(sent'[c]) /\ sent'[c][k] = sent[c][k]
    BY <1>1, <2>1, <2>2 DEF Twice, Lasts
  <2> QED
    BY <1>1, <2>3 DEF Twice, Greeted, Lasts
<1>2. Excused(c) \subseteq Excused(c)'
  BY DEF Excused, Lasts
<1> QED
  BY <1>1, <1>2

LEMMA AnswersKept ==
  ASSUME TypeInv, TypeInv', AnswerInv, Lasts, NEW c \in Conns,
         out'[c] = out[c], taken'[c] = taken[c], (rd' = c) <=> (rd = c)
  PROVE  Told(out[c], sent[c], taken[c], Twice(c), InHand(c), Excused(c))'
<1>1. taken[c] \in Nat /\ taken[c] <= Len(sent[c])
  BY DEF TypeInv, TypeOK, InFlight
<1>2. Told(out[c], sent[c], taken[c], Twice(c), InHand(c), Excused(c))
  BY DEF AnswerInv
<1>3. InHand(c) = InHand(c)'
  BY DEF InHand
<1> QED
  BY <1>1, <1>2, <1>3, MoreExcused, AnswersStep

(* One request is taken from the connection behind fd: nothing is said of it yet, or it
   is a frame and its handler says something. *)
LEMMA TakeAnswers ==
  ASSUME TypeInv, TypeInv', InHandInv, AnswerInv, Lasts, NEW fd \in Fds, Recv(fd),
         NEW d \in Conns, d = owner[fd], UNCHANGED sent,
         \/ out' = out /\ rd' = IF HasBody(Next1(d)) THEN d ELSE rd
         \/ /\ Next1(d).kind = "frame" /\ rd' = rd
            /\ out' = out \/ out' = [out EXCEPT ![d] = Append(@, taken'[d])]
  PROVE  AnswerInv'
<1>1. taken' = [taken EXCEPT ![d] = @ + 1] /\ taken'[d] <= Len(sent[d]) /\ pc = "clients"
  BY RecvType DEF Recv
<1>2. taken \in [Conns -> Nat] /\ out \in [Conns -> Seq(Nat)]
  BY DEF TypeInv, TypeOK
<1>3. rd = None /\ \A c \in Conns : c # None
  BY <1>1, NoneAssumption DEF InHandInv
<1> SUFFICES ASSUME NEW c \in Conns
             PROVE  Told(out[c], sent[c], taken[c], Twice(c), InHand(c), Excused(c))'
  BY DEF AnswerInv
<1>4. CASE c # d
  <2>1. out'[c] = out[c] /\ taken'[c] = taken[c] /\ ((rd' = c) <=> (rd = c))
    BY <1>1, <1>2, <1>3, <1>4
  <2> QED
    BY <2>1, AnswersKept
<1>5. CASE c = d
  <2>1. PICK n \in Nat : n = taken[d]
    BY <1>2
  <2>2. taken'[d] = n + 1 /\ Next1(d) = sent[d][n + 1] /\ n + 1 <= Len(sent[d]) /\ n + 1 \in Nat
    BY <1>1, <1>2, <2>1 DEF Next1
  <2>3. InHand(d) = {}
    BY <1>3 DEF InHand
  <2>4. Told(out[d], sent[d], n, Twice(d), {}, Excused(d))
    BY <2>1, <2>3 DEF AnswerInv
  <2>5. CASE out' = out
    <3>1. PICK H : H = {k \in {n + 1} : HasBody(sent[d][k])}
      OBVIOUS
    <3>2. Told(out[d], sent[d], n + 1, Twice(d), H, Excused(d))
      BY <2>4, <3>1, ToldTaken
    <3>3. H = InHand(d)'
      <4>1. rd' = d <=> HasBody(sent[d][n + 1])
        BY <1>3, <2>2 DEF HasBody
      <4> QED
        BY <2>2, <3>1, <4>1 DEF InHand
    <3> QED
      BY <1>5, <2>2, <2>5, <3>2, <3>3, MoreExcused, AnswersStep
  <2>6. CASE out' = [out EXCEPT ![d] = Append(@, taken'[d])] /\ out' # out
    <3>1. Next1(d).kind = "frame" /\ rd' = rd
      BY <2>6
    <3>2. Told(Append(out[d], n + 1), sent[d], n + 1, Twice(d), {}, Excused(d))
      BY <1>2, <2>2, <2>4, <3>1, ToldFrame
    <3>3. {} = InHand(d)'
      BY <1>3, <3>1 DEF InHand
    <3>4. out'[d] = Append(out[d], n + 1)
      BY <1>2, <2>2, <2>6
    <3> QED
      BY <1>5, <2>2, <3>2, <3>3, <3>4, MoreExcused, AnswersStep
  <2> QED
    BY <2>5, <2>6
<1> QED
  BY <1>4, <1>5

(* What is in hand is said: once, or a handshake twice; or its connection is gone. *)
LEMMA RespondAnswers ==
  ASSUME TypeInv, TypeInv', AnswerInv, Lasts, UNCHANGED <<sent, taken>>,
         NEW d \in Conns, d = rd, rd' = None,
         \/ out' = [out EXCEPT ![d] = Append(@, taken[d])]
         \/ /\ out' = [out EXCEPT ![d] = Append(Append(@, taken[d]), taken[d])]
            /\ taken[d] \in Twice(d)'
         \/ out' = out /\ (peer[d] = "rst" \/ CutByStop(d))
  PROVE  AnswerInv'
<1>1. taken \in [Conns -> Nat] /\ out \in [Conns -> Seq(Nat)] /\ taken[d] <= Len(sent[d])
  BY DEF TypeInv, TypeOK, InFlight
<1>2. rd' \notin Conns
  BY NoneAssumption
<1> SUFFICES ASSUME NEW c \in Conns
             PROVE  Told(out[c], sent[c], taken[c], Twice(c), InHand(c), Excused(c))'
  BY DEF AnswerInv
<1>3. CASE c # d
  <2>1. out'[c] = out[c] /\ taken'[c] = taken[c] /\ ((rd' = c) <=> (rd = c))
    BY <1>1, <1>2, <1>3
  <2> QED
    BY <2>1, AnswersKept
<1>4. CASE c = d
  <2>1. PICK n \in Nat : n = taken[d] /\ n = taken'[d]
    BY <1>1
  <2>2. PICK G, E : G = Twice(d)' /\ E = Excused(d)'
    OBVIOUS
  <2>3. Twice(d) \subseteq G /\ Excused(d) \subseteq E
    BY <2>2, MoreExcused
  <2>4. InHand(d) = {n} /\ InHand(d)' = {}
    BY <1>2, <2>1 DEF InHand
  <2>5. Told(out[d], sent[d], n, Twice(d), {n}, Excused(d))
    BY <2>1, <2>4 DEF AnswerInv
  <2>6. Told(out[d], sent[d], n, G, {n}, E)
    BY <2>3, <2>5, ToldKept
  <2>7. CASE out' = [out EXCEPT ![d] = Append(@, taken[d])]
    <3>1. Told(Append(out[d], n), sent[d], n, G, {}, E)
      BY <1>1, <2>6, ToldAnswered
    <3>2. out'[d] = Append(out[d], n)
      BY <1>1, <2>1, <2>7
    <3> QED
      BY <1>4, <2>1, <2>2, <2>4, <3>1, <3>2
  <2>8. CASE /\ out' = [out EXCEPT ![d] = Append(Append(@, taken[d]), taken[d])]
             /\ taken[d] \in Twice(d)'
    <3>1. Told(Append(Append(out[d], n), n), sent[d], n, G, {}, E)
      BY <1>1, <2>1, <2>2, <2>6, <2>8, ToldAnswered
    <3>2. out'[d] = Append(Append(out[d], n), n)
      BY <1>1, <2>1, <2>8
    <3> QED
      BY <1>4, <2>1, <2>2, <2>4, <3>1, <3>2
  <2>9. CASE out' = out /\ (peer[d] = "rst" \/ CutByStop(d))
    <3>1. E = Nat
      BY <2>2, <2>9 DEF Lasts, Excused
    <3>2. Told(out[d], sent[d], n, G, {}, E)
      BY <2>6, <3>1, ToldLost
    <3> QED
      BY <1>4, <2>1, <2>2, <2>4, <2>9, <3>2
  <2> QED
    BY <2>7, <2>8, <2>9
<1> QED
  BY <1>3, <1>4

(* A dispatch appends at most one answer, to the request taken last. *)
LEMMA DispatchSays ==
  ASSUME NEW fd \in Fds, NEW routes, NEW o, DispatchWebSocket(fd, routes, o)
  PROVE  out' = o \/ out' = [o EXCEPT ![owner[fd]] = Append(@, taken'[owner[fd]])]
<1>1. ASSUME NEW op, Handler(fd, o, op)
      PROVE  out' = o \/ out' = [o EXCEPT ![owner[fd]] = Append(@, taken'[owner[fd]])]
  BY <1>1 DEF Handler
<1> QED
  BY <1>1 DEF DispatchWebSocket

LEMMA HandshakeAnswers ==
  ASSUME TypeInv, TypeInv', AnswerInv, Lasts, HandshakeSent
  PROVE  AnswerInv'
<1>1. PICK d \in Conns : d = rd /\ d = owner[sd] /\ sd \in Fds
  BY DEF HandshakeSent, Goto, Delivered, TypeInv, InFlight
<1>2. PICK n \in Nat : n = taken[d]
  BY DEF TypeInv, TypeOK
<1>3. PICK p : p = sent[d][n].path
  OBVIOUS
<1>4. PICK o : o = [out EXCEPT ![d] = Append(@, n)]
  OBVIOUS
<1>5. PICK routes : DispatchWebSocket(sd, routes, o)
  BY <1>1, <1>2, <1>4 DEF HandshakeSent
<1>6. /\ UNCHANGED <<sent, taken>> /\ rd' = None /\ upgraded' = [upgraded EXCEPT ![d] = p]
      /\ sent[d][n].kind = "upgrade" /\ n \in 1..Len(sent[d])
  BY <1>1, <1>2, <1>3 DEF HandshakeSent, Goto, Idle, TypeInv, InFlight, clientVars
<1>7. out \in [Conns -> Seq(Nat)] /\ upgraded \in [Conns -> Paths \cup {NoPath}]
  BY DEF TypeInv, TypeOK
<1>8. out' = o \/ out' = [o EXCEPT ![d] = Append(@, n)]
  BY <1>1, <1>2, <1>5, <1>6, DispatchSays
<1>9. n \in Twice(d)'
  <2>1. sent[d][n] \in Requests
    BY <1>6 DEF TypeInv, TypeOK
  <2>2. p \in Paths
    BY <1>3, <1>6, <2>1, UpgradePath
  <2>3. upgraded'[d] # NoPath
    BY <1>6, <1>7, <2>2, PathsAssumption DEF NoPath
  <2> QED
    BY <1>6, <2>3 DEF Twice, Greeted
<1>10. \/ out' = [out EXCEPT ![d] = Append(@, n)]
       \/ out' = [out EXCEPT ![d] = Append(Append(@, n), n)]
  BY <1>4, <1>7, <1>8
<1> QED
  BY <1>1, <1>2, <1>6, <1>9, <1>10, RespondAnswers

LEMMA AnswerInvNext ==
  ASSUME TypeInv, TypeInv', SocketInv, InHandInv, AnswerInv, [Next]_vars
  PROVE  AnswerInv'
<1> USE DEF clientVars, sockVars, exchangeVars, stopVars, serverVars
<1>0. Lasts
  BY NextLasts
<1>1. ASSUME UNCHANGED <<taken, out, rd>>
      PROVE  AnswerInv'
  BY <1>0, <1>1, AnswersKept DEF AnswerInv
<1>2. CASE ClientNext
  BY <1>1, <1>2 DEF ClientNext, Connect, Send, Finish, Reset, Stall, Drain
<1>3. CASE StopNext
  BY <1>1, <1>3 DEF StopNext, StopSteps, StopBegin, StopRoute, StopListening, StopFlag
<1>4. CASE LoopNext
  <2>1. CASE RunSocket \/ RunListen \/ RunFail \/ RunStart \/ CheckRunning
    BY <1>1, <2>1 DEF RunSocket, RunListen, RunFail, RunStart, CheckRunning
  <2>2. CASE Poll \/ PollWake \/ PollExpire \/ PollInterrupted
    BY <1>1, <2>2 DEF Poll, PollReturns, Blocks, PollWake, PollExpire, PollInterrupted
  <2>3. CASE (\E fd \in Fds : Accept(fd)) \/ ListenDone \/ EraseClosed
    BY <1>1, <2>3 DEF Accept, ListenDone, EraseClosed
  <2>4. CASE HandshakeFailed \/ KilledBySend101
    BY <1>1, <2>4 DEF HandshakeFailed, KilledBySend101
  <2>5. ASSUME NEW fd \in Fds, HandleClient(fd) PROVE AnswerInv'
    <3>1. CASE ClientFailed(fd) \/ RecvFailed(fd) \/ RecvEof(fd) \/ RecvAgain(fd)
      BY <1>1, <3>1 DEF ClientFailed, RecvFailed, RecvEof, AtEof, RecvAgain, Drop, Skip
    <3>2. ASSUME Recv(fd) PROVE owner[fd] \in Conns
      BY <3>2, RecvType
    <3>3. CASE PerformClose(fd)
      <4>1. /\ Recv(fd) /\ UNCHANGED <<sent, out, rd>> /\ ~HasBody(Next1(owner[fd]))
        BY <3>3 DEF PerformClose, HasBody
      <4> QED
        BY <1>0, <3>2, <4>1, TakeAnswers
    <3>4. CASE PerformFrame(fd)
      <4>1. /\ Recv(fd) /\ UNCHANGED <<sent, rd>> /\ Next1(owner[fd]).kind = "frame"
            /\ DispatchWebSocket(fd, wsRoutes, out)
        BY <3>4 DEF PerformFrame
      <4>2. out' = out \/ out' = [out EXCEPT ![owner[fd]] = Append(@, taken'[owner[fd]])]
        BY <4>1, DispatchSays
      <4> QED
        BY <1>0, <3>2, <4>1, <4>2, TakeAnswers
    <3>5. CASE KilledBySend(fd)
      <4>1. /\ Recv(fd) /\ UNCHANGED <<sent, out, rd>> /\ ~HasBody(Next1(owner[fd]))
        BY <3>5 DEF KilledBySend, HasBody
      <4> QED
        BY <1>0, <3>2, <4>1, TakeAnswers
    <3>6. CASE PerformUpgrade(fd)
      <4>1. /\ Recv(fd) /\ UNCHANGED <<sent, out>> /\ rd' = owner[fd]
            /\ HasBody(Next1(owner[fd]))
        BY <3>6 DEF PerformUpgrade, HasBody
      <4> QED
        BY <1>0, <3>2, <4>1, TakeAnswers
    <3>7. CASE PerformHttp(fd)
      <4>1. /\ Recv(fd) /\ UNCHANGED <<sent, out>>
            /\ rd' = IF HasBody(Next1(owner[fd])) THEN owner[fd] ELSE rd
        BY <3>7 DEF PerformHttp
      <4> QED
        BY <1>0, <3>2, <4>1, TakeAnswers
    <3> QED
      BY <2>5, <3>1, <3>3, <3>4, <3>5, <3>6, <3>7 DEF HandleClient
  <2>6. CASE HandshakeSent
    BY <1>0, <2>6, HandshakeAnswers
  <2>7. CASE ResponseSent \/ ResponseFailed
    <3>1. rd \in Conns /\ pc = "respond" /\ rd' = None /\ UNCHANGED <<sent, taken>>
      BY <2>7 DEF ResponseSent, ResponseFailed, Idle, Goto, TypeInv, InFlight
    <3>2. PICK d \in Conns : d = rd
      BY <3>1
    <3>3. \/ out' = [out EXCEPT ![d] = Append(@, taken[d])]
          \/ out' = out /\ (peer[d] = "rst" \/ CutByStop(d))
      BY <2>7, <3>1, <3>2 DEF ResponseSent, ResponseFailed, SendFails, InHandInv
    <3> QED
      BY <1>0, <3>1, <3>2, <3>3, RespondAnswers
  <2> QED
    BY <1>4, <2>1, <2>2, <2>3, <2>4, <2>5, <2>6, <2>7 DEF LoopNext
<1>5. CASE UNCHANGED vars
  BY <1>1, <1>5 DEF vars
<1> QED
  BY <1>2, <1>3, <1>4, <1>5 DEF Next

LEMMA AnswerInvariant == Spec => []AnswerInv
<1>1. Init => AnswerInv
  <2> SUFFICES ASSUME Init, NEW c \in Conns
               PROVE  Told(out[c], sent[c], taken[c], Twice(c), InHand(c), Excused(c))
    BY DEF AnswerInv
  <2>1. Len(out[c]) = 0 /\ taken[c] = 0 /\ rd # c
    BY NoneAssumption DEF Init
  <2> QED
    BY <2>1 DEF Told, Ordered, Said, InHand
<1>2. TypeInv /\ TypeInv' /\ SocketInv /\ InHandInv /\ AnswerInv /\ [Next]_vars => AnswerInv'
  BY AnswerInvNext
<1> QED
  BY <1>1, <1>2, TypeInvariant, SocketInvariant, InHandInvariant, PTL DEF Spec

(* With any WebSocket routes and stop() at any moment, every request that has a
   response is answered once, in order and on its own connection, a handshake by the
   101 and at most one message of its handler; only the one being answered, or a
   connection that its client has reset or stop() has closed, may lack answers
   (Server::sendResponse, Server::performRequest). *)
THEOREM AlwaysAnsweredOnceInOrder == Spec => []AnsweredOnceInOrder
<1>1. TypeInv /\ AnswerInv => AnsweredOnceInOrder
  <2> SUFFICES ASSUME TypeInv, AnswerInv, NEW c \in Conns
               PROVE
    /\ \A i, j \in 1..Len(out[c]) : i < j =>
         \/ out[c][i] < out[c][j]
         \/ j = i + 1 /\ out[c][i] = out[c][j] /\ Greeted(c, out[c][i])
    /\ \A i \in 1..Len(out[c]) :
         /\ out[c][i] \in 1..taken[c]
         /\ HasBody(sent[c][out[c][i]]) \/ sent[c][out[c][i]].kind = "frame"
    /\ \A k \in 1..taken[c] :
         /\ HasBody(sent[c][k])
         /\ ~(rd = c /\ k = taken[c])
         /\ peer[c] # "rst" /\ ~CutByStop(c)
         => \E i \in 1..Len(out[c]) : out[c][i] = k
    BY DEF AnsweredOnceInOrder
  <2>1. Told(out[c], sent[c], taken[c], Twice(c), InHand(c), Excused(c))
    BY DEF AnswerInv
  <2>2. \A i \in 1..Len(out[c]) : out[c][i] \in Said(out[c])
    BY DEF Said
  <2>3. \A i, j \in 1..Len(out[c]) : i < j =>
          \/ out[c][i] < out[c][j]
          \/ j = i + 1 /\ out[c][i] = out[c][j] /\ Greeted(c, out[c][i])
    BY <2>1 DEF Told, Ordered, Twice
  <2>4. \A i \in 1..Len(out[c]) :
          /\ out[c][i] \in 1..taken[c]
          /\ HasBody(sent[c][out[c][i]]) \/ sent[c][out[c][i]].kind = "frame"
    BY <2>1, <2>2 DEF Told
  <2>5. ASSUME NEW k \in 1..taken[c], HasBody(sent[c][k]), ~(rd = c /\ k = taken[c]),
               peer[c] # "rst", ~CutByStop(c)
        PROVE  \E i \in 1..Len(out[c]) : out[c][i] = k
    <3>1. k \in Said(out[c])
      BY <2>1, <2>5 DEF Told, InHand, Excused
    <3> QED
      BY <3>1 DEF Said
  <2> QED
    BY <2>3, <2>4, <2>5
<1> QED
  BY <1>1, TypeInvariant, AnswerInvariant, PTL

-----------------------------------------------------------------------------
(* Feeds: tasks that write to descriptors beside the loop. *)

(* A feed is of a connection that still has its descriptor, or is gone; and who has
   asked for a stream gets no events of another's by the descriptor it has now. *)
FeedTypes ==
  /\ feeds \subseteq [id : {0} \cup Fds, fd : Fds, for : Conns]
  /\ asked \in Seq(Conns)
  /\ events \in [Conns -> SUBSET Conns]

FeedInv ==
  /\ FeedTypes
  /\ \A f \in feeds : f.id = Id(f.fd)
  /\ \A f \in feeds : owner[f.fd] = f.for \/ phase[f.for] = "closed"
  /\ \A i \in 1..Len(asked) : phase[asked[i]] \in {"accepted", "closed"}
  /\ \A f \in feeds : \A i \in 1..Len(asked) : owner[f.fd] = asked[i] => f.for = asked[i]

(* A task's write is nothing to the server but that a client stops reading. *)
LEMMA FeedsStep ==
  ASSUME TypeInv, SocketInv, FeedInv, [FeedsNext]_allVars
  PROVE  [Next]_vars
<1>1. CASE Beside(Next)
  BY <1>1 DEF Beside
<1>2. ASSUME NEW fd \in Fds, Subscribe(fd) PROVE Next
  BY <1>2 DEF Subscribe, Next, LoopNext, HandleClient
<1>3. ASSUME NEW f \in feeds, Write(f) PROVE [Next]_vars
  <2>1. CASE Wrote(f) \/ WroteNothing(f)
    BY <2>1 DEF Wrote, WroteNothing
  <2>2. CASE WroteSome(f)
    <3>1. PICK c : c = owner[f.fd]
      OBVIOUS
    <3>2. f.fd \in Fds /\ c \in Conns /\ phase[c] = "accepted"
      BY <2>2, <3>1, BoundAssumption, NoneAssumption DEF WroteSome, FeedInv, FeedTypes, SocketInv
    <3>3. Stall(c)
      BY <2>2, <3>1, <3>2 DEF WroteSome, Stall, serverVars
    <3> QED
      BY <3>2, <3>3 DEF Next, ClientNext
  <2> QED
    BY <1>3, <2>1, <2>2 DEF Write
<1>4. CASE UNCHANGED allVars
  BY <1>4 DEF allVars
<1> QED
  BY <1>1, <1>2, <1>3, <1>4 DEF FeedsNext

(* What the loop, the clients and stop() do while the feeds are as they were. *)
LEMMA FeedsLeft ==
  ASSUME TypeInv, SocketInv, FeedInv, [Next]_vars, feeds' \subseteq feeds,
         events' \in [Conns -> SUBSET Conns], UNCHANGED <<table, asked>>
  PROVE  FeedInv'
<1>1. KeepsAccepted
  BY NextKeeps
<1>2. \A c \in Conns : phase[c] = "closed" => phase'[c] = "closed"
  BY <1>1 DEF KeepsAccepted
<1>3. FeedTypes' /\ \A f \in feeds' : f.id = Id(f.fd)'
  BY DEF FeedInv, FeedTypes, Id
<1>4. \A f \in feeds' : f \in feeds /\ f.fd \in Fds /\ f.for \in Conns
  BY DEF FeedInv, FeedTypes
<1>5. \A i \in 1..Len(asked) : asked[i] \in Conns /\ phase[asked[i]] \in {"accepted", "closed"}
  BY DEF FeedInv, FeedTypes
<1>6. ASSUME NEW f \in feeds'
      PROVE  owner'[f.fd] = f.for \/ phase'[f.for] = "closed"
  <2>1. owner[f.fd] = f.for \/ phase[f.for] = "closed"
    BY <1>4 DEF FeedInv
  <2>2. CASE owner[f.fd] = f.for
    <3>1. phase[f.for] = "accepted"
      BY <1>4, <2>2, NoneAssumption DEF SocketInv
    <3> QED
      BY <1>1, <1>4, <2>2, <3>1 DEF KeepsAccepted
  <2> QED
    BY <1>2, <1>4, <2>1, <2>2
<1>7. \A i \in 1..Len(asked) : phase'[asked[i]] \in {"accepted", "closed"}
  BY <1>1, <1>5 DEF KeepsAccepted
<1>8. ASSUME NEW f \in feeds', NEW i \in 1..Len(asked), owner'[f.fd] = asked[i]
      PROVE  f.for = asked[i]
  <2>1. owner[f.fd] = asked[i]
    BY <1>1, <1>4, <1>5, <1>8 DEF KeepsAccepted
  <2> QED
    BY <1>4, <2>1 DEF FeedInv
<1> QED
  BY <1>3, <1>6, <1>7, <1>8 DEF FeedInv

(* The new task replaces the one with its identifier: with the table of Server the one
   of its descriptor, with that of TaskManager the only other one. *)
LEMMA SubscribeFeeds ==
  ASSUME TypeInv, SocketInv, FeedInv, NEW fd \in Fds, Subscribe(fd)
  PROVE  FeedInv'
<1>1. PICK c \in Conns : c = owner[fd] /\ phase[c] = "accepted"
  <2>1. owner[fd] # None
    BY DEF Subscribe, PerformHttp, Recv, Free
  <2> QED
    BY <2>1 DEF TypeInv, TypeOK, SocketInv
<1>2. PICK new : new = [id |-> Id(fd), fd |-> fd, for |-> c]
  OBVIOUS
<1>3. /\ feeds' = {g \in feeds : g.id # new.id} \cup {new} /\ asked' = <<c>> \o asked
      /\ UNCHANGED <<owner, phase, table, events>>
  BY <1>1, <1>2 DEF Subscribe, Replaced, PerformHttp, sockVars
<1>4. /\ new \in [id : {0} \cup Fds, fd : Fds, for : Conns]
      /\ new.id = Id(fd) /\ new.fd = fd /\ new.for = c
  BY <1>2 DEF Id
<1>5. PICK q \in Seq(Conns) : q = asked
  BY DEF FeedInv, FeedTypes
<1>6. /\ asked' \in Seq(Conns)
      /\ \A i \in 1..Len(asked') : asked'[i] = c \/ \E j \in 1..Len(asked) : asked'[i] = asked[j]
  <2>1. <<c>> \o q \in Seq(Conns) /\ Len(<<c>> \o q) = Len(q) + 1
    OBVIOUS
  <2>2. ASSUME NEW i \in 1..Len(q) + 1
        PROVE  (<<c>> \o q)[i] = c \/ (i - 1 \in 1..Len(q) /\ (<<c>> \o q)[i] = q[i - 1])
    OBVIOUS
  <2> QED
    BY <1>3, <1>5, <2>1, <2>2
<1>7. FeedTypes' /\ \A f \in feeds' : f.id = Id(f.fd)'
  BY <1>3, <1>4, <1>6 DEF FeedInv, FeedTypes, Id
<1>8. \A f \in feeds' : owner'[f.fd] = f.for \/ phase'[f.for] = "closed"
  BY <1>1, <1>3, <1>4 DEF FeedInv
<1>9. \A i \in 1..Len(asked') : phase'[asked'[i]] \in {"accepted", "closed"}
  BY <1>1, <1>3, <1>6 DEF FeedInv
<1>10. ASSUME NEW f \in feeds', NEW i \in 1..Len(asked'), owner'[f.fd] = asked'[i]
       PROVE  f.for = asked'[i]
  <2>1. CASE f = new
    BY <1>1, <1>3, <1>4, <1>10, <2>1
  <2>2. CASE f # new
    <3>1. f \in feeds /\ f.id # Id(fd) /\ f.fd \in Fds /\ f.id = Id(f.fd)
      BY <1>3, <1>4, <2>2 DEF FeedInv, FeedTypes
    <3>2. owner[f.fd] # c
      BY <1>1, <3>1, NoneAssumption DEF SocketInv
    <3>3. PICK j \in 1..Len(asked) : asked'[i] = asked[j]
      BY <1>3, <1>6, <1>10, <3>2
    <3> QED
      BY <1>3, <1>10, <3>1, <3>3 DEF FeedInv
  <2> QED
    BY <2>1, <2>2
<1> QED
  BY <1>7, <1>8, <1>9, <1>10 DEF FeedInv

ServerInv == TypeInv /\ SocketInv /\ FeedInv

LEMMA FeedInvNext ==
  ASSUME ServerInv, [FeedsNext]_allVars
  PROVE  FeedInv'
<1>1. TypeInv /\ SocketInv /\ FeedInv /\ [Next]_vars
  BY FeedsStep DEF ServerInv
<1>2. events \in [Conns -> SUBSET Conns]
  BY <1>1 DEF FeedInv, FeedTypes
<1>3. CASE Beside(Next)
  BY <1>1, <1>2, <1>3, FeedsLeft DEF Beside, feedVars
<1>4. ASSUME NEW fd \in Fds, Subscribe(fd) PROVE FeedInv'
  BY <1>1, <1>4, SubscribeFeeds
<1>5. ASSUME NEW f \in feeds, Write(f) PROVE FeedInv'
  <2>1. f.for \in Conns
    BY <1>1 DEF FeedInv, FeedTypes
  <2>2. feeds' \subseteq feeds /\ UNCHANGED <<table, asked>>
    BY <1>5 DEF Write, Wrote, WroteSome, WroteNothing, Ends
  <2>3. events' \in [Conns -> SUBSET Conns]
    BY <1>2, <1>5, <2>1 DEF Write, Wrote, WroteSome, WroteNothing
  <2> QED
    BY <1>1, <2>2, <2>3, FeedsLeft
<1>6. CASE UNCHANGED allVars
  BY <1>1, <1>2, <1>6, FeedsLeft DEF allVars, feedVars
<1> QED
  BY <1>3, <1>4, <1>5, <1>6 DEF FeedsNext

LEMMA FeedsInvariant == FeedsSpec => []ServerInv
<1>1. FeedsInit => ServerInv
  <2> SUFFICES ASSUME FeedsInit
               PROVE  ServerInv
    OBVIOUS
  <2>1. TypeInv /\ SocketInv
    BY InitTypeInv DEF FeedsInit, Init, SocketInv
  <2>2. asked \in Seq(Conns) /\ Len(asked) = 0
    BY DEF FeedsInit
  <2> QED
    BY <2>1, <2>2 DEF FeedsInit, ServerInv, FeedInv, FeedTypes
<1>2. ServerInv /\ [FeedsNext]_allVars => ServerInv'
  BY FeedInvNext, FeedsStep, TypeInvNext, SocketInvNext DEF ServerInv
<1> QED
  BY <1>1, <1>2, PTL DEF FeedsSpec

(* A server with feeds is a server: writing beside the loop does nothing that the
   loop, its clients and the callers of stop() could not do without it. *)
THEOREM FeedsRunTheServer == FeedsSpec => Spec
<1>1. FeedsInit => Init
  BY DEF FeedsInit
<1>2. ServerInv /\ [FeedsNext]_allVars => [Next]_vars
  BY FeedsStep DEF ServerInv
<1> QED
  BY <1>1, <1>2, FeedsInvariant, PTL DEF FeedsSpec, Spec

LEMMA WritesOwnStream ==
  ASSUME ServerInv, NEW f \in feeds, NEW c \in Conns, NEW d \in Conns \ {c},
         c = owner[f.fd], d = f.for
  PROVE  phase[d] = "closed" /\ \A i \in 1..Len(asked) : asked[i] # c
  BY DEF ServerInv, FeedInv

(* Nobody gets events of another's stream but who has inherited the descriptor number
   of a connection that is gone, and has not asked for a stream of its own
   (Server::repeatEvery(), server.h:159; TaskManager::repeatEvery(), worker.h). *)
THEOREM EventsAlwaysOfOwnStream == FeedsSpec => EventsOfOwnStream
<1> DEFINE A == \A c \in Conns : \A d \in Conns \ {c} :
                  d \in events'[c] \ events[c]
                    => phase[d] = "closed" /\ \A i \in 1..Len(asked) : asked[i] # c
<1>1. ASSUME ServerInv, [FeedsNext]_allVars PROVE A
  <2> SUFFICES ASSUME NEW c \in Conns, NEW d \in Conns \ {c}, d \in events'[c] \ events[c]
               PROVE  phase[d] = "closed" /\ \A i \in 1..Len(asked) : asked[i] # c
    OBVIOUS
  <2>1. events \in [Conns -> SUBSET Conns] /\ events' # events
    BY <1>1 DEF ServerInv, FeedInv, FeedTypes
  <2>2. PICK f \in feeds : Wrote(f) \/ WroteSome(f)
    BY <1>1, <2>1 DEF FeedsNext, Beside, Subscribe, Write, WroteNothing, feedVars, allVars
  <2>3. events' = [events EXCEPT ![owner[f.fd]] = @ \cup {f.for}]
    BY <2>2 DEF Wrote, WroteSome
  <2>4. c = owner[f.fd] /\ d = f.for
    BY <2>1, <2>3
  <2> QED
    BY <1>1, <2>4, WritesOwnStream
<1>2. FeedsSpec => [][A]_allVars
  BY <1>1, FeedsInvariant, PTL DEF FeedsSpec
<1> QED
  BY <1>2 DEF EventsOfOwnStream

=============================================================================
