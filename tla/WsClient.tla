------------------------------ MODULE WsClient ------------------------------
(***************************************************************************)
(* WebSocketClient objects (src/src/websocketclient.h) of one process, each *)
(* used by a thread of its own: the life of their sockets, the handshake    *)
(* and what they send and receive.                                         *)
(*                                                                         *)
(* A descriptor is a number that the kernel hands out again; disconnect()   *)
(* leaves the number in the object, and a later connect() uses it whoever   *)
(* it belongs to by then.  What a server writes on a connection is counted  *)
(* in pieces: the first two are its status line, the third the rest of the  *)
(* response's headers, the others are what it sends through the WebSocket.  *)
(***************************************************************************)
EXTENDS Integers, Sequences

CONSTANTS
  Objects,   \* the objects the program constructs
  Fds,       \* the descriptor numbers socket() may return
  MaxWrote,  \* bound: pieces a server writes on one connection
  NoSock     \* no socket

NoFd == -1
Status == 2    \* the pieces of "HTTP/1.1 101 Switching Protocols"
Greeting == 3    \* the pieces of the response to the handshake

ASSUME FdsAssumption == Fds \subseteq Nat
ASSUME BoundAssumption == MaxWrote \in Nat /\ MaxWrote >= Greeting

(* A socket: unconnected, or with the state of the server's end of it, its
   answer to the handshake, and the pieces written and read. *)
Ends == {"unconnected", "open", "closed", "reset"}
Sockets == [end : Ends, asked : BOOLEAN, reply : {"none", "switched", "refused"},
            wrote : 0..MaxWrote, read : 0..MaxWrote]
ASSUME NoSockAssumption == NoSock \notin Sockets

Unconnected ==
  [end |-> "unconnected", asked |-> FALSE, reply |-> "none", wrote |-> 0, read |-> 0]

VARIABLES
  life,        \* of each object: not constructed, live, destroyed, or never made
  fd,          \* socket_fd_
  connected,   \* connected_
  call,        \* the call its thread is in, once it has to wait for the server
  shook,       \* the result of handshake() since the last connect()
  skipped,     \* the pieces handshake() has read since then
  got,         \* the pieces receiveMessage() has returned since then
  sock,        \* the kernel: the socket of each descriptor
  killed       \* has SIGPIPE ended the process

objVars == <<life, fd, connected, call, shook, skipped, got>>
vars == <<objVars, sock, killed>>

Init ==
  /\ life = [o \in Objects |-> "none"]
  /\ fd = [o \in Objects |-> NoFd]
  /\ connected = [o \in Objects |-> FALSE]
  /\ call = [o \in Objects |-> "none"]
  /\ shook = [o \in Objects |-> FALSE]
  /\ skipped = [o \in Objects |-> 0]
  /\ got = [o \in Objects |-> <<>>]
  /\ sock = [f \in Fds |-> NoSock]
  /\ killed = FALSE

-----------------------------------------------------------------------------
(* Construction, connection, destruction. *)

Free(f) == sock[f] = NoSock
LowestFree(f) == Free(f) /\ \A g \in Fds : Free(g) => f <= g

Construct(o, f) ==
  /\ ~killed
  /\ life[o] = "none"
  /\ LowestFree(f)
  /\ life' = [life EXCEPT ![o] = "live"]
  /\ fd' = [fd EXCEPT ![o] = f]
  /\ sock' = [sock EXCEPT ![f] = Unconnected]
  /\ UNCHANGED <<connected, call, shook, skipped, got, killed>>

(* socket() fails: the constructor throws. *)
ConstructThrows(o) ==
  /\ ~killed
  /\ life[o] = "none"
  /\ \A f \in Fds : ~Free(f)
  /\ life' = [life EXCEPT ![o] = "thrown"]
  /\ UNCHANGED <<fd, connected, call, shook, skipped, got, sock, killed>>

Calls(o) == ~killed /\ life[o] = "live" /\ call[o] = "none"

(* Mutant: a socket that is connected already (EISCONN) counts as a success. *)
ConnectAgain(o) ==
  /\ Calls(o)
  /\ ~Free(fd[o])
  /\ connected' = [connected EXCEPT ![o] = TRUE]
  /\ shook' = [shook EXCEPT ![o] = FALSE]
  /\ skipped' = [skipped EXCEPT ![o] = 0]
  /\ got' = [got EXCEPT ![o] = <<>>]
  /\ sock' = IF sock[fd[o]].end = "unconnected"
             THEN [sock EXCEPT ![fd[o]].end = "open"] ELSE sock
  /\ UNCHANGED <<life, fd, call, killed>>

(* connect(), which fails with a bad host, a server that refuses, and a
   descriptor that is closed or connected already: then nothing changes. *)
Connect(o) ==
  /\ Calls(o)
  /\ ~Free(fd[o])
  /\ sock[fd[o]].end = "unconnected"
  /\ connected' = [connected EXCEPT ![o] = TRUE]
  /\ shook' = [shook EXCEPT ![o] = FALSE]
  /\ skipped' = [skipped EXCEPT ![o] = 0]
  /\ got' = [got EXCEPT ![o] = <<>>]
  /\ sock' = [sock EXCEPT ![fd[o]].end = "open"]
  /\ UNCHANGED <<life, fd, call, killed>>

(* What close() and connected_ = false do. *)
Closed(o) ==
  IF connected[o]
  THEN /\ sock' = [sock EXCEPT ![fd[o]] = NoSock]
       /\ connected' = [connected EXCEPT ![o] = FALSE]
  ELSE UNCHANGED <<sock, connected>>

(* Mutant: connected_ stays set. *)
DisconnectKeeps(o) ==
  /\ Calls(o)
  /\ connected[o]
  /\ sock' = [sock EXCEPT ![fd[o]] = NoSock]
  /\ UNCHANGED <<life, fd, connected, call, shook, skipped, got, killed>>

Disconnect(o) ==
  /\ Calls(o)
  /\ connected[o]
  /\ Closed(o)
  /\ UNCHANGED <<life, fd, call, shook, skipped, got, killed>>

(* ~WebSocketClient(): the socket of an object that is not connected stays. *)
Destroy(o) ==
  /\ Calls(o)
  /\ life' = [life EXCEPT ![o] = "gone"]
  /\ Closed(o)
  /\ UNCHANGED <<fd, call, shook, skipped, got, killed>>

-----------------------------------------------------------------------------
(* handshake(), sendMessage(), sendPing(), receiveMessage(). *)

S(o) == sock[fd[o]]

(* send() without MSG_NOSIGNAL: a connection that is reset ends the process;
   one that the server has closed is reset by what is sent. *)
SendsOn(o, s) ==
  IF S(o).end = "reset"
  THEN killed' = TRUE /\ UNCHANGED sock
  ELSE /\ sock' = [sock EXCEPT ![fd[o]] =
                     IF S(o).end = "closed" THEN [s EXCEPT !.end = "reset"] ELSE s]
       /\ UNCHANGED killed

(* The callers shake hands once on a connection. *)
HandshakeSends(o) ==
  /\ Calls(o)
  /\ connected[o]
  /\ ~S(o).asked
  /\ SendsOn(o, [S(o) EXCEPT !.asked = TRUE])
  /\ call' = [call EXCEPT ![o] = "handshake"]
  /\ UNCHANGED <<life, fd, connected, shook, skipped, got>>

SendMessage(o) ==
  /\ Calls(o)
  /\ connected[o]
  /\ S(o).asked
  /\ SendsOn(o, S(o))
  /\ UNCHANGED objVars

Receive(o) ==
  /\ Calls(o)
  /\ connected[o]
  /\ S(o).asked
  /\ call' = [call EXCEPT ![o] = "receive"]
  /\ UNCHANGED <<life, fd, connected, shook, skipped, got, sock, killed>>

(* recv() returns n pieces. *)
Reads(o, n) ==
  /\ ~killed
  /\ S(o).end # "reset"
  /\ S(o).read + n <= S(o).wrote
  /\ sock' = [sock EXCEPT ![fd[o]].read = @ + n]

(* The search for "101 Switching Protocols" in what one recv() returned. *)
Accepts(o, n) == S(o).reply = "switched" /\ S(o).read = 0 /\ n >= Status

HandshakeReads(o, n) ==
  /\ call[o] = "handshake"
  /\ Reads(o, n)
  /\ shook' = [shook EXCEPT ![o] = Accepts(o, n)]
  /\ skipped' = [skipped EXCEPT ![o] = n]
  /\ call' = [call EXCEPT ![o] = "none"]
  /\ UNCHANGED <<life, fd, connected, got, killed>>

ReceiveReads(o, n) ==
  /\ call[o] = "receive"
  /\ Reads(o, n)
  /\ got' = [got EXCEPT ![o] = @ \o [i \in 1..n |-> S(o).read + i]]
  /\ call' = [call EXCEPT ![o] = "none"]
  /\ UNCHANGED <<life, fd, connected, shook, skipped, killed>>

(* recv() returns 0 or fails: false, or an empty string. *)
ReadsNothing(o) ==
  /\ ~killed
  /\ call[o] \in {"handshake", "receive"}
  /\ S(o).end = "reset" \/ (S(o).end = "closed" /\ S(o).read = S(o).wrote)
  /\ call' = [call EXCEPT ![o] = "none"]
  /\ UNCHANGED <<life, fd, connected, shook, skipped, got, sock, killed>>

-----------------------------------------------------------------------------
(* The server's end of a connection. *)

Serves(f) == ~killed /\ ~Free(f) /\ sock[f].end = "open"

Reply(f, r) ==
  /\ Serves(f)
  /\ sock[f].asked
  /\ sock[f].reply = "none"
  /\ sock' = [sock EXCEPT ![f].reply = r, ![f].wrote = Greeting]
  /\ UNCHANGED <<objVars, killed>>

Push(f) ==
  /\ Serves(f)
  /\ sock[f].reply = "switched"
  /\ sock[f].wrote < MaxWrote
  /\ sock' = [sock EXCEPT ![f].wrote = @ + 1]
  /\ UNCHANGED <<objVars, killed>>

End(f, e) ==
  /\ Serves(f)
  /\ sock' = [sock EXCEPT ![f].end = e]
  /\ UNCHANGED <<objVars, killed>>

ServerNext ==
  \E f \in Fds :
    \/ \E r \in {"switched", "refused"} : Reply(f, r)
    \/ Push(f)
    \/ \E e \in {"closed", "reset"} : End(f, e)

ObjectNext(o) ==
  \/ \E f \in Fds : Construct(o, f)
  \/ ConstructThrows(o)
  \/ Connect(o) \/ Disconnect(o) \/ Destroy(o)
  \/ HandshakeSends(o) \/ SendMessage(o) \/ Receive(o)
  \/ \E n \in 1..MaxWrote : HandshakeReads(o, n) \/ ReceiveReads(o, n)
  \/ ReadsNothing(o)

Next == ServerNext \/ \E o \in Objects : ObjectNext(o)

Spec == Init /\ [][Next]_vars

-----------------------------------------------------------------------------
(* Every variable stays in its range. *)
TypeOK ==
  /\ life \in [Objects -> {"none", "live", "gone", "thrown"}]
  /\ fd \in [Objects -> Fds \cup {NoFd}]
  /\ connected \in [Objects -> BOOLEAN]
  /\ call \in [Objects -> {"none", "handshake", "receive"}]
  /\ shook \in [Objects -> BOOLEAN]
  /\ skipped \in [Objects -> 0..MaxWrote]
  /\ got \in [Objects -> Seq(1..MaxWrote)]
  /\ sock \in [Fds -> Sockets \cup {NoSock}]
  /\ killed \in BOOLEAN

Uses(o, f) == life[o] = "live" /\ connected[o] /\ fd[o] = f

(* Although a number may go from one object to another, and an object may
   connect the socket of another, each connected socket is in the hands of
   exactly one object that believes to be connected, which will close it; and
   an object that believes so has a connected socket.  What leaks are the
   sockets that were never connected (WebSocketClient::disconnect(),
   websocketclient.h:53). *)
OneUserPerConnection ==
  /\ \A f \in Fds : ~Free(f) /\ sock[f].end # "unconnected" => \E o \in Objects : Uses(o, f)
  /\ \A o \in Objects : connected[o] => 
       /\ fd[o] \in Fds /\ ~Free(fd[o]) /\ S(o).end # "unconnected"
       /\ \A p \in Objects \ {o} : connected[p] => fd[p] # fd[o]

(* A connected object receives what the server sent on its one connection,
   without a gap, from where the handshake stopped reading: only what came in
   the same recv() as the 101 is lost; and handshake() says yes only of a
   server that has switched (websocketclient.h:60, 162). *)
ReceivedWithoutGap ==
  \A o \in Objects : connected[o] =>
    /\ got[o] = [i \in 1..Len(got[o]) |-> skipped[o] + i]
    /\ S(o).read = skipped[o] + Len(got[o])
    /\ shook[o] => S(o).reply = "switched"

=============================================================================
