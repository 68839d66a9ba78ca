-------------------------------- MODULE Wire --------------------------------
(***************************************************************************)
(* How http::Server reads the byte stream of a connection: each recv() is   *)
(* taken for one request or one WebSocket frame (Server::performRequest),   *)
(* wherever the network has cut the stream, and nothing is kept from one    *)
(* recv() to the next.                                                      *)
(*                                                                         *)
(* A message is a sequence of parts, the smallest pieces that matter to the *)
(* code; recv() returns any number of the parts that have been sent and not *)
(* been read, up to the size of the buffer.                                 *)
(***************************************************************************)
EXTENDS Integers, Sequences

CONSTANTS
  Kinds,    \* the kinds of messages the client sends
  MaxSent,  \* bound: messages it sends
  RecvMax   \* BUFFER_SIZE, in parts

Http == {"get", "post", "upgrade"}
Frames == {"frame", "close"}

ASSUME KindsAssumption == Kinds \subseteq Http \cup Frames
ASSUME BoundAssumption == MaxSent \in Nat /\ RecvMax \in Nat \ {0}

(* "start" is a piece of the request line without its end, "line" the rest with
   the CRLF, "head" the headers and the empty line; a frame is its first byte
   and the rest. *)
Parts ==
  [get     |-> <<"start", "line", "head">>,
   post    |-> <<"start", "line", "head", "body">>,
   upgrade |-> <<"start", "line", "head">>,
   frame   |-> <<"op", "rest">>,
   close   |-> <<"closeop", "rest">>]

(* Pieces whose bytes are the client's own choice: they may look like anything. *)
Opaque == {"body", "rest"}

VARIABLES
  hasWs,      \* has the server a WebSocket route (wsRoutes.size() > 0)
  hooks,      \* does a pre- or post-routing handler write content whatever the request
  lockstep,   \* does the client wait for each answer before its next request
  sent,       \* the kinds of the messages the client has sent
  chan,       \* the parts sent and not read: message and part
  conn,       \* the connection: open, ended by the client, or closed by the server
  upgraded,   \* does a route of wsRoutes have this descriptor
  answers,    \* the responses: the message and the part that the answered bytes begin
              \* with, what they were parsed as, the body the handler saw
  handled,    \* the messages the WebSocket handler could read
  recvs       \* what recv() has returned

vars == <<hasWs, hooks, lockstep, sent, chan, conn, upgraded, answers, handled, recvs>>

Init ==
  /\ hasWs \in BOOLEAN
  /\ hooks \in BOOLEAN
  /\ lockstep \in BOOLEAN
  /\ sent = <<>>
  /\ chan = <<>>
  /\ conn = "open"
  /\ upgraded = FALSE
  /\ answers = <<>>
  /\ handled = {}
  /\ recvs = <<>>

Message(m, kind) == [i \in 1..Len(Parts[kind]) |-> [msg |-> m, part |-> Parts[kind][i]]]

-----------------------------------------------------------------------------
(* The client: frames once it has the 101, requests before; it waits for the
   101 of an upgrade, and in lockstep for every answer. *)

Waiting == Len(sent) > Len(answers) /\ (lockstep \/ sent[Len(sent)] = "upgrade")

Send(kind) ==
  /\ conn = "open"
  /\ Len(sent) < MaxSent
  /\ IF upgraded THEN kind \in Frames ELSE kind \in Http /\ ~Waiting
  /\ sent' = Append(sent, kind)
  /\ chan' = chan \o Message(Len(sent) + 1, kind)
  /\ UNCHANGED <<hasWs, hooks, lockstep, conn, upgraded, answers, handled, recvs>>

Finish ==
  /\ conn = "open"
  /\ conn' = "finished"
  /\ UNCHANGED <<hasWs, hooks, lockstep, sent, chan, upgraded, answers, handled, recvs>>

-----------------------------------------------------------------------------
(* The server. *)

(* What getWebSocketFrame() makes of the first byte of bytes. *)
Looks(bytes) ==
  LET part == bytes[1].part IN
  IF part \in {"start", "line", "head"} \/ (part \in {"op", "closeop"} /\ Len(bytes) = 1)
  THEN {"text"}
  ELSE IF part = "op" THEN {"frame"}
  ELSE IF part = "closeop" THEN {"close"} ELSE {"text", "frame", "close"} \* Opaque

(* Mutant: any first line counts, so that the rest of a split request does. *)
HasAnyLine(bytes) == \E i \in 1..Len(bytes) : bytes[i].part \in {"line", "head"}

(* Request::parseRequestLine() finds a method only if the request line begins
   and ends here: what is left of a split one has no method with a route. *)
HasLine(bytes) == Len(bytes) >= 2 /\ bytes[1].part = "start"

(* Did the empty line after the headers come with it? *)
HasHead(bytes) == HasLine(bytes) /\ Len(bytes) >= 3

(* Mutant: the body begins at the end of the request line. *)
BodyFromLine(bytes) == SubSeq(bytes, 3, Len(bytes))

(* What Request::Request() finds: a body, or the middle of a frame, may be a request
   of its own, for all that parseRequestLine() can tell. *)
Parses(bytes) ==
  IF bytes[1].part \in Opaque THEN {"none", "request", "upgrade"}
  ELSE IF ~HasLine(bytes) THEN {"none"}
  ELSE IF HasHead(bytes) /\ sent[bytes[1].msg] = "upgrade" THEN {"upgrade"} ELSE {"request"}

(* Request::Request(): everything after the first empty line is the body.  (The body
   of a request found in a body is left out.) *)
Body(bytes) == IF HasHead(bytes) THEN SubSeq(bytes, 4, Len(bytes)) ELSE <<>>

Answer(bytes, parsed) ==
  answers' = Append(answers, [msg    |-> bytes[1].msg,
                              part   |-> bytes[1].part,
                              parsed |-> parsed,
                              body   |-> Body(bytes)])

CloseFrame(look) ==
  /\ hasWs /\ look = "close"
  /\ conn' = "closed"
  /\ UNCHANGED <<upgraded, answers, handled>>

(* WebSocket::readFrame(): the first frame, if it is whole. (What the handler
   reads of bytes out of the middle of a message is left out.) *)
Reads(bytes) == Len(bytes) >= 2 /\ bytes[1].part = "op"

DispatchWebSocket(bytes, look) ==
  /\ hasWs /\ look = "frame"
  /\ handled' = IF upgraded /\ Reads(bytes) THEN handled \cup {bytes[1].msg} ELSE handled
  /\ UNCHANGED <<conn, upgraded, answers>>

(* processWebsocketHandshake() needs the headers. *)
Handshake(bytes, look, parsed) ==
  /\ hasWs /\ look = "text"
  /\ parsed = "upgrade"
  /\ upgraded' = TRUE
  /\ Answer(bytes, parsed)
  /\ UNCHANGED <<conn, handled>>

HandleRoute(bytes, look, parsed) ==
  /\ ~hasWs \/ look = "text"
  /\ parsed = "request" \/ (parsed = "upgrade" /\ ~hasWs)
  /\ Answer(bytes, parsed)
  /\ UNCHANGED <<conn, upgraded, handled>>

(* No method, no route: the response is what the routing handlers write, which run
   for every recv(). *)
NoRequest(bytes, look, parsed) ==
  /\ ~hasWs \/ look = "text"
  /\ parsed = "none"
  /\ IF hooks THEN Answer(bytes, parsed) ELSE UNCHANGED answers
  /\ UNCHANGED <<conn, upgraded, handled>>

(* Server::performRequest() with the first n parts. *)
PerformRequest(n) ==
  /\ conn # "closed"
  /\ n <= RecvMax
  /\ n <= Len(chan)
  /\ LET bytes == SubSeq(chan, 1, n) IN
     \E look \in Looks(bytes), parsed \in Parses(bytes) :
       /\ chan' = SubSeq(chan, n + 1, Len(chan))
       /\ recvs' = Append(recvs, bytes)
       /\ \/ CloseFrame(look)
          \/ DispatchWebSocket(bytes, look)
          \/ Handshake(bytes, look, parsed)
          \/ HandleRoute(bytes, look, parsed)
          \/ NoRequest(bytes, look, parsed)
  /\ UNCHANGED <<hasWs, hooks, lockstep, sent>>

PeerClosed ==
  /\ conn = "finished"
  /\ chan = <<>>
  /\ conn' = "closed"
  /\ UNCHANGED <<hasWs, hooks, lockstep, sent, chan, upgraded, answers, handled, recvs>>

Next ==
  \/ \E kind \in Kinds : Send(kind)
  \/ Finish
  \/ \E n \in 1..RecvMax : PerformRequest(n)
  \/ PeerClosed

Spec == Init /\ [][Next]_vars

-----------------------------------------------------------------------------
(* Every variable stays in its range. *)
Names == {"start", "line", "head", "body", "op", "closeop", "rest"}
Part == [msg : 1..MaxSent, part : Names]
Parsed == {"none", "request", "upgrade"}

TypeOK ==
  /\ hasWs \in BOOLEAN
  /\ hooks \in BOOLEAN
  /\ lockstep \in BOOLEAN
  /\ sent \in Seq(Kinds)
  /\ chan \in Seq(Part)
  /\ conn \in {"open", "finished", "closed"}
  /\ upgraded \in BOOLEAN
  /\ answers \in Seq([msg : 1..MaxSent, part : Names, parsed : Parsed, body : Seq(Part)])
  /\ handled \subseteq 1..MaxSent
  /\ recvs \in Seq(Seq(Part))

(* An answer to what is no request of the client's: bytes without a request line that
   the routing handlers have answered, or a body or a piece of a frame that came first
   in a recv() and was parsed as a request. *)
Stray(answer) == (hooks /\ answer.parsed = "none") \/ answer.part \in Opaque

(* A client that waits for each answer does not take the answer of one request for
   another's, and no handler sees bytes of another request in its body, however the
   network cuts and joins what it sends, until the server has sent a stray answer:
   the server keeps nothing of what recv() returned before, and a wrong answer has
   no other cause than an answered remainder (Server::performRequest,
   server.cc:203-251; Request::parseRequestLine, request.cc:23). *)
LockstepMatched ==
  lockstep =>
    \A k \in 1..Len(answers) :
      (\A j \in 1..k : ~Stray(answers[j])) =>
        /\ answers[k].msg = k
        /\ \A i \in 1..Len(answers[k].body) : answers[k].body[i].msg = k

Own(m) == Message(m, sent[m])

(* Whatever was cut or joined before it, a message that one recv() returns
   alone is served for what it is: a request is answered with its own body, a
   frame of an upgraded connection is read by the handler, a Close frame
   closes (Server::performRequest, server.cc:203). *)
OwnRecvServed ==
  \A i \in 1..Len(recvs) : LET m == recvs[i][1].msg IN
    recvs[i] = Own(m) =>
      /\ sent[m] \in Http =>
           \E k \in 1..Len(answers) :
             answers[k].msg = m /\ answers[k].body = SubSeq(Own(m), 4, Len(Own(m)))
      /\ sent[m] = "frame" => m \in handled
      /\ sent[m] = "close" => conn = "closed"

=============================================================================
