----------------------------- MODULE WireProofs -----------------------------
(***************************************************************************)
(* A client in lockstep is answered in order, and a message that comes     *)
(* alone is served, for any number of messages, any size of the buffer and *)
(* any cutting of the stream; and a frame is told whole from cut, for any  *)
(* length of its payload.                                                  *)
(***************************************************************************)
EXTENDS Wire, Framing, TLAPS

Piece == [msg : Nat, part : Names]
Reply == [msg : Nat, part : Names, parsed : Parsed, body : Seq(Piece)]

Types ==
  /\ sent \in Seq(Kinds)
  /\ chan \in Seq(Piece)
  /\ answers \in Seq(Reply)
  /\ upgraded \in BOOLEAN

(* The beginning of a request is in the channel only while its client waits for
   the answer, and then nothing of a later message is behind it.  (What is left
   of earlier requests may be before it.) *)
StartInv ==
  \A i \in 1..Len(chan) : chan[i].part = "start" =>
    /\ ~upgraded
    /\ Len(sent) = Len(answers) + 1
    /\ chan[i].msg = Len(sent)
    /\ \A j \in 1..Len(chan) : j > i => chan[j].msg = Len(sent) /\ chan[j].part # "start"

Matched ==
  \A k \in 1..Len(answers) :
    /\ answers[k].msg = k
    /\ \A i \in 1..Len(answers[k].body) : answers[k].body[i].msg = k

WireInv ==
  /\ Types
  /\ Len(answers) <= Len(sent)
  /\ StartInv
  /\ Matched

(* No answer so far is to anything but a request. *)
NoneStray == \A k \in 1..Len(answers) : ~Stray(answers[k])

(* After a stray answer the client no longer knows what is answered. *)
LockstepInv ==
  /\ Types
  /\ lockstep /\ NoneStray => WireInv
  /\ LockstepMatched

-----------------------------------------------------------------------------
(* The parts of a message are all its own; only the first is a start, and only
   that of a request. *)
LEMMA MessageParts ==
  ASSUME NEW m \in Nat, NEW kind \in Http \cup Frames
  PROVE  /\ Message(m, kind) \in Seq(Piece)
         /\ Len(Message(m, kind)) > 0
         /\ \A i \in 1..Len(Message(m, kind)) :
              /\ Message(m, kind)[i].msg = m
              /\ Message(m, kind)[i].part = "start" => i = 1 /\ kind \in Http
<1>1. /\ Parts[kind] \in Seq(Names) /\ Len(Parts[kind]) > 0
      /\ \A i \in 1..Len(Parts[kind]) : Parts[kind][i] = "start" => i = 1 /\ kind \in Http
  <2>1. CASE kind \in {"get", "upgrade"}
    <3>1. Parts[kind] = <<"start", "line", "head">>
      BY <2>1 DEF Parts
    <3> QED
      BY <2>1, <3>1 DEF Http, Names
  <2>2. CASE kind = "post"
    <3>1. Parts[kind] = <<"start", "line", "head", "body">>
      BY <2>2 DEF Parts
    <3> QED
      BY <2>2, <3>1 DEF Http, Names
  <2>3. CASE kind = "frame"
    <3>1. Parts[kind] = <<"op", "rest">>
      BY <2>3 DEF Parts
    <3> QED
      BY <2>3, <3>1 DEF Names
  <2>4. CASE kind = "close"
    <3>1. Parts[kind] = <<"closeop", "rest">>
      BY <2>4 DEF Parts
    <3> QED
      BY <2>4, <3>1 DEF Names
  <2> QED
    BY <2>1, <2>2, <2>3, <2>4 DEF Http, Frames
<1>2. Len(Message(m, kind)) = Len(Parts[kind])
  BY <1>1 DEF Message
<1> QED
  BY <1>1, <1>2 DEF Message, Piece

LEMMA InitWireInv == Init => WireInv
<1> SUFFICES ASSUME Init
             PROVE  WireInv
  OBVIOUS
<1>1. sent = <<>> /\ chan = <<>> /\ answers = <<>> /\ upgraded = FALSE
  BY DEF Init
<1>2. \A S : <<>> \in Seq(S) /\ Len(<<>>) = 0
  OBVIOUS
<1>3. Types
  BY <1>1, <1>2 DEF Types
<1> QED
  BY <1>1, <1>2, <1>3 DEF WireInv, StartInv, Matched

LEMMA SendTypes ==
  ASSUME Types, NEW kind \in Kinds, Send(kind)
  PROVE  Types'
<1>1. kind \in Http \cup Frames /\ Len(sent) + 1 \in Nat
  BY KindsAssumption DEF Types
<1>2. Message(Len(sent) + 1, kind) \in Seq(Piece)
  BY <1>1, MessageParts
<1>3. /\ sent' = Append(sent, kind) /\ chan' = chan \o Message(Len(sent) + 1, kind)
      /\ UNCHANGED <<upgraded, answers>>
  BY DEF Send
<1> QED
  BY <1>2, <1>3 DEF Types

LEMMA SendWire ==
  ASSUME WireInv, lockstep, NEW kind \in Kinds, Send(kind)
  PROVE  WireInv'
<1> DEFINE N == Len(sent) + 1
           msg == Message(N, kind)
<1>1. kind \in Http \cup Frames /\ N \in Nat
  BY KindsAssumption DEF WireInv, Types
<1>2. /\ msg \in Seq(Piece) /\ Len(msg) > 0
      /\ \A i \in 1..Len(msg) : /\ msg[i].msg = N
                                /\ msg[i].part = "start" => i = 1 /\ kind \in Http
  BY <1>1, MessageParts
<1>3. sent' = Append(sent, kind) /\ chan' = chan \o msg
      /\ UNCHANGED <<upgraded, answers>>
  BY DEF Send
<1> HIDE DEF msg
<1>4. Types'
  BY <1>2, <1>3 DEF WireInv, Types
<1>5. Len(sent') = N /\ Len(chan') = Len(chan) + Len(msg)
  BY <1>2, <1>3 DEF WireInv, Types
<1>6. \A i \in 1..Len(chan) : chan[i].part # "start"
  BY DEF WireInv, Types, StartInv, Send, Waiting, Http, Frames
<1>7. \A i \in 1..Len(chan') :
        \/ i \in 1..Len(chan) /\ chan'[i] = chan[i]
        \/ i - Len(chan) \in 1..Len(msg) /\ chan'[i] = msg[i - Len(chan)]
  BY <1>2, <1>3, <1>5 DEF WireInv, Types
<1>8. kind \in Http => ~upgraded /\ Len(sent) = Len(answers)
  BY DEF Send, Waiting, WireInv, Types, Http, Frames
<1>9. StartInv'
  <2> SUFFICES ASSUME NEW i \in 1..Len(chan'), chan'[i].part = "start"
               PROVE  /\ ~upgraded'
                      /\ Len(sent') = Len(answers') + 1
                      /\ chan'[i].msg = Len(sent')
                      /\ \A j \in 1..Len(chan') : j > i =>
                           chan'[j].msg = Len(sent') /\ chan'[j].part # "start"
    BY DEF StartInv
  <2>1. i = Len(chan) + 1 /\ chan'[i] = msg[1] /\ kind \in Http
    <3>1. Len(chan) \in Nat /\ Len(msg) \in Nat /\ Len(chan') \in Nat
      BY <1>2, <1>5 DEF WireInv, Types
    <3>2. i - Len(chan) \in 1..Len(msg) /\ chan'[i] = msg[i - Len(chan)]
      BY <1>6, <1>7, Zenon
    <3>3. i - Len(chan) = 1 /\ kind \in Http
      BY <1>2, <3>2, Zenon
    <3>4. i = Len(chan) + 1
      BY <3>1, <3>3
    <3> QED
      BY <3>2, <3>3, <3>4
  <2>2. \A j \in 1..Len(chan') : j > i => chan'[j] = msg[j - Len(chan)] /\ j - Len(chan) > 1
                                           /\ j - Len(chan) \in 1..Len(msg)
    BY <2>1, <1>7, <1>2 DEF WireInv, Types
  <2> QED
    BY <2>1, <2>2, <1>2, <1>3, <1>5, <1>8
<1> QED
  <2>1. Len(answers') <= Len(sent')
    BY <1>3, <1>5 DEF WireInv, Types
  <2>2. Matched'
    BY <1>3 DEF WireInv, Matched
  <2> QED
    BY <2>1, <2>2, <1>4, <1>9 DEF WireInv

(* What recv() takes from the front leaves the rest as it was. *)
LEMMA TakeWire ==
  ASSUME WireInv, NEW n \in 1..Len(chan), chan' = SubSeq(chan, n + 1, Len(chan))
  PROVE  /\ chan' \in Seq(Piece)
         /\ \A i \in 1..Len(chan') : i + n \in 1..Len(chan) /\ chan'[i] = chan[i + n]
<1>1. Len(chan') = Len(chan) - n /\ \A i \in 1..Len(chan') : chan'[i] = chan[i + n]
  <2>1. chan \in Seq(Piece) /\ n + 1 \in 1..Len(chan) + 1 /\ Len(chan) \in Nat
    BY DEF WireInv, Types
  <2> QED
    BY <2>1
<1> QED
  BY <1>1, SMTT(30) DEF WireInv, Types

(* The request that is answered is the one its client waits for. *)
LEMMA AnswerWire ==
  ASSUME WireInv, NEW n \in 1..Len(chan), HasLine(SubSeq(chan, 1, n)),
         NEW parsed \in Parses(SubSeq(chan, 1, n)), Answer(SubSeq(chan, 1, n), parsed),
         chan' = SubSeq(chan, n + 1, Len(chan)),
         UNCHANGED sent, upgraded' \in BOOLEAN
  PROVE  WireInv'
<1> DEFINE bytes == SubSeq(chan, 1, n)
<1>1. bytes \in Seq(Piece) /\ Len(bytes) = n /\ \A i \in 1..n : bytes[i] = chan[i]
  BY DEF WireInv, Types
<1>2. chan[1].part = "start" /\ n >= 2
  BY <1>1 DEF HasLine
<1>3. /\ Len(sent) = Len(answers) + 1
      /\ \A j \in 1..Len(chan) : chan[j].msg = Len(sent) /\ (j > 1 => chan[j].part # "start")
  BY <1>2 DEF WireInv, StartInv
<1>4. Body(bytes) \in Seq(Piece)
      /\ \A i \in 1..Len(Body(bytes)) : Body(bytes)[i].msg = Len(sent)
  <2>1. CASE HasHead(bytes)
    <3>1. n >= 3
      BY <2>1, <1>1 DEF HasHead
    <3>2. Body(bytes) = SubSeq(bytes, 4, n)
      BY <2>1, <1>1 DEF Body
    <3>3. Len(SubSeq(bytes, 4, n)) = n - 3
          /\ \A i \in 1..n - 3 : SubSeq(bytes, 4, n)[i] = bytes[i + 3]
      BY <3>1, <1>1
    <3>4. SubSeq(bytes, 4, n) \in Seq(Piece)
      BY <3>1, <3>3, <1>1
    <3>5. \A i \in 1..n - 3 : i + 3 \in 1..Len(chan) /\ bytes[i + 3] = chan[i + 3]
      BY <3>1, <1>1
    <3> QED
      <4>1. Len(Body(bytes)) = n - 3
        BY <3>2, <3>3
      <4>2. \A i \in 1..n - 3 : Body(bytes)[i] = chan[i + 3] /\ chan[i + 3].msg = Len(sent)
        BY <3>2, <3>3, <3>5, <1>3
      <4> QED
        BY <3>2, <3>4, <4>1, <4>2
  <2>2. CASE ~HasHead(bytes)
    BY <2>2 DEF Body
  <2> QED
    BY <2>1, <2>2
<1> DEFINE reply == [msg |-> Len(sent), part |-> bytes[1].part, parsed |-> parsed,
                     body |-> Body(bytes)]
<1>5. answers' = Append(answers, reply)
  BY <1>1, <1>2, <1>3 DEF Answer
<1> HIDE DEF bytes
<1>6. chan' \in Seq(Piece) /\ \A i \in 1..Len(chan') : chan'[i].part # "start"
  BY <1>3, TakeWire
<1>7. reply \in Reply /\ reply.msg = Len(sent) /\ reply.body = Body(bytes)
  <2>1. bytes[1].part \in Names
    BY <1>1, <1>2 DEF Piece, Names, bytes
  <2>2. parsed \in Parsed
    BY DEF Parses, Parsed
  <2>3. Len(sent) \in Nat
    BY DEF WireInv, Types
  <2> QED
    BY <1>4, <2>1, <2>2, <2>3 DEF Reply
<1> HIDE DEF reply
<1>8. Types' /\ Len(answers') = Len(answers) + 1
  BY <1>5, <1>6, <1>7 DEF WireInv, Types
<1>9. Matched'
  <2>1. Len(answers) \in Nat
        /\ \A k \in 1..Len(answers') :
             \/ k \in 1..Len(answers) /\ answers'[k] = answers[k]
             \/ k = Len(answers) + 1 /\ answers'[k] = reply
    BY <1>5, <1>7, <1>8 DEF WireInv, Types
  <2>2. reply.msg = Len(answers) + 1
        /\ \A i \in 1..Len(reply.body) : reply.body[i].msg = Len(answers) + 1
    <3>1. \A i \in 1..Len(reply.body) : reply.body[i].msg = Len(sent)
      BY <1>4, <1>7, Zenon
    <3> QED
      BY <1>3, <1>7, <3>1, Zenon
  <2> QED
    BY <2>1, <2>2, Zenon DEF WireInv, Matched
<1>10. StartInv'
  BY <1>6 DEF StartInv
<1> QED
  BY <1>3, <1>8, <1>9, <1>10 DEF WireInv, Types

(* What one recv() adds to the answers. *)
LEMMA PerformAnswers ==
  ASSUME Types, NEW n \in 1..RecvMax, PerformRequest(n)
  PROVE  /\ n \in 1..Len(chan) /\ chan' = SubSeq(chan, n + 1, Len(chan))
         /\ UNCHANGED <<sent, hooks, lockstep>>
         /\ upgraded' \in BOOLEAN
         /\ \/ UNCHANGED <<upgraded, answers>>
            \/ \E parsed \in Parses(SubSeq(chan, 1, n)) :
                 /\ Answer(SubSeq(chan, 1, n), parsed)
                 /\ parsed = "none" => hooks = TRUE /\ upgraded' = upgraded
<1> DEFINE bytes == SubSeq(chan, 1, n)
<1>1. /\ n \in 1..Len(chan) /\ chan' = SubSeq(chan, n + 1, Len(chan))
      /\ UNCHANGED <<sent, hooks, lockstep>>
  BY DEF PerformRequest, Types
<1>2. PICK look \in Looks(bytes), parsed \in Parses(bytes) :
        \/ CloseFrame(look)
        \/ DispatchWebSocket(bytes, look)
        \/ Handshake(bytes, look, parsed)
        \/ HandleRoute(bytes, look, parsed)
        \/ NoRequest(bytes, look, parsed)
  <2> HIDE DEF bytes
  <2> QED
    BY DEF PerformRequest, bytes
<1>3. CASE CloseFrame(look) \/ DispatchWebSocket(bytes, look)
  BY <1>1, <1>3 DEF CloseFrame, DispatchWebSocket, Types
<1>4. CASE Handshake(bytes, look, parsed) \/ HandleRoute(bytes, look, parsed)
  BY <1>1, <1>4 DEF Handshake, HandleRoute, Types
<1>5. CASE NoRequest(bytes, look, parsed)
  BY <1>1, <1>5, hooks = TRUE \/ ~hooks DEF NoRequest, Types
<1> QED
  BY <1>2, <1>3, <1>4, <1>5

(* Every answer is a reply; one that is not stray begins with a request line. *)
LEMMA AnswerReply ==
  ASSUME Types, NEW n \in 1..Len(chan), NEW parsed \in Parses(SubSeq(chan, 1, n)),
         Answer(SubSeq(chan, 1, n), parsed), parsed = "none" => hooks = TRUE
  PROVE  \E reply \in Reply :
           /\ answers' = Append(answers, reply)
           /\ ~Stray(reply) => HasLine(SubSeq(chan, 1, n))
<1> DEFINE bytes == SubSeq(chan, 1, n)
<1>1. bytes \in Seq(Piece) /\ Len(bytes) = n /\ bytes[1] = chan[1] /\ bytes[1] \in Piece
  BY DEF Types
<1>2. Body(bytes) \in Seq(Piece)
  BY <1>1 DEF Body, HasHead, HasLine
<1> DEFINE reply == [msg |-> bytes[1].msg, part |-> bytes[1].part, parsed |-> parsed,
                     body |-> Body(bytes)]
<1>3. parsed \in Parsed
  BY DEF Parses, Parsed
<1>4. reply \in Reply
  BY <1>1, <1>2, <1>3 DEF Reply, Piece
<1>5. ~Stray(reply) => HasLine(bytes)
  BY DEF Stray, Parses
<1>6. answers' = Append(answers, reply)
  BY DEF Answer
<1> QED
  BY <1>4, <1>5, <1>6

(* While no answer is stray, the request that is answered is the one waited for. *)
LEMMA PerformWire ==
  ASSUME WireInv, NEW n \in 1..RecvMax, PerformRequest(n), NoneStray'
  PROVE  WireInv'
<1> DEFINE bytes == SubSeq(chan, 1, n)
<1>1. /\ n \in 1..Len(chan) /\ chan' = SubSeq(chan, n + 1, Len(chan))
      /\ UNCHANGED <<sent, hooks>> /\ upgraded' \in BOOLEAN
  BY PerformAnswers DEF WireInv
<1>2. CASE UNCHANGED <<upgraded, answers>>
  <2>1. chan' \in Seq(Piece)
        /\ \A i \in 1..Len(chan') : i + n \in 1..Len(chan) /\ chan'[i] = chan[i + n]
    BY <1>1, TakeWire
  <2>2. StartInv'
    BY <1>1, <1>2, <2>1 DEF WireInv, StartInv
  <2> QED
    BY <1>1, <1>2, <2>1, <2>2 DEF WireInv, Types, Matched
<1>3. ASSUME NEW parsed \in Parses(bytes), Answer(bytes, parsed),
             parsed = "none" => hooks = TRUE
      PROVE  WireInv'
  <2>1. PICK reply \in Reply : /\ answers' = Append(answers, reply)
                               /\ ~Stray(reply) => HasLine(bytes)
    BY <1>1, <1>3, AnswerReply DEF WireInv
  <2>2. ~Stray(reply)
    <3>1. Len(answers) \in Nat /\ answers \in Seq(Reply)
      BY DEF WireInv, Types
    <3>2. Len(answers) + 1 \in 1..Len(answers') /\ answers'[Len(answers) + 1] = reply
      BY <2>1, <3>1
    <3>3. PICK l : l = Len(answers) + 1
      OBVIOUS
    <3>4. l \in 1..Len(answers') /\ answers'[l] = reply
      BY <3>2, <3>3
    <3> QED
      BY <1>1, <3>4 DEF NoneStray, Stray
  <2> QED
    BY <1>1, <1>3, <2>1, <2>2, AnswerWire
<1> QED
  BY <1>2, <1>3, PerformAnswers DEF WireInv

(* A stray answer is remembered, and nothing is said of the answers after it. *)
LEMMA StrayStays ==
  ASSUME LockstepInv, lockstep, UNCHANGED <<hooks, lockstep>>,
         answers' = answers \/ \E reply \in Reply : answers' = Append(answers, reply)
  PROVE  /\ NoneStray' => NoneStray
         /\ (NoneStray' => Matched') => LockstepMatched'
<1>1. \A k \in 1..Len(answers) : k \in 1..Len(answers') /\ answers'[k] = answers[k]
  BY DEF LockstepInv, Types
<1>2. \A k \in 1..Len(answers') : k \in 1..Len(answers) \/ k = Len(answers')
  BY DEF LockstepInv, Types
<1>4. ASSUME NoneStray' PROVE NoneStray
  BY <1>1, <1>4 DEF NoneStray, Stray
<1>5. ASSUME NoneStray' => Matched'
      PROVE  LockstepMatched'
  <2> SUFFICES ASSUME NEW k \in 1..Len(answers'), \A j \in 1..k : ~Stray(answers[j])'
               PROVE  /\ answers'[k].msg = k
                      /\ \A i \in 1..Len(answers'[k].body) : answers'[k].body[i].msg = k
    BY DEF LockstepMatched
  <2>1. CASE k \in 1..Len(answers)
    <3>1. \A j \in 1..k : j \in 1..Len(answers) /\ answers'[j] = answers[j]
      BY <1>1, <2>1 DEF LockstepInv, Types
    <3>2. \A j \in 1..k : ~Stray(answers[j])
      BY <3>1 DEF Stray
    <3> QED
      BY <1>1, <2>1, <3>2 DEF LockstepInv, LockstepMatched
  <2>2. CASE k = Len(answers')
    <3>1. NoneStray'
      BY <2>2 DEF NoneStray
    <3> QED
      BY <1>5, <3>1 DEF Matched
  <2> QED
    BY <1>2, <2>1, <2>2
<1> QED
  BY <1>4, <1>5

LEMMA NextLockstepInv == LockstepInv /\ [Next]_vars => LockstepInv'
<1> SUFFICES ASSUME LockstepInv, [Next]_vars
             PROVE  LockstepInv'
  OBVIOUS
<1>1. UNCHANGED <<hooks, lockstep>>
  BY DEF Next, Send, Finish, PerformRequest, PeerClosed, vars
<1>2. CASE UNCHANGED vars \/ Finish \/ PeerClosed
  <2>1. UNCHANGED <<sent, chan, answers, upgraded>>
    BY <1>2 DEF vars, Finish, PeerClosed
  <2> QED
    BY <1>1, <2>1 DEF LockstepInv, LockstepMatched, NoneStray, Stray, WireInv, Types, StartInv,
                     Matched
<1>3. ASSUME NEW kind \in Kinds, Send(kind)
      PROVE  LockstepInv'
  <2>1. UNCHANGED <<answers, upgraded>>
    BY <1>3 DEF Send
  <2>2. LockstepMatched' /\ (NoneStray' <=> NoneStray)
    BY <1>1, <2>1 DEF LockstepInv, LockstepMatched, NoneStray, Stray
  <2>3. Types'
    BY <1>3, SendTypes DEF LockstepInv
  <2> QED
    BY <1>1, <1>3, <2>2, <2>3, SendWire DEF LockstepInv
<1>4. ASSUME NEW n \in 1..RecvMax, PerformRequest(n)
      PROVE  LockstepInv'
  <2>1. /\ n \in 1..Len(chan) /\ chan' = SubSeq(chan, n + 1, Len(chan))
        /\ UNCHANGED sent /\ upgraded' \in BOOLEAN
    BY <1>4, PerformAnswers DEF LockstepInv
  <2>2. answers' = answers \/ \E reply \in Reply : answers' = Append(answers, reply)
    BY <1>4, <2>1, PerformAnswers, AnswerReply DEF LockstepInv
  <2>3. Types'
    <3>1. chan \in Seq(Piece) /\ answers \in Seq(Reply) /\ sent \in Seq(Kinds)
      BY DEF LockstepInv, Types
    <3>2. chan' \in Seq(Piece)
      BY <2>1, <3>1
    <3>3. answers' \in Seq(Reply)
      <4>1. \A S, q, e : q \in Seq(S) /\ e \in S => Append(q, e) \in Seq(S)
        OBVIOUS
      <4> QED
        BY <2>2, <3>1, <4>1, Zenon
    <3> QED
      BY <2>1, <3>1, <3>2, <3>3 DEF Types
  <2>4. ASSUME lockstep
        PROVE  (NoneStray' => WireInv') /\ LockstepMatched'
    <3>1. NoneStray' => NoneStray
      BY <1>1, <2>2, <2>4, StrayStays
    <3>2. NoneStray' => WireInv'
      BY <1>4, <2>4, <3>1, PerformWire DEF LockstepInv
    <3>3. NoneStray' => Matched'
      BY <3>2 DEF WireInv
    <3> QED
      BY <1>1, <2>2, <2>4, <3>2, <3>3, StrayStays
  <2>5. CASE lockstep
    BY <1>1, <2>3, <2>4, <2>5 DEF LockstepInv
  <2>6. CASE ~lockstep
    BY <1>1, <2>3, <2>6 DEF LockstepInv, LockstepMatched
  <2> QED
    BY <2>5, <2>6
<1> QED
  BY <1>2, <1>3, <1>4 DEF Next

THEOREM LockstepInvariant == Spec => []LockstepInv
<1>1. Init => LockstepInv
  <2> SUFFICES ASSUME Init
               PROVE  LockstepInv
    OBVIOUS
  <2>1. WireInv
    BY InitWireInv
  <2>2. Matched => LockstepMatched
    BY DEF Matched, LockstepMatched
  <2> QED
    BY <2>1, <2>2 DEF LockstepInv, WireInv
<1> QED
  BY <1>1, NextLockstepInv, PTL DEF Spec

(* A client that waits for each answer gets them in order, each with a body of its own
   request, however the stream is cut, as long as no answer is stray: no remainder is
   answered by the routing handlers, no body is parsed as a request
   (Server::performRequest). *)
THEOREM LockstepAlwaysMatched == Spec => []LockstepMatched
<1>1. LockstepInv => LockstepMatched
  BY DEF LockstepInv
<1> QED
  BY <1>1, LockstepInvariant, PTL

-----------------------------------------------------------------------------
(* What one recv() returned whole, whatever the client: every part that is read or
   waits belongs to a message that was sent, frames are sent only on an upgraded
   connection, and only a server with a WebSocket route upgrades one. *)

PartsSent ==
  /\ sent \in Seq(Kinds)
  /\ chan \in Seq(Piece) /\ \A i \in 1..Len(chan) : chan[i].msg \in 1..Len(sent)
  /\ recvs \in Seq(Seq(Piece))
  /\ \A i \in 1..Len(recvs) : recvs[i][1].msg \in 1..Len(sent)
  /\ answers \in Seq(Reply)

FramesUpgraded ==
  /\ upgraded \in BOOLEAN /\ hasWs \in BOOLEAN
  /\ \A m \in 1..Len(sent) : sent[m] \in Frames => upgraded = TRUE
  /\ upgraded = TRUE => hasWs = TRUE

(* Message m has been served for what it is. *)
Served(m) ==
  /\ sent[m] \in Http =>
       \E k \in 1..Len(answers) :
         answers[k].msg = m /\ answers[k].body = SubSeq(Own(m), 4, Len(Own(m)))
  /\ sent[m] = "frame" => m \in handled
  /\ sent[m] = "close" => conn = "closed"

WholeServed ==
  \A i \in 1..Len(recvs) :
    recvs[i] = Own(recvs[i][1].msg) => Served(recvs[i][1].msg)

ServedInv == PartsSent /\ FramesUpgraded /\ WholeServed

LEMMA InitServed == Init => ServedInv
<1> SUFFICES ASSUME Init
             PROVE  ServedInv
  OBVIOUS
<1>1. \A S : <<>> \in Seq(S) /\ Len(<<>>) = 0
  OBVIOUS
<1>2. PartsSent /\ WholeServed
  BY <1>1 DEF Init, PartsSent, WholeServed
<1>3. FramesUpgraded
  <2>1. upgraded = FALSE /\ hasWs \in BOOLEAN /\ Len(sent) = 0
    BY <1>1 DEF Init
  <2>2. upgraded \in BOOLEAN /\ (upgraded = TRUE => hasWs = TRUE)
    BY <2>1
  <2>3. \A m \in 1..Len(sent) : sent[m] \in Frames => upgraded = TRUE
    BY <2>1
  <2> QED
    BY <2>1, <2>2, <2>3 DEF FramesUpgraded
<1> QED
  BY <1>2, <1>3 DEF ServedInv

(* What is served stays served: answers and handled grow, and a closed connection
   stays closed. *)
LEMMA StaysServed ==
  ASSUME ServedInv, NEW m \in 1..Len(sent), Served(m), sent'[m] = sent[m],
         answers' = answers \/ \E a : answers' = Append(answers, a),
         handled \subseteq handled', conn = "closed" => conn' = "closed"
  PROVE  Served(m)'
<1>1. Own(m)' = Own(m)
  BY DEF Own, Message
<1>2. \A k \in 1..Len(answers) : k \in 1..Len(answers') /\ answers'[k] = answers[k]
  <2>1. CASE answers' = answers
    BY <2>1
  <2>2. ASSUME NEW a, answers' = Append(answers, a)
        PROVE  \A k \in 1..Len(answers) : k \in 1..Len(answers') /\ answers'[k] = answers[k]
    <3>1. PICK q \in Seq(Reply) : q = answers
      BY DEF ServedInv, PartsSent
    <3>2. Len(Append(q, a)) = Len(q) + 1 /\ \A k \in 1..Len(q) : Append(q, a)[k] = q[k]
      OBVIOUS
    <3> QED
      BY <2>2, <3>1, <3>2
  <2> QED
    BY <2>1, <2>2
<1> QED
  BY <1>1, <1>2 DEF Served

LEMMA SendServed ==
  ASSUME ServedInv, NEW kind \in Kinds, Send(kind)
  PROVE  ServedInv'
<1> DEFINE N == Len(sent) + 1
           msg == Message(N, kind)
<1>1. kind \in Http \cup Frames /\ N \in Nat
  BY KindsAssumption DEF ServedInv, PartsSent
<1>2. msg \in Seq(Piece) /\ \A i \in 1..Len(msg) : msg[i].msg = N
  BY <1>1, MessageParts
<1> HIDE DEF msg
<1>3. sent' = Append(sent, kind) /\ chan' = chan \o msg
      /\ UNCHANGED <<hasWs, upgraded, answers, recvs, handled, conn>>
  BY DEF Send, msg
<1>4. Len(sent') = N /\ sent' \in Seq(Kinds) /\ sent'[N] = kind
      /\ \A m \in 1..Len(sent) : m \in 1..Len(sent') /\ sent'[m] = sent[m]
  BY <1>3 DEF ServedInv, PartsSent
<1>5. chan' \in Seq(Piece) /\ \A i \in 1..Len(chan') : chan'[i].msg \in 1..Len(sent')
  <2>1. \A i \in 1..Len(chan') :
          \/ i \in 1..Len(chan) /\ chan'[i] = chan[i]
          \/ i - Len(chan) \in 1..Len(msg) /\ chan'[i] = msg[i - Len(chan)]
    BY <1>2, <1>3 DEF ServedInv, PartsSent
  <2>2. \A i \in 1..Len(chan) : chan[i].msg \in 1..N
    BY <1>1 DEF ServedInv, PartsSent
  <2>3. \A i \in 1..Len(msg) : msg[i].msg \in 1..N
    BY <1>1, <1>2
  <2>4. chan' \in Seq(Piece)
    BY <1>2, <1>3 DEF ServedInv, PartsSent
  <2> QED
    BY <2>1, <2>2, <2>3, <2>4, <1>4
<1>6. PartsSent'
  BY <1>3, <1>4, <1>5 DEF ServedInv, PartsSent
<1>7. FramesUpgraded'
  <2>1. kind \in Frames => upgraded = TRUE
    BY <1>1 DEF Send, Http, Frames, ServedInv, FramesUpgraded
  <2>2. UNCHANGED <<hasWs, upgraded>>
    BY <1>3
  <2>3. \A m \in 1..Len(sent') : m \in 1..Len(sent) \/ m = N
    BY <1>1, <1>4 DEF ServedInv, PartsSent
  <2> QED
    BY <2>1, <2>2, <2>3, <1>4 DEF ServedInv, FramesUpgraded
<1>8. WholeServed'
  <2> SUFFICES ASSUME NEW i \in 1..Len(recvs), NEW m, m = recvs[i][1].msg,
                      recvs[i] = Own(m)'
               PROVE  Served(m)'
    BY <1>3 DEF WholeServed
  <2>1. m \in 1..Len(sent) /\ Own(m)' = Own(m)
    BY <1>4 DEF ServedInv, PartsSent, Own, Message
  <2> QED
    BY <2>1, <1>3, <1>4, StaysServed DEF ServedInv, WholeServed
<1> QED
  BY <1>6, <1>7, <1>8 DEF ServedInv

(* A message returned whole looks like what it is, and is served so. *)
LEMMA WholeLooks ==
  ASSUME NEW m \in Nat, NEW kind \in Http \cup Frames, NEW bytes, bytes = Message(m, kind)
  PROVE  /\ bytes \in Seq(Piece) /\ bytes[1].msg = m
         /\ kind \in Http => Looks(bytes) = {"text"} /\ HasLine(bytes) /\ HasHead(bytes)
         /\ kind = "frame" => Looks(bytes) = {"frame"} /\ Reads(bytes)
         /\ kind = "close" => Looks(bytes) = {"close"}
<1>1. bytes \in Seq(Piece) /\ Len(bytes) > 0 /\ bytes[1].msg = m
  BY MessageParts, SMTT(30)
<1>2. CASE kind \in Http
  <2>1. Parts[kind][1] = "start" /\ Parts[kind] \in Seq(Names) /\ Len(Parts[kind]) >= 3
    <3>1. CASE kind \in {"get", "upgrade"}
      <4>1. Parts[kind] = <<"start", "line", "head">>
        BY <3>1 DEF Parts
      <4> QED
        BY <4>1 DEF Names
    <3>2. CASE kind = "post"
      <4>1. Parts[kind] = <<"start", "line", "head", "body">>
        BY <3>2 DEF Parts
      <4> QED
        BY <4>1 DEF Names
    <3> QED
      BY <1>2, <3>1, <3>2 DEF Http
  <2>2. Len(bytes) >= 3 /\ bytes[1].part = "start"
    BY <2>1 DEF Message
  <2> QED
    BY <1>1, <1>2, <2>2 DEF Looks, HasLine, HasHead, Http, Frames
<1>3. CASE kind = "frame"
  <2>1. Parts[kind] = <<"op", "rest">>
    BY <1>3 DEF Parts
  <2>2. Len(bytes) = 2 /\ bytes[1].part = "op"
    BY <2>1 DEF Message
  <2>3. Looks(bytes) = {"frame"}
    BY <2>2 DEF Looks
  <2>4. Reads(bytes)
    BY <2>2 DEF Reads
  <2> QED
    BY <1>1, <1>3, <2>3, <2>4 DEF Http
<1>4. CASE kind = "close"
  <2>1. Parts[kind] = <<"closeop", "rest">>
    BY <1>4 DEF Parts
  <2>2. Len(bytes) = 2 /\ bytes[1].part = "closeop"
    BY <2>1 DEF Message
  <2>3. Looks(bytes) = {"close"}
    BY <2>2 DEF Looks
  <2> QED
    BY <1>1, <1>4, <2>3 DEF Http
<1> QED
  BY <1>2, <1>3, <1>4 DEF Frames

LEMMA PerformServed ==
  ASSUME ServedInv, NEW n \in 1..RecvMax, PerformRequest(n)
  PROVE  ServedInv'
<1>1. /\ n \in 1..Len(chan) /\ chan' = SubSeq(chan, n + 1, Len(chan))
      /\ UNCHANGED <<sent, hasWs>> /\ conn # "closed"
  BY DEF PerformRequest, ServedInv, PartsSent
<1>2. PICK bytes \in Seq(Piece) : bytes = SubSeq(chan, 1, n) /\ Len(bytes) = n /\ bytes[1] = chan[1]
  <2>1. chan \in Seq(Piece) /\ n \in 1..Len(chan) /\ Len(chan) \in Nat
    BY <1>1 DEF ServedInv, PartsSent
  <2>2. /\ SubSeq(chan, 1, n) \in Seq(Piece) /\ Len(SubSeq(chan, 1, n)) = n
        /\ SubSeq(chan, 1, n)[1] = chan[1]
    BY <2>1
  <2> QED
    BY <2>2
<1>3. PICK m \in 1..Len(sent) : m = bytes[1].msg
  <2>1. 1 \in 1..Len(chan)
    BY <1>1 DEF ServedInv, PartsSent
  <2> QED
    BY <1>2, <2>1 DEF ServedInv, PartsSent
<1>4. PICK look \in Looks(bytes) :
        /\ recvs' = Append(recvs, bytes)
        /\ \E parsed \in Parses(bytes) :
             \/ CloseFrame(look)
             \/ DispatchWebSocket(bytes, look)
             \/ Handshake(bytes, look, parsed)
             \/ HandleRoute(bytes, look, parsed)
             \/ NoRequest(bytes, look, parsed)
  BY <1>2 DEF PerformRequest
<1>5. look \in {"text", "frame", "close"}
  BY <1>4 DEF Looks
<1>6. Body(bytes) \in Seq(Piece)
  BY <1>2 DEF Body, HasHead, HasLine
<1>7. PICK parsed \in Parses(bytes) :
        /\ \/ CloseFrame(look)
           \/ DispatchWebSocket(bytes, look)
           \/ Handshake(bytes, look, parsed)
           \/ HandleRoute(bytes, look, parsed)
           \/ NoRequest(bytes, look, parsed)
  BY <1>4
<1> DEFINE reply == [msg |-> m, part |-> bytes[1].part, parsed |-> parsed, body |-> Body(bytes)]
<1>7b. answers' = answers \/ answers' = Append(answers, reply)
  BY <1>3, <1>7 DEF CloseFrame, DispatchWebSocket, Handshake, HandleRoute, NoRequest, Answer
<1>8. handled \subseteq handled'
  BY <1>7 DEF CloseFrame, DispatchWebSocket, Handshake, HandleRoute, NoRequest
<1>9. FramesUpgraded'
  <2>1. upgraded' = upgraded \/ (upgraded' = TRUE /\ hasWs = TRUE)
    BY <1>7 DEF CloseFrame, DispatchWebSocket, Handshake, HandleRoute, NoRequest
  <2>2. UNCHANGED <<sent, hasWs>>
    BY <1>1
  <2> QED
    BY <2>1, <2>2 DEF ServedInv, FramesUpgraded
<1>10. Own(m) = bytes => Served(m)'
  <2> SUFFICES ASSUME Own(m) = bytes
               PROVE  Served(m)'
    OBVIOUS
  <2>1. m \in Nat /\ sent[m] \in Http \cup Frames
    BY <1>3, KindsAssumption DEF ServedInv, PartsSent
  <2>2. /\ sent[m] \in Http => Looks(bytes) = {"text"} /\ HasLine(bytes) /\ HasHead(bytes)
        /\ sent[m] = "frame" => Looks(bytes) = {"frame"} /\ Reads(bytes)
        /\ sent[m] = "close" => Looks(bytes) = {"close"}
    BY <2>1, WholeLooks DEF Own
  <2>3. Own(m)' = bytes
    BY <1>1 DEF Own, Message
  <2>4. ASSUME sent[m] \in Http
        PROVE  \E k \in 1..Len(answers') :
                 answers'[k].msg = m /\ answers'[k].body = SubSeq(bytes, 4, Len(bytes))
    <3>1. parsed # "none" /\ look = "text"
      BY <1>4, <2>2, <2>4 DEF Parses, HasLine, Opaque
    <3>2. Answer(bytes, parsed) /\ Body(bytes) = SubSeq(bytes, 4, Len(bytes))
      BY <1>7, <2>2, <2>4, <3>1
         DEF CloseFrame, DispatchWebSocket, Handshake, HandleRoute, NoRequest, Body
    <3>5. answers' = Append(answers, reply)
      BY <1>3, <3>2 DEF Answer
    <3>6. reply.msg = m /\ reply.body = SubSeq(bytes, 4, Len(bytes))
      BY <3>2
    <3>3. Len(answers') = Len(answers) + 1 /\ Len(answers) \in Nat
          /\ answers'[Len(answers) + 1] = reply
      <4> HIDE DEF reply
      <4> QED
        BY <3>5 DEF ServedInv, PartsSent
    <3>4. Len(answers) + 1 \in 1..Len(answers')
      BY <3>3
    <3> QED
      BY <3>3, <3>4, <3>6, Zenon
  <2>5. ASSUME sent[m] = "frame"
        PROVE  m \in handled'
    <3>1. upgraded = TRUE /\ hasWs = TRUE /\ look = "frame" /\ Reads(bytes)
      BY <1>3, <1>4, <2>2, <2>5 DEF ServedInv, FramesUpgraded, Frames
    <3>2. DispatchWebSocket(bytes, look)
      BY <1>7, <3>1 DEF CloseFrame, Handshake, HandleRoute, NoRequest
    <3>3. upgraded /\ Reads(bytes)
      BY <3>1
    <3> QED
      BY <1>3, <3>2, <3>3 DEF DispatchWebSocket
  <2>6. ASSUME sent[m] = "close"
        PROVE  conn' = "closed"
    <3>1. hasWs = TRUE /\ look = "close"
      BY <1>3, <1>4, <2>2, <2>6 DEF ServedInv, FramesUpgraded, Frames
    <3> QED
      BY <1>7, <3>1 DEF CloseFrame, DispatchWebSocket, Handshake, HandleRoute, NoRequest
  <2> QED
    BY <1>1, <2>3, <2>4, <2>5, <2>6 DEF Served
<1>11. chan' \in Seq(Piece) /\ \A i \in 1..Len(chan') : chan'[i].msg \in 1..Len(sent)
  <2>1. Len(chan) \in Nat /\ chan \in Seq(Piece)
    BY DEF ServedInv, PartsSent
  <2>2. Len(chan') = Len(chan) - n /\ \A i \in 1..Len(chan') : chan'[i] = chan[i + n]
    BY <1>1, <2>1
  <2> QED
    BY <1>1, <2>1, <2>2, SMTT(30) DEF ServedInv, PartsSent
<1>12. /\ recvs' \in Seq(Seq(Piece))
       /\ Len(recvs') = Len(recvs) + 1
       /\ recvs'[Len(recvs) + 1] = bytes
       /\ \A i \in 1..Len(recvs) : recvs'[i] = recvs[i]
  BY <1>2, <1>4, <1>5 DEF ServedInv, PartsSent
<1>13. bytes[1].msg = m
  BY <1>3
<1>14. PartsSent'
  <2>1. answers' \in Seq(Reply)
    <3>1. reply \in Reply
      <4>1. m \in Nat /\ bytes[1].part \in Names /\ parsed \in Parsed
        BY <1>1, <1>2, <1>3 DEF ServedInv, PartsSent, Piece, Parses, Parsed
      <4> QED
        BY <1>6, <4>1 DEF Reply
    <3>2. answers \in Seq(Reply)
      BY DEF ServedInv, PartsSent
    <3>3. \A S, q, e : q \in Seq(S) /\ e \in S => Append(q, e) \in Seq(S)
      OBVIOUS
    <3> QED
      BY <1>7b, <3>1, <3>2, <3>3, ZenonT(40)
  <2>2. \A i \in 1..Len(recvs') : recvs'[i][1].msg \in 1..Len(sent)
    <3>1. \A i \in 1..Len(recvs') : i \in 1..Len(recvs) \/ i = Len(recvs) + 1
      BY <1>12 DEF ServedInv, PartsSent
    <3> QED
      BY <1>12, <1>13, <3>1 DEF ServedInv, PartsSent
  <2> QED
    BY <1>1, <1>11, <1>12, <2>1, <2>2 DEF ServedInv, PartsSent
<1>15. WholeServed'
  <2> SUFFICES ASSUME NEW i \in 1..Len(recvs'), NEW k, k = recvs'[i][1].msg,
                      recvs'[i] = Own(k)'
               PROVE  Served(k)'
    BY DEF WholeServed
  <2>1. \A l : Own(l)' = Own(l)
    BY <1>1 DEF Own, Message
  <2>2. CASE i = Len(recvs) + 1
    <3>1. k = m /\ bytes = Own(m)
      BY <1>12, <1>13, <2>1, <2>2
    <3> QED
      BY <1>10, <3>1
  <2>3. CASE i # Len(recvs) + 1
    <3>1. i \in 1..Len(recvs) /\ recvs'[i] = recvs[i]
      <4>1. Len(recvs) \in Nat
        BY DEF ServedInv, PartsSent
      <4>2. i \in 1..Len(recvs)
        BY <1>12, <2>3, <4>1
      <4> QED
        BY <1>12, <4>2, Zenon
    <3>2. k \in 1..Len(sent) /\ Served(k)
      BY <2>1, <3>1 DEF ServedInv, PartsSent, WholeServed
    <3> QED
      BY <1>1, <1>7b, <1>8, <3>2, StaysServed
  <2> QED
    BY <2>2, <2>3
<1> QED
  BY <1>9, <1>14, <1>15 DEF ServedInv

LEMMA NextServed == ServedInv /\ [Next]_vars => ServedInv'
<1> SUFFICES ASSUME ServedInv, [Next]_vars
             PROVE  ServedInv'
  OBVIOUS
<1>1. CASE UNCHANGED vars \/ Finish \/ PeerClosed
  <2>1. /\ UNCHANGED <<sent, recvs, answers, handled, upgraded, hasWs>>
        /\ chan' = chan /\ (conn = "closed" => conn' = "closed")
    BY <1>1 DEF vars, Finish, PeerClosed
  <2>2. PartsSent' /\ FramesUpgraded'
    BY <2>1 DEF ServedInv, PartsSent, FramesUpgraded
  <2>3. \A m : Own(m)' = Own(m)
    BY <2>1 DEF Own, Message
  <2>4. WholeServed'
    BY <2>1, <2>3, StaysServed DEF ServedInv, PartsSent, WholeServed
  <2> QED
    BY <2>2, <2>4 DEF ServedInv
<1> QED
  BY <1>1, SendServed, PerformServed DEF Next

LEMMA ServedInvariant == Spec => []ServedInv
  BY InitServed, NextServed, PTL DEF Spec

(* A message that one recv() returns alone is served for what it is, whatever was
   cut or joined before it (Server::performRequest, server.cc:203). *)
THEOREM OwnRecvAlwaysServed == Spec => []OwnRecvServed
<1>1. ServedInv => OwnRecvServed
  BY DEF ServedInv, WholeServed, Served, OwnRecvServed
<1> QED
  BY <1>1, ServedInvariant, PTL


-----------------------------------------------------------------------------
(* The frames themselves, in bytes: what a client writes of a length is what
   readFrame() reads, for every length and every part of the frame that is there. *)

(* A length of eight bytes at most, as is every one of at most 64 bits. *)
EightBytes(n) == Above(Above(Above(n))) < 65536

LEMMA Remainder ==
  ASSUME NEW n \in Nat, n < SizeLimit
  PROVE  n % SizeLimit = n
  BY SizeAssumption

LEMMA Bytes ==
  ASSUME NEW n \in Nat
  PROVE  High(n) \in 0..255 /\ Low(n) \in 0..255 /\ Above(n) \in Nat /\ Above(n) <= n
  BY SMT DEF High, Low, Above

(* Two bytes, joined to what is above them, give the number back. *)
LEMMA JoinBytes ==
  ASSUME NEW n \in Nat, n < SizeLimit
  PROVE  Join(Join(Above(n), High(n)), Low(n)) = n
<1>1. PICK a \in Nat : a = n \div 256 /\ a <= n /\ n = 256 * a + (n % 256)
  BY SMT
<1>2. PICK b \in Nat : b = a \div 256 /\ b <= a /\ a = 256 * b + (a % 256)
  BY SMT
<1>3. Above(n) = b
  BY <1>1, <1>2, SMT DEF Above
<1>4. High(n) = a % 256 /\ Low(n) = n % 256
  BY <1>1, SMT DEF High, Low
<1>5. Join(b, a % 256) = a
  <2>1. b * 256 + (a % 256) = a
    BY <1>2, SMT
  <2>2. a % SizeLimit = a
    BY <1>1, Remainder, SizeAssumption, SMT
  <2> QED
    BY <2>1, <2>2, SMT DEF Join
<1>6. Join(a, n % 256) = n
  <2>1. a * 256 + (n % 256) = n
    BY <1>1, SMT
  <2>2. n % SizeLimit = n
    BY Remainder, SMT
  <2> QED
    BY <2>1, <2>2, SMT DEF Join
<1> QED
  BY <1>3, <1>4, <1>5, <1>6, Zenon

(* A number of two bytes has nothing above them. *)
LEMMA JoinTwo ==
  ASSUME NEW n \in Nat, n < 65536, n < SizeLimit
  PROVE  Join(High(n), Low(n)) = n
<1>1. Above(n) = 0
  BY SMT DEF Above
<1>2. Join(0, High(n)) = High(n)
  <2>1. High(n) \in Nat /\ High(n) < SizeLimit
    <3>1. High(n) \in 0..255
      BY Bytes
    <3> QED
      BY <3>1, SizeAssumption, SMT
  <2>2. High(n) % SizeLimit = High(n)
    BY <2>1, Remainder
  <2>3. 0 * 256 + High(n) = High(n)
    BY <2>1, SMT
  <2> QED
    BY <2>2, <2>3, SMT DEF Join
<1>3. Join(Join(Above(n), High(n)), Low(n)) = n
  BY JoinBytes
<1> QED
  BY <1>1, <1>2, <1>3, SMT

(* Eight bytes give back every number that has no more. *)
LEMMA JoinEight ==
  ASSUME NEW n \in Nat, n < SizeLimit, EightBytes(n),
         NEW a, a = Above(n), NEW b, b = Above(a), NEW c, c = Above(b),
         NEW h, Len(h) \in Nat, Len(h) >= 10,
         h[3] = High(c), h[4] = Low(c), h[5] = High(b), h[6] = Low(b),
         h[7] = High(a), h[8] = Low(a), h[9] = High(n), h[10] = Low(n)
  PROVE  ExtendedLength(h, 8) = n
<1>1. a \in Nat /\ a < SizeLimit
  BY Bytes, SizeAssumption, SMT
<1>2. b \in Nat /\ b < SizeLimit
  BY <1>1, Bytes, SizeAssumption, SMT
<1>3. c \in Nat /\ c < SizeLimit
  BY <1>2, Bytes, SizeAssumption, SMT
<1>4. c < 65536
  BY DEF EightBytes
<1>5. Join(High(c), Low(c)) = c
  BY <1>3, <1>4, JoinTwo, SMT
<1>6. Join(Join(c, High(b)), Low(b)) = b
  BY <1>2, JoinBytes, SMT
<1>7. Join(Join(b, High(a)), Low(a)) = a
  BY <1>1, JoinBytes, SMT
<1>8. Join(Join(a, High(n)), Low(n)) = n
  BY JoinBytes, SMT
<1>9. ExtendedLength(h, 8)
        = Join(Join(Join(Join(Join(Join(Join(h[3], h[4]), h[5]), h[6]), h[7]), h[8]), h[9]), h[10])
  BY SMT DEF ExtendedLength
<1> QED
  BY <1>5, <1>6, <1>7, <1>8, <1>9, Zenon

(* A header h of a frame of n bytes: it masks with k bytes, and its second byte is the
   length n, or announces one of more bytes. *)
IsHeader(h, n, k, code, extended) ==
  /\ n \in Nat /\ n + 14 < SizeLimit
  /\ k \in {0, 4} /\ code \in 0..127 /\ extended \in {0, 2, 8}
  /\ h[1] = 129 /\ h[2] = IF k = 0 THEN code ELSE code + 128
  /\ Len(h) = 2 + extended + k
  /\ extended = IF code = 126 THEN 2 ELSE IF code = 127 THEN 8 ELSE 0
  /\ n = IF extended = 0 THEN code ELSE ExtendedLength(h, extended)

(* What readFrame() makes of it. *)
LEMMA HeaderRead ==
  ASSUME NEW h, NEW n, NEW k, NEW code, NEW extended, IsHeader(h, n, k, code, extended)
  PROVE  \A size \in Nat : readFrame(h, size) = IF size < Len(h) + n THEN NoNumber ELSE n
<1>0. /\ n \in Nat /\ n + 14 < SizeLimit
      /\ k \in {0, 4} /\ code \in 0..127 /\ extended \in {0, 2, 8}
      /\ h[1] = 129 /\ h[2] = IF k = 0 THEN code ELSE code + 128
      /\ Len(h) = 2 + extended + k
  BY DEF IsHeader
<1>5. /\ extended = IF code = 126 THEN 2 ELSE IF code = 127 THEN 8 ELSE 0
      /\ n = IF extended = 0 THEN code ELSE ExtendedLength(h, extended)
  BY DEF IsHeader
<1> SUFFICES ASSUME NEW size \in Nat
             PROVE  readFrame(h, size) = IF size < Len(h) + n THEN NoNumber ELSE n
  OBVIOUS
<1>6. \A c \in 0..127 : /\ c % 128 = c /\ ~(c >= 128)
                        /\ (c + 128) % 128 = c /\ c + 128 >= 128
  BY SMT
<1>7. ~(129 % 16 = 8)
  BY SMT
<1>1. h[2] % 128 = code /\ MaskSize(h) = k /\ ~(h[1] % 16 = 8)
  <2>1. CASE k = 0
    <3>1. h[2] = code
      BY <1>0, <2>1, Zenon
    <3>2. MaskSize(h) = 0
      BY <1>0, <1>6, <3>1, SMT DEF MaskSize
    <3>3. h[2] % 128 = code
      BY <1>0, <1>6, <3>1, SMT
    <3>4. ~(h[1] % 16 = 8)
      BY <1>0, <1>7
    <3> QED
      BY <2>1, <3>2, <3>3, <3>4
  <2>2. CASE k = 4
    <3>1. h[2] = code + 128
      BY <1>0, <2>2, SMT
    <3>2. MaskSize(h) = 4
      BY <1>0, <1>6, <3>1, SMT DEF MaskSize
    <3>3. h[2] % 128 = code
      BY <1>0, <1>6, <3>1, SMT
    <3>4. ~(h[1] % 16 = 8)
      BY <1>0, <1>7
    <3> QED
      BY <2>2, <3>2, <3>3, <3>4
  <2> QED
    BY <1>0, <2>1, <2>2
<1>2. (2 + extended + k + n) % SizeLimit = 2 + extended + k + n
  <2>1. 2 + extended + k + n \in Nat /\ 2 + extended + k + n < SizeLimit
    <3>1. 2 + extended + k <= 14 /\ 2 + extended + k \in Nat
      BY <1>0, SMT
    <3> QED
      BY <1>0, <3>1, SizeAssumption, SMT
  <2> QED
    BY <2>1, Remainder, Zenon
<1>3. (CASE code = 126 -> 2 [] code = 127 -> 8 [] OTHER -> 0) = extended
  BY <1>5, SMT
<1>4. readFrame(h, size) =
        IF size < 2 \/ h[1] % 16 = 8 THEN NoNumber
        ELSE IF size < 2 + extended + k \/ size < (2 + extended + k + n) % SizeLimit
        THEN NoNumber ELSE n
  BY <1>0, <1>1, <1>3, <1>5, SMT DEF readFrame
<1> QED
  BY <1>0, <1>1, <1>2, <1>4, SMT

LEMMA Joined ==
  ASSUME NEW s \in Seq(Int), NEW t \in Seq(Int)
  PROVE  Len(s \o t) = Len(s) + Len(t) /\ \A i \in 1..Len(s) : (s \o t)[i] = s[i]
  BY SMT

LEMMA Masked ==
  ASSUME NEW h \in Seq(Int), Len(h) >= 2
  PROVE  LET m == [h EXCEPT ![2] = @ + 128] \o <<11, 22, 33, 44>> IN
         Len(m) = Len(h) + 4 /\ m[2] = h[2] + 128 /\ \A i \in 1..Len(h) : i # 2 => m[i] = h[i]
<1> DEFINE e == [h EXCEPT ![2] = @ + 128]
<1>1. e \in Seq(Int) /\ Len(e) = Len(h) /\ e[2] = h[2] + 128
      /\ \A i \in 1..Len(h) : i # 2 => e[i] = h[i]
  BY SMT
<1> HIDE DEF e
<1> DEFINE mask == <<11, 22, 33, 44>>
<1>2. mask \in Seq(Int) /\ Len(mask) = 4
  BY SMT
<1> HIDE DEF mask
<1>3. Len(e \o mask) = Len(e) + 4 /\ \A i \in 1..Len(e) : (e \o mask)[i] = e[i]
  <2>1. Len(e \o mask) = Len(e) + Len(mask) /\ \A i \in 1..Len(e) : (e \o mask)[i] = e[i]
    BY <1>1, <1>2, Joined
  <2> QED
    BY <1>2, <2>1
<1>4. 2 \in 1..Len(e)
  BY <1>1, SMT
<1>5. /\ Len(e \o mask) = Len(h) + 4 /\ (e \o mask)[2] = h[2] + 128
      /\ \A i \in 1..Len(h) : i # 2 => (e \o mask)[i] = h[i]
  BY <1>1, <1>3, <1>4, Zenon
<1> QED
  BY <1>5, Zenon DEF e, mask

(* A frame of a client, masked or not, is read to the length that was written, as soon
   as all of it is there; cut anywhere it is refused (WebSocketClient::sendMessage,
   WebSocket::readFrame).  For lengths of up to 64 bits whose frame a size_t can count. *)
THEOREM ClientFramesRead ==
  ASSUME NEW n \in Nat, n + 14 < SizeLimit, EightBytes(n),
         NEW h \in {ClientHeader(n), MaskedHeader(n)}
  PROVE  \A size \in Nat : readFrame(h, size) = IF size < Len(h) + n THEN NoNumber ELSE n
<1> DEFINE a == Above(n)
           b == Above(a)
           c == Above(b)
           code == IF n <= 125 THEN n ELSE IF n <= 65535 THEN 126 ELSE 127
           extended == IF n <= 125 THEN 0 ELSE IF n <= 65535 THEN 2 ELSE 8
           k == IF h = ClientHeader(n) THEN 0 ELSE 4
<1>1. a \in Nat /\ b \in Nat /\ c \in Nat
  BY Bytes
<1> HIDE DEF a, b, c
<1>2. /\ High(n) \in Int /\ Low(n) \in Int /\ High(a) \in Int /\ Low(a) \in Int
      /\ High(b) \in Int /\ Low(b) \in Int /\ High(c) \in Int /\ Low(c) \in Int
  <2>1. \A x \in Nat : High(x) \in Int /\ Low(x) \in Int
    BY SMT DEF High, Low
  <2> QED
    BY <1>1, <2>1
<1>3. ClientHeader(n) =
        IF n <= 125 THEN <<129, n>>
        ELSE IF n <= 65535 THEN <<129, 126, High(n), Low(n)>>
        ELSE <<129, 127, High(c), Low(c), High(b), Low(b), High(a), Low(a), High(n), Low(n)>>
  BY SMT DEF ClientHeader, a, b, c
<1> DEFINE g == ClientHeader(n)
<1>4. /\ g \in Seq(Int) /\ Len(g) = 2 + extended /\ g[1] = 129 /\ g[2] = code
      /\ extended = 2 => g[3] = High(n) /\ g[4] = Low(n)
      /\ extended = 8 => /\ g[3] = High(c) /\ g[4] = Low(c) /\ g[5] = High(b) /\ g[6] = Low(b)
                         /\ g[7] = High(a) /\ g[8] = Low(a) /\ g[9] = High(n) /\ g[10] = Low(n)
  <2>1. CASE n <= 125
    BY <1>3, <2>1, SMT
  <2>2. CASE 125 < n /\ n <= 65535
    BY <1>2, <1>3, <2>2, SMT
  <2>3. CASE n > 65535
    BY <1>2, <1>3, <2>3, SMT
  <2> QED
    BY <2>1, <2>2, <2>3, SMT
<1>5. code \in 0..127 /\ extended \in {0, 2, 8}
      /\ extended = IF code = 126 THEN 2 ELSE IF code = 127 THEN 8 ELSE 0
  BY SMT
<1> HIDE DEF g
<1>6. /\ Len(h) = 2 + extended + k /\ h[1] = 129 /\ h[2] = IF k = 0 THEN code ELSE code + 128
      /\ \A i \in 3..Len(g) : h[i] = g[i]
  <2>1. CASE h = ClientHeader(n)
    BY <1>4, <1>5, <2>1, SMT DEF g
  <2>2. CASE h # ClientHeader(n)
    <3>1. h = [g EXCEPT ![2] = @ + 128] \o <<11, 22, 33, 44>>
      BY <2>2, Zenon DEF MaskedHeader, g
    <3>2. Len(g) >= 2
      BY <1>4, <1>5, SMT
    <3> DEFINE m == [g EXCEPT ![2] = @ + 128] \o <<11, 22, 33, 44>>
    <3>4. Len(m) = Len(g) + 4 /\ m[2] = g[2] + 128 /\ \A i \in 1..Len(g) : i # 2 => m[i] = g[i]
      <4>1. g \in Seq(Int)
        BY <1>4
      <4> HIDE DEF m
      <4> QED
        BY <3>2, <4>1, Masked, Zenon DEF m
    <3>5. h = m
      BY <3>1
    <3> HIDE DEF m
    <3>3. Len(h) = Len(g) + 4 /\ h[2] = g[2] + 128 /\ \A i \in 1..Len(g) : i # 2 => h[i] = g[i]
      BY <3>4, <3>5, Zenon
    <3> QED
      BY <3>2, <3>3, <1>4, <1>5, <2>2, SMT
  <2> QED
    BY <2>1, <2>2
<1>7. n = IF extended = 0 THEN code ELSE ExtendedLength(h, extended)
  <2>1. CASE n <= 125
    BY <2>1, SMT
  <2>2. CASE 125 < n /\ n <= 65535
    <3>1. h[3] = High(n) /\ h[4] = Low(n) /\ Len(h) \in Nat /\ Len(h) >= 4
      BY <1>4, <1>6, <2>2, SMT
    <3>2. n < 65536 /\ n < SizeLimit
      BY <2>2, SizeAssumption, SMT
    <3>4. Join(h[3], h[4]) = n
      BY <3>1, <3>2, JoinTwo
    <3>3. ExtendedLength(h, 2) = Join(h[3], h[4])
      BY <3>1, SMT DEF ExtendedLength
    <3> QED
      BY <3>3, <3>4, <2>2, SMT
  <2>3. CASE n > 65535
    <3>1. /\ h[3] = High(c) /\ h[4] = Low(c) /\ h[5] = High(b) /\ h[6] = Low(b)
          /\ h[7] = High(a) /\ h[8] = Low(a) /\ h[9] = High(n) /\ h[10] = Low(n)
          /\ Len(h) \in Nat /\ Len(h) >= 10
      <4>1. extended = 8 /\ Len(g) = 10 /\ Len(h) \in {10, 14}
        BY <1>4, <1>6, <2>3, SMT
      <4>2. /\ h[3] = g[3] /\ h[4] = g[4] /\ h[5] = g[5] /\ h[6] = g[6] /\ h[7] = g[7]
            /\ h[8] = g[8] /\ h[9] = g[9] /\ h[10] = g[10]
        BY <1>6, <4>1, SMT
      <4>3. /\ g[3] = High(c) /\ g[4] = Low(c) /\ g[5] = High(b) /\ g[6] = Low(b)
            /\ g[7] = High(a) /\ g[8] = Low(a) /\ g[9] = High(n) /\ g[10] = Low(n)
        BY <1>4, <4>1
      <4>4. Len(h) \in Nat /\ Len(h) >= 10
        <5>1. Len(h) = 10 \/ Len(h) = 14
          BY <4>1
        <5>2. 10 \in Nat /\ 14 \in Nat /\ 10 >= 10 /\ 14 >= 10
          BY SMT
        <5> QED
          BY <5>1, <5>2, Zenon
      <4> QED
        BY <4>2, <4>3, <4>4, Zenon
    <3>2. n < SizeLimit
      BY SizeAssumption, SMT
    <3>3. ExtendedLength(h, 8) = n
      BY <3>1, <3>2, JoinEight DEF a, b, c
    <3> QED
      BY <3>3, <2>3, SMT
  <2> QED
    BY <2>1, <2>2, <2>3, SMT
<1>8. k \in {0, 4}
  BY SMT
<1> HIDE DEF code, extended, k
<1>9. /\ h[1] = 129 /\ h[2] = IF k = 0 THEN code ELSE code + 128
      /\ Len(h) = 2 + extended + k
      /\ extended = IF code = 126 THEN 2 ELSE IF code = 127 THEN 8 ELSE 0
  BY <1>5, <1>6, Zenon
<1>10. code \in 0..127 /\ extended \in {0, 2, 8}
  BY <1>5, Zenon
<1>11. IsHeader(h, n, k, code, extended)
  BY <1>7, <1>8, <1>9, <1>10, Zenon DEF IsHeader
<1> QED
  BY <1>11, HeaderRead, Zenon

(* The same of the frames of WebSocket::send(), as long as the length fits two bytes;
   a longer one is not written (websocket.h:191). *)
THEOREM ServerFramesRead ==
  ASSUME NEW n \in Nat, n <= 65535, n + 14 < SizeLimit
  PROVE  LET h == ServerHeader(n) IN
         \A size \in Nat : readFrame(h, size) = IF size < Len(h) + n THEN NoNumber ELSE n
<1>1. ServerHeader(n) = ClientHeader(n)
  <2>1. n < 126 <=> n <= 125
    BY SMT
  <2>2. CASE n <= 125
    <3>1. ServerHeader(n) = <<129, n>>
      BY <2>2, SMT DEF ServerHeader
    <3>2. ClientHeader(n) = <<129, n>>
      BY <2>2, SMT DEF ClientHeader
    <3> QED
      BY <3>1, <3>2
  <2>3. CASE ~(n <= 125)
    BY <2>1, <2>3, SMT DEF ServerHeader, ClientHeader
  <2> QED
    BY <2>2, <2>3
<1>2. EightBytes(n)
  <2>1. Above(n) = 0
    BY SMT DEF Above
  <2>2. Above(0) = 0
    BY SMT DEF Above
  <2>3. 0 < 65536
    BY SMT
  <2> QED
    BY <2>1, <2>2, <2>3, SMT DEF EightBytes
<1> QED
  BY <1>1, <1>2, ClientFramesRead, SMT

=============================================================================
