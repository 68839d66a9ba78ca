----------------------------- MODULE ClientProofs -----------------------------
(***************************************************************************)
(* Theorems about Client, for every size of the buffer and of the          *)
(* responses, and every number of calls.                                   *)
(***************************************************************************)
EXTENDS Client, TLAPS

Busy == pc \in {"connect", "handshake", "send", "read"}
ReadFailed(i) == Tls /\ <<i, "read">> \in failed

(* A socket is open in its own call, or its read has failed. *)
SocketInv ==
  /\ Busy => call \in Calls
  /\ \A i \in Calls : socket[i] = "open" => (i = call /\ Busy) \/ ReadFailed(i)

(* From SSL_new() to the end of the call ssl_ is its session, and it is live.
   Otherwise ssl_ is null, or points to a session that was freed when sending
   the request failed, or to one that a failed read has left. *)
SessionInv ==
  /\ Tls /\ pc \in {"handshake", "send", "read"} => ssl = call /\ session[call] = "live"
  /\ ssl # Null =>
       /\ Tls
       /\ session[ssl] = "freed" => <<ssl, "send">> \in failed
       /\ pc \in {"idle", "connect"} /\ session[ssl] = "live" => <<ssl, "read">> \in failed
       /\ ssl <= call
       /\ pc = "connect" => ssl < call
  /\ pc = "handshake" => Tls
  /\ pc = "gone" => ssl = Null
  /\ \A i \in Calls : session[i] = "live" => ssl = i \/ (<<i, "read">> \in failed /\ i < call)

ClientInv == TypeOK /\ SocketInv /\ SessionInv /\ FreedOnceUnlessFailed

LEMMA InitClientInv == Init => ClientInv
  BY ClientAssumption
     DEF Init, ClientInv, TypeOK, SocketInv, SessionInv, FreedOnceUnlessFailed, Calls, Null,
         Busy, ReadFailed, Tls

(* The server's steps do not touch what the client keeps. *)
LEMMA ServerInv ==
  ASSUME ClientInv, ServerNext
  PROVE  ClientInv'
<1>1. CASE Deliver
  BY <1>1, ClientAssumption
     DEF ClientInv, TypeOK, SocketInv, SessionInv, FreedOnceUnlessFailed, Deliver, Server,
         Responses, NoResponse, Busy, ReadFailed, Tls
<1>2. CASE \E how \in {"fin", "rst"} : End(how)
  BY <1>2
     DEF ClientInv, TypeOK, SocketInv, SessionInv, FreedOnceUnlessFailed, End, Server, Busy,
         ReadFailed, Tls
<1> QED
  BY <1>1, <1>2 DEF ServerNext

(* closeSocket() at the end of a call, well or ill: it frees a session twice
   only if one was left freed. *)
LEMMA CloseInv ==
  ASSUME ClientInv, Busy, closeSocket("idle"),
         UNCHANGED <<scheme, call>>, failed \subseteq failed',
         failed' \subseteq Calls \X {"connect", "handshake", "send", "read"}
  PROVE  /\ socket' \in [Calls -> {"none", "open", "closed"}]
         /\ session' \in [Calls -> {"none", "live", "freed"}]
         /\ ssl' = Null
         /\ pc' \in {"idle", "undefined"}
         /\ SocketInv' /\ SessionInv' /\ FreedOnceUnlessFailed'
<1> USE DEF ClientInv, TypeOK, Busy, Tls, Null
<1>1. call \in Calls
  BY DEF SocketInv
<1>2. CASE Tls /\ ssl # Null
  <2>1. pc' = (IF session[ssl] = "freed" THEN "undefined" ELSE "idle")
    BY <1>2 DEF closeSocket, Freeing
  <2>2. session' = [session EXCEPT ![ssl] = "freed"] /\ ssl' = Null
    BY <1>2 DEF closeSocket, Freeing
  <2>3. SocketInv'
    BY <1>1, <1>2, <2>1 DEF closeSocket, SocketInv, ReadFailed
  <2>4. SessionInv'
    BY <1>1, <1>2, <2>1, <2>2 DEF SessionInv, Calls
  <2>5. FreedOnceUnlessFailed'
    BY <1>2, <2>1, <2>2 DEF SessionInv, FreedOnceUnlessFailed
  <2> QED
    BY <1>1, <1>2, <2>1, <2>2, <2>3, <2>4, <2>5 DEF closeSocket
<1>3. CASE ~Tls \/ ssl = Null
  <2>1. pc' = "idle" /\ session' = session /\ ssl' = Null
    BY <1>3 DEF closeSocket, Freeing, SessionInv
  <2>2. SocketInv'
    BY <1>1, <2>1 DEF closeSocket, SocketInv, ReadFailed
  <2>3. SessionInv' /\ FreedOnceUnlessFailed'
    BY <1>3, <2>1 DEF SessionInv, FreedOnceUnlessFailed
  <2> QED
    BY <1>1, <2>1, <2>2, <2>3 DEF closeSocket
<1> QED
  BY <1>2, <1>3

(* A call that ends in an error, with closeSocket(). *)
LEMMA FailureInv ==
  ASSUME ClientInv, Busy, closeSocket("idle"), Fails(pc)
  PROVE  ClientInv'
<1>1. /\ UNCHANGED <<scheme, call, wire>> /\ outcome' = "error"
      /\ failed' = failed \cup {<<call, pc>>}
  BY DEF Fails
<1>2. failed' \subseteq Calls \X {"connect", "handshake", "send", "read"}
  BY <1>1 DEF ClientInv, TypeOK, SocketInv, Busy
<1> QED
  BY <1>1, <1>2, CloseInv DEF ClientInv, TypeOK, wire

(* Connecting, the handshake, and sending the request. *)
LEMMA ConnectInv ==
  ASSUME ClientInv,
         ConnectFails \/ Connect \/ ConnectTls \/ NewFails \/ Handshake \/ Send
  PROVE  ClientInv'
<1> USE DEF ClientInv, TypeOK, Busy, Tls, Null, wire
<1>1. CASE ConnectFails
  BY <1>1, FailureInv DEF ConnectFails, Fails
<1>2. CASE Connect
  BY <1>2 DEF Connect, At, SocketInv, SessionInv, ReadFailed, FreedOnceUnlessFailed
<1>3. CASE ConnectTls
  <2>1. call \in Calls /\ scheme' = scheme /\ call' = call /\ pc' = "handshake"
    BY <1>3 DEF ConnectTls, At, SocketInv
  <2>2. SocketInv'
    BY <1>3, <2>1 DEF ConnectTls, SocketInv, ReadFailed
  <2>3. ssl' = call /\ session' = [session EXCEPT ![call] = "live"] /\ failed' = failed
    BY <1>3 DEF ConnectTls
  <2>4. ASSUME NEW i \in Calls, session'[i] = "live", i # call
        PROVE  <<i, "read">> \in failed' /\ i < call'
    <3>1. session[i] = "live"
      BY <2>3, <2>4
    <3>2. CASE ssl = i
      BY <1>3, <2>1, <2>3, <3>1, <3>2 DEF ConnectTls, At, SessionInv, Calls
    <3>3. CASE ssl # i
      BY <2>1, <2>3, <3>1, <3>3 DEF SessionInv
    <3> QED
      BY <3>2, <3>3
  <2>5. SessionInv'
    BY <1>3, <2>1, <2>3, <2>4 DEF ConnectTls, SessionInv, Calls
  <2> QED
    BY <1>3, <2>1, <2>2, <2>5 DEF ConnectTls, FreedOnceUnlessFailed
<1>4. CASE NewFails
  <2>1. call \in Calls /\ pc' = "idle" /\ ssl' = Null /\ session' = session
    BY <1>4 DEF NewFails, SocketInv
  <2>2. SocketInv' /\ SessionInv' /\ FreedOnceUnlessFailed'
    BY <1>4, <2>1 DEF NewFails, Fails, SocketInv, ReadFailed, SessionInv, FreedOnceUnlessFailed
  <2> QED
    BY <1>4, <2>1, <2>2 DEF NewFails, Fails
<1>5. CASE Handshake
  BY <1>5 DEF Handshake, At, SocketInv, SessionInv, ReadFailed, FreedOnceUnlessFailed
<1>6. CASE Send
  BY <1>6 DEF Send, At, SocketInv, SessionInv, ReadFailed, FreedOnceUnlessFailed
<1> QED
  BY <1>1, <1>2, <1>3, <1>4, <1>5, <1>6

(* The two failures on which HttpsClient frees its session itself. *)
LEMMA FreeingInv ==
  ASSUME ClientInv, HandshakeFails \/ SendFails
  PROVE  ClientInv'
<1> USE DEF ClientInv, TypeOK, Busy, Tls, Null, wire
<1>1. call \in Calls
  BY DEF SocketInv, HandshakeFails, SendFails
<1>2. CASE HandshakeFails
  <2>1. ssl' = Null /\ pc' = "undefined" /\ failed' = failed \cup {<<call, "handshake">>}
    BY <1>2 DEF HandshakeFails, Fails
  <2>2. CASE Tls
    <3>1. ssl = call
      BY <1>2, <2>2 DEF HandshakeFails, SessionInv
    <3>2. SocketInv' /\ SessionInv'
      BY <1>1, <1>2, <2>1, <2>2, <3>1 DEF HandshakeFails, Fails, SocketInv, ReadFailed, SessionInv
    <3>3. FreedOnceUnlessFailed'
      BY <1>1, <1>2, <2>1, <2>2 DEF HandshakeFails, Fails, FreedOnceUnlessFailed
    <3>4. failed' \subseteq Calls \X {"connect", "handshake", "send", "read"}
      BY <1>1, <2>1
    <3>5. TypeOK'
      BY <1>1, <1>2, <2>1, <3>1, <3>4 DEF HandshakeFails, Fails
    <3> QED
      BY <3>2, <3>3, <3>5
  <2>3. Tls
    BY <1>2 DEF HandshakeFails, SessionInv
  <2> QED
    BY <2>2, <2>3
<1>3. CASE SendFails /\ Tls
  <2>1. ssl = call /\ session[call] = "live"
    BY <1>3 DEF SendFails, SessionInv
  <2>2. /\ session' = [session EXCEPT ![call] = "freed"] /\ pc' = "idle" /\ ssl' = ssl
        /\ failed' = failed \cup {<<call, "send">>}
    BY <1>1, <1>3, <2>1 DEF SendFails, Freeing, Fails, Calls
  <2>3. SocketInv' /\ SessionInv'
    BY <1>1, <1>3, <2>1, <2>2 DEF SendFails, Fails, SocketInv, ReadFailed, SessionInv, Calls
  <2> QED
    BY <1>1, <1>3, <2>1, <2>2, <2>3 DEF SendFails, Fails, FreedOnceUnlessFailed
<1>4. CASE SendFails /\ ~Tls
  BY <1>4, FailureInv DEF SendFails
<1> QED
  BY <1>2, <1>3, <1>4

(* Reading the response. *)
LEMMA ReadInv ==
  ASSUME ClientInv, (\E n \in 1..Buffer : Read(n)) \/ ReadEnd \/ ReadFails \/ ReadFailsTls
  PROVE  ClientInv'
<1> USE DEF ClientInv, TypeOK, Busy, Tls, Null, wire
<1>1. ASSUME NEW n \in 1..Buffer, Read(n)
      PROVE  ClientInv'
  <2>1. /\ pc = "read" /\ got' = got + n /\ got' \in Nat
        /\ UNCHANGED <<scheme, call, failed, response, arrived, ended>>
    BY <1>1, ClientAssumption DEF Read, At
  <2>2. CASE n < Buffer
    <3>1. closeSocket("idle") /\ outcome' \in {"error", "response"}
      BY <1>1, <2>2 DEF Read, Returns
    <3> QED
      BY <2>1, <3>1, CloseInv
  <2>3. CASE ~(n < Buffer)
    BY <1>1, <2>1, <2>3
       DEF Read, SocketInv, SessionInv, ReadFailed, FreedOnceUnlessFailed
  <2> QED
    BY <2>2, <2>3
<1>2. CASE ReadEnd
  <2>1. closeSocket("idle") /\ outcome' \in {"error", "response"} /\ pc = "read"
        /\ UNCHANGED <<scheme, call, failed, response, arrived, got, ended>>
    BY <1>2 DEF ReadEnd, At, Returns
  <2> QED
    BY <2>1, CloseInv
<1>3. CASE ReadFails
  BY <1>3, FailureInv DEF ReadFails
<1>4. CASE ReadFailsTls
  <2>1. call \in Calls /\ pc = "read" /\ Tls /\ failed' = failed \cup {<<call, "read">>}
    BY <1>4 DEF ReadFailsTls, Fails, SocketInv
  <2>2. failed' \subseteq Calls \X {"connect", "handshake", "send", "read"}
    BY <2>1
  <2>3. SocketInv'
    BY <1>4, <2>1 DEF ReadFailsTls, Fails, SocketInv, ReadFailed
  <2>4. SessionInv' /\ FreedOnceUnlessFailed'
    BY <1>4, <2>1 DEF ReadFailsTls, Fails, SessionInv, FreedOnceUnlessFailed
  <2> QED
    BY <1>4, <2>1, <2>2, <2>3, <2>4 DEF ReadFailsTls, Fails
<1> QED
  BY <1>1, <1>2, <1>3, <1>4

LEMMA CallInv ==
  ASSUME ClientInv, Call
  PROVE  ClientInv'
<1> USE DEF ClientInv, TypeOK, Busy, Tls, Null
<1>1. call' = call + 1 /\ call' \in Calls /\ pc' = "connect"
  BY ClientAssumption DEF Call, Calls
<1>2. SocketInv'
  BY <1>1 DEF Call, SocketInv, ReadFailed
<1>3. SessionInv'
  BY <1>1 DEF Call, SessionInv, Calls
<1> QED
  BY <1>1, <1>2, <1>3 DEF Call, Calls, FreedOnceUnlessFailed

(* The destructor frees a session twice only if sending a request has failed. *)
LEMMA DestroyInv ==
  ASSUME ClientInv, Destroy
  PROVE  ClientInv'
<1> USE DEF ClientInv, TypeOK, Busy, Tls, Null
<1>1. pc = "idle" /\ ssl' = Null /\ UNCHANGED <<scheme, call, socket, failed, wire, outcome>>
  BY DEF Destroy
<1>2. CASE ssl # Null
  <2>1. /\ Tls /\ session' = [session EXCEPT ![ssl] = "freed"]
        /\ pc' = IF session[ssl] = "freed" THEN "undefined" ELSE "gone"
    BY <1>2 DEF Destroy, Freeing, SessionInv
  <2>2. SocketInv' /\ SessionInv'
    BY <1>1, <1>2, <2>1 DEF SocketInv, ReadFailed, SessionInv
  <2>3. FreedOnceUnlessFailed'
    BY <1>1, <1>2, <2>1 DEF SessionInv, FreedOnceUnlessFailed
  <2> QED
    BY <1>1, <1>2, <2>1, <2>2, <2>3 DEF wire
<1>3. CASE ssl = Null
  <2>1. session' = session /\ pc' = "gone"
    BY <1>3 DEF Destroy, Freeing
  <2> QED
    BY <1>1, <1>3, <2>1
       DEF wire, SocketInv, ReadFailed, SessionInv, FreedOnceUnlessFailed
<1> QED
  BY <1>2, <1>3

LEMMA ClientInvNext == ClientInv /\ [Next]_vars => ClientInv'
<1> SUFFICES ASSUME ClientInv, [Next]_vars
             PROVE  ClientInv'
  OBVIOUS
<1>1. CASE UNCHANGED vars
  BY <1>1
     DEF vars, wire, ClientInv, TypeOK, SocketInv, SessionInv, FreedOnceUnlessFailed, Busy,
         ReadFailed, Tls
<1>2. CASE CallNext
  BY <1>2, ConnectInv, FreeingInv, ReadInv DEF CallNext
<1> QED
  BY <1>1, <1>2, ServerInv, CallInv, DestroyInv DEF Next

THEOREM ClientInvariant == Spec => []ClientInv
  BY InitClientInv, ClientInvNext, PTL DEF Spec

(* Whatever fails, a call that is over has closed its socket, unless the read of
   a TLS session failed: HttpsClient::readResponse() then returns without
   closeSocket(). *)
THEOREM SocketsAlwaysReleased == Spec => []SocketsReleased
<1>1. ClientInv => SocketsReleased
  BY DEF ClientInv, SocketInv, SocketsReleased, Busy, ReadFailed
<1> QED
  BY <1>1, ClientInvariant, PTL

(* The destructor leaves no session behind but those that failed reads left and
   later calls took the place of. *)
THEOREM SessionsAlwaysReleased == Spec => []SessionsReleased
<1>1. ClientInv => SessionsReleased
  BY DEF ClientInv, TypeOK, SessionInv, SessionsReleased, Calls, Null
<1> QED
  BY <1>1, ClientInvariant, PTL

(* Both together: what a client leaves behind is what failed reads have left. *)
THEOREM AllAlwaysReleased == Spec => []AllReleased
<1>1. SocketsReleased /\ SessionsReleased => AllReleased
  BY DEF AllReleased
<1> QED
  BY <1>1, SocketsAlwaysReleased, SessionsAlwaysReleased, PTL

(* No session is freed twice as long as no handshake and no sending of a
   request has failed. *)
THEOREM FreedTwiceOnlyOnFailure == Spec => []FreedOnceUnlessFailed
<1>1. ClientInv => FreedOnceUnlessFailed
  BY DEF ClientInv
<1> QED
  BY <1>1, ClientInvariant, PTL

-----------------------------------------------------------------------------
(* What is returned of a response, and what the length of the buffer has to do
   with it. *)

LEMMA Multiple ==
  ASSUME NEW b \in Nat \ {0}, NEW g \in Nat, g % b = 0
  PROVE  \E q \in Nat : g = q * b
  BY SMTT(30)

LEMMA MultipleLeavesNothing ==
  ASSUME NEW b \in Nat \ {0}, NEW k \in Nat
  PROVE  (k * b) % b = 0
  BY SMTT(30)

(* A full read keeps the units read a multiple of the buffer, and a shorter one
   does not. *)
LEMMA ShortReadShows ==
  ASSUME NEW b \in Nat \ {0}, NEW g \in Nat, g % b = 0, NEW n \in 1..b
  PROVE  /\ n < b => (g + n) % b # 0
         /\ n = b => (g + n) % b = 0
<1>1. PICK q \in Nat : g = q * b
  BY Multiple
<1>2. CASE n < b
  <2>1. (g + n) % b = n
    BY <1>1, <1>2, SMTT(30)
  <2> QED
    BY <1>2, <2>1
<1>3. CASE n = b
  <2>1. g + n = (q + 1) * b /\ q + 1 \in Nat
    BY <1>1, <1>3
  <2>2. ((q + 1) * b) % b = 0
    BY <2>1, MultipleLeavesNothing
  <2> QED
    BY <1>3, <2>1, <2>2
<1> QED
  BY <1>2, <1>3

(* A call that has not returned has no outcome yet, and has read full buffers
   only: that is why what it returns in the end tells how its last read went. *)
BytesInv ==
  /\ Busy => outcome = "none" /\ response.length > 0
  /\ pc \in {"connect", "handshake", "send"} => got = 0
  /\ pc = "read" => got % Buffer = 0
  /\ CutOnlyAfterShortRead
  /\ WholeReturned

LEMMA InitBytesInv == Init => BytesInv
  BY DEF Init, BytesInv, Busy, CutOnlyAfterShortRead, WholeReturned

(* A call that fails before it has read a unit, or after full buffers. *)
LEMMA FailedBytes ==
  ASSUME BytesInv, Busy, outcome' = "error", UNCHANGED <<response, got, ended>>,
         ~Busy'
  PROVE  BytesInv'
<1>1. got = 0 \/ got % Buffer = 0
  BY DEF BytesInv, Busy
<1>2. WholeReturned'
  BY <1>1 DEF WholeReturned, BytesInv
<1>3. CutOnlyAfterShortRead'
  BY DEF CutOnlyAfterShortRead
<1>4. pc' \notin {"connect", "handshake", "send", "read"}
  BY DEF Busy
<1> QED
  BY <1>2, <1>3, <1>4 DEF BytesInv, Busy

(* A call that goes on without reading. *)
LEMMA SameBytes ==
  ASSUME BytesInv, Busy, UNCHANGED <<response, got, outcome>>, ended = "no" \/ ended' = ended,
         \/ pc' = pc
         \/ /\ pc \in {"connect", "handshake", "send"}
            /\ pc' \in {"handshake", "send", "read"}
  PROVE  BytesInv'
<1>1. got = 0 => got % Buffer = 0
  BY ClientAssumption
<1>2. Busy' /\ outcome' = "none" /\ response'.length > 0
  BY DEF BytesInv, Busy
<1>3. CutOnlyAfterShortRead' /\ WholeReturned'
  BY <1>2 DEF CutOnlyAfterShortRead, WholeReturned
<1>4. pc' \in {"connect", "handshake", "send"} => got' = 0
  BY DEF BytesInv
<1>5. pc' = "read" => got' % Buffer = 0
  BY <1>1 DEF BytesInv
<1> QED
  BY <1>2, <1>3, <1>4, <1>5 DEF BytesInv

(* A call that returns what it has. *)
LEMMA ReturnedBytes ==
  ASSUME TypeOK, BytesInv, Busy, NEW n \in Nat, got' = n, Returns(n),
         UNCHANGED <<response, ended>>, n % Buffer # 0 \/ ended = "fin"
  PROVE  BytesInv'
<1>1. pc' \in {"idle", "undefined"}
  BY DEF Returns, closeSocket, Freeing
<1>2. outcome' = IF Parses(n) THEN "response" ELSE "error"
  BY DEF Returns
<1>3. WholeReturned'
  <2> SUFFICES ASSUME outcome' = "error", response'.length > 0, got' = response'.length
               PROVE  FALSE
    BY DEF WholeReturned
  <2>1. n > 0 /\ n = response.length
    OBVIOUS
  <2>2. Parses(n)
    BY <2>1 DEF Parses
  <2> QED
    BY <1>2, <2>2
<1>4. CutOnlyAfterShortRead'
  BY DEF CutOnlyAfterShortRead
<1> QED
  BY <1>1, <1>3, <1>4 DEF BytesInv, Busy

LEMMA ReadBytes ==
  ASSUME TypeOK, BytesInv, NEW n \in 1..Buffer, Read(n)
  PROVE  BytesInv'
<1>1. /\ pc = "read" /\ got' = got + n /\ got \in Nat /\ got + n \in Nat
      /\ UNCHANGED <<response, ended>>
  BY ClientAssumption DEF Read, At, TypeOK
<1>2. got % Buffer = 0 /\ Busy
  BY <1>1 DEF BytesInv, Busy
<1>3. /\ n < Buffer => (got + n) % Buffer # 0
      /\ n = Buffer => (got + n) % Buffer = 0
  BY <1>1, <1>2, ShortReadShows, ClientAssumption
<1>4. CASE n < Buffer
  <2>1. Returns(got + n)
    BY <1>1, <1>4 DEF Read
  <2> QED
    BY <1>1, <1>2, <1>3, <1>4, <2>1, ReturnedBytes
<1>5. CASE n = Buffer
  <2>1. UNCHANGED <<pc, outcome>>
    BY <1>5, ClientAssumption DEF Read
  <2>2. got' % Buffer = 0
    BY <1>1, <1>3, <1>5
  <2>3. CutOnlyAfterShortRead' /\ WholeReturned'
    BY <1>2, <2>1, <2>2 DEF BytesInv, CutOnlyAfterShortRead, WholeReturned
  <2> QED
    BY <1>1, <1>2, <2>1, <2>2, <2>3 DEF BytesInv, Busy
<1> QED
  BY <1>4, <1>5, ClientAssumption

LEMMA CallNextBytes ==
  ASSUME TypeOK, SessionInv, BytesInv, CallNext
  PROVE  BytesInv'
<1>1. CASE ConnectFails \/ NewFails \/ HandshakeFails \/ SendFails \/ ReadFails \/ ReadFailsTls
  <2>1. /\ Busy /\ outcome' = "error" /\ UNCHANGED <<response, got, ended>>
    BY <1>1 DEF ConnectFails, NewFails, HandshakeFails, SendFails, ReadFails, ReadFailsTls,
                Fails, wire, Busy
  <2>2. pc' \in {"idle", "undefined"}
    BY <1>1 DEF ConnectFails, NewFails, HandshakeFails, SendFails, ReadFails, ReadFailsTls,
                closeSocket, Freeing
  <2> QED
    BY <2>1, <2>2, FailedBytes DEF Busy
<1>2. CASE Connect \/ ConnectTls \/ Handshake \/ Send
  <2>1. /\ pc \in {"connect", "handshake", "send"} /\ pc' \in {"handshake", "send", "read"}
        /\ UNCHANGED <<response, got, ended, outcome>>
    BY <1>2 DEF Connect, ConnectTls, Handshake, Send, At, wire
  <2> QED
    BY <2>1, SameBytes DEF Busy
<1>3. CASE ReadEnd
  <2>1. /\ Busy /\ Returns(got) /\ got' = got /\ got \in Nat /\ ended = "fin"
        /\ UNCHANGED <<response, ended>>
    BY <1>3 DEF ReadEnd, At, Busy, wire, TypeOK
  <2> QED
    BY <2>1, ReturnedBytes
<1> QED
  BY <1>1, <1>2, <1>3, ReadBytes DEF CallNext

LEMMA NextBytes == ClientInv /\ BytesInv /\ [Next]_vars => BytesInv'
<1> SUFFICES ASSUME ClientInv, BytesInv, [Next]_vars
             PROVE  BytesInv'
  OBVIOUS
<1>1. CASE ServerNext
  <2>1. Busy /\ UNCHANGED <<pc, response, got, outcome>>
    BY <1>1 DEF ServerNext, Deliver, End, Server, Busy
  <2>2. ended = "no"
    BY <1>1 DEF ServerNext, Deliver, End, Server
  <2> QED
    BY <2>1, <2>2, SameBytes
<1>2. CASE Call
  <2>1. pc' = "connect" /\ response' \in Responses /\ got' = 0 /\ outcome' = "none"
    BY <1>2 DEF Call
  <2>2. response'.length > 0
    BY <2>1, ClientAssumption DEF Responses
  <2> QED
    BY <2>1, <2>2 DEF BytesInv, Busy, CutOnlyAfterShortRead, WholeReturned
<1>3. CASE CallNext
  BY <1>3, CallNextBytes DEF ClientInv
<1>4. CASE Destroy
  <2>1. pc' \in {"gone", "undefined"} /\ UNCHANGED <<response, got, ended, outcome>>
    BY <1>4 DEF Destroy, Freeing, wire
  <2> QED
    BY <2>1 DEF BytesInv, Busy, CutOnlyAfterShortRead, WholeReturned
<1>5. CASE UNCHANGED vars
  BY <1>5 DEF vars, wire, BytesInv, Busy, CutOnlyAfterShortRead, WholeReturned
<1> QED
  BY <1>1, <1>2, <1>3, <1>4, <1>5 DEF Next

LEMMA BytesInvariant == Spec => []BytesInv
  BY InitBytesInv, NextBytes, ClientInvariant, PTL DEF Spec

(* Whatever the segments and the records the response comes in, one that is cut short
   and returned all the same was cut by a read that did not fill the buffer, or by the
   server (the heuristic end of stream of client.h:225 and client.h:441). *)
THEOREM CutAlwaysAfterShortRead == Spec => []CutOnlyAfterShortRead
<1>1. BytesInv => CutOnlyAfterShortRead
  BY DEF BytesInv
<1> QED
  BY <1>1, BytesInvariant, PTL

(* ... and one that was read whole is lost only if its length is a multiple of the
   buffer's. *)
THEOREM WholeAlwaysReturned == Spec => []WholeReturned
<1>1. BytesInv => WholeReturned
  BY DEF BytesInv
<1> QED
  BY <1>1, BytesInvariant, PTL

=============================================================================
