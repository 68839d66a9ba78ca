-------------------------------- MODULE Client --------------------------------
(***************************************************************************)
(* The HTTP and HTTPS clients (src/src/client.h, client.cc): a client      *)
(* object makes one call after the other, each on a socket of its own, and *)
(* is destroyed.  A call connects, sends its request, reads until a read   *)
(* returns less than the buffer holds, and parses what it has.             *)
(*                                                                         *)
(* Bytes are counted in units.  A response is a unit of headers and its    *)
(* body; a chunk takes two units and the last chunk one.  The server sends *)
(* as much of it as it likes, in any segments, and may end or break the    *)
(* connection at any time; it may also keep it open for ever.              *)
(*                                                                         *)
(* ssl is the pointer ssl_ of HttpsClient: the call its session was made   *)
(* for.  The pointer may outlive the session.                              *)
(***************************************************************************)
EXTENDS Naturals, FiniteSets

CONSTANTS
  Schemes,    \* which of the two clients: "http", "https"
  Buffer,     \* READ_BUFFER_SIZE, in units
  MaxLength,  \* bound: the length of a response
  MaxCalls    \* bound: the calls of one client object

ASSUME ClientAssumption == /\ Schemes \subseteq {"http", "https"}
                           /\ Buffer \in Nat \ {0}
                           /\ {MaxLength, MaxCalls} \subseteq Nat

Calls == 1..MaxCalls
Null == 0

(* Headers, chunks of two units each, and the last chunk: an even length. *)
Responses == {r \in [length : 1..MaxLength, chunked : BOOLEAN] : r.chunked => r.length % 2 = 0}
NoResponse == [length |-> 0, chunked |-> FALSE]

VARIABLES
  scheme,
  pc, call,         \* where the client is, and how many calls it has begun
  socket,           \* of each call: none, open, closed
  session, ssl,     \* of each call: none, live, freed; and the pointer
  failed,           \* the steps of the calls that have failed
  response, arrived, got, ended, \* the server: what it sends, and the units sent and read
  outcome           \* of the last call

wire == <<response, arrived, got, ended>>
vars == <<scheme, pc, call, socket, session, ssl, failed, wire, outcome>>

Tls == scheme = "https"

Init ==
  /\ scheme \in Schemes
  /\ pc = "idle"
  /\ call = 0
  /\ socket = [i \in Calls |-> "none"]
  /\ session = [i \in Calls |-> "none"]
  /\ ssl = Null
  /\ failed = {}
  /\ response = NoResponse
  /\ arrived = 0
  /\ got = 0
  /\ ended = "no"
  /\ outcome = "none"

-----------------------------------------------------------------------------
(* The server's side of the connection. *)

Server ==
  /\ pc \in {"handshake", "send", "read"}
  /\ ended = "no"
  /\ UNCHANGED <<scheme, pc, call, socket, session, ssl, failed, response, got, outcome>>

Deliver == Server /\ pc = "read" /\ arrived' \in arrived + 1..response.length /\ UNCHANGED ended

End(how) == Server /\ ended' = how /\ UNCHANGED arrived

ServerNext == Deliver \/ \E how \in {"fin", "rst"} : End(how)

-----------------------------------------------------------------------------
(* SSL_free(), of a session that may have been freed before. *)
Freeing(i, next) ==
  /\ session' = IF i = Null THEN session ELSE [session EXCEPT ![i] = "freed"]
  /\ pc' = IF i # Null /\ session[i] = "freed" THEN "undefined" ELSE next

(* Mutant: ssl_ still points to the session that was freed. *)
closeSocketDangling(next) ==
  /\ socket' = [socket EXCEPT ![call] = "closed"]
  /\ IF Tls THEN Freeing(ssl, next) ELSE pc' = next /\ UNCHANGED session
  /\ UNCHANGED ssl

(* BaseClient::closeSocket() and HttpsClient::closeSocket(), which frees the
   session too. *)
closeSocket(next) ==
  /\ socket' = [socket EXCEPT ![call] = "closed"]
  /\ IF Tls THEN Freeing(ssl, next) /\ ssl' = Null
            ELSE pc' = next /\ UNCHANGED <<session, ssl>>

Fails(step) ==
  /\ failed' = failed \cup {<<call, step>>}
  /\ outcome' = "error"
  /\ UNCHANGED <<scheme, call, wire>>

At(here) == pc = here /\ UNCHANGED <<scheme, call>>

(* get(), post(), put(), del() call sendRequest(): socket() gives a socket ... *)
Call ==
  /\ pc = "idle"
  /\ call < MaxCalls
  /\ call' = call + 1
  /\ pc' = "connect"
  /\ socket' = [socket EXCEPT ![call'] = "open"]
  /\ response' \in Responses
  /\ arrived' = 0
  /\ got' = 0
  /\ ended' = "no"
  /\ outcome' = "none"
  /\ UNCHANGED <<scheme, session, ssl, failed>>

(* ... then the host is looked up, the timeouts are set, connect() is called,
   and the TLS context is made; each may fail. *)
ConnectFails == pc = "connect" /\ closeSocket("idle") /\ Fails("connect")

Connect ==
  /\ At("connect")
  /\ ~Tls
  /\ pc' = "send"
  /\ UNCHANGED <<socket, session, ssl, failed, wire, outcome>>

(* ssl_ = SSL_new(): what it pointed to before is forgotten. *)
ConnectTls ==
  /\ At("connect")
  /\ Tls
  /\ pc' = "handshake"
  /\ ssl' = call
  /\ session' = [session EXCEPT ![call] = "live"]
  /\ UNCHANGED <<socket, failed, wire, outcome>>

NewFails ==
  /\ pc = "connect"
  /\ Tls
  /\ ssl' = Null
  /\ pc' = "idle"
  /\ socket' = [socket EXCEPT ![call] = "closed"]
  /\ UNCHANGED session
  /\ Fails("connect")

Handshake ==
  /\ At("handshake")
  /\ ended # "rst"
  /\ pc' = "send"
  /\ UNCHANGED <<socket, session, ssl, failed, wire, outcome>>

(* SSL_connect() fails: SSL_free(ssl_) and closeSocket(sock), which frees it
   again. *)
HandshakeFails ==
  /\ pc = "handshake"
  /\ session' = [session EXCEPT ![ssl] = "freed"]
  /\ pc' = "undefined"
  /\ socket' = [socket EXCEPT ![call] = "closed"]
  /\ ssl' = Null
  /\ Fails("handshake")

Send ==
  /\ At("send")
  /\ pc' = "read"
  /\ UNCHANGED <<socket, session, ssl, failed, wire, outcome>>

(* send() fails.  HttpsClient: SSL_free(ssl_) and close(sock), and ssl_ stays. *)
SendFails ==
  /\ pc = "send"
  /\ IF Tls THEN Freeing(ssl, "idle") /\ socket' = [socket EXCEPT ![call] = "closed"]
                                      /\ UNCHANGED ssl
            ELSE closeSocket("idle")
  /\ Fails("send")

-----------------------------------------------------------------------------
(* readResponse() and parseResponse() *)

Available == arrived - got

(* What one read returns: all there is, up to the buffer; of a TLS session,
   the rest of one record. *)
ReadSizes ==
  LET most == IF Available < Buffer THEN Available ELSE Buffer
  IN IF Tls THEN 1..most ELSE {most} \ {0}

(* Mutant: a body must not stop after a chunk. *)
ParsesUnchunked(units) == units > 0 /\ ~response.chunked

(* Headers are needed; a chunked body must not stop inside a chunk.  That the
   last chunk, or the length in the headers, is there is not looked at. *)
Parses(units) == units > 0 /\ (response.chunked => units % 2 = 1 \/ units = response.length)

Returns(units) ==
  /\ closeSocket("idle")
  /\ outcome' = IF Parses(units) THEN "response" ELSE "error"

(* Mutant: a full buffer is an end. *)
ReadOnce(n) ==
  /\ At("read")
  /\ ended # "rst"
  /\ n \in ReadSizes
  /\ got' = got + n
  /\ Returns(got')
  /\ UNCHANGED <<failed, response, arrived, ended>>

(* "heuristic end-of-stream": less than the buffer holds. *)
Read(n) ==
  /\ At("read")
  /\ ended # "rst"
  /\ n \in ReadSizes
  /\ got' = got + n
  /\ IF n < Buffer THEN Returns(got')
                   ELSE UNCHANGED <<pc, socket, session, ssl, outcome>>
  /\ UNCHANGED <<failed, response, arrived, ended>>

(* recv() returns 0. *)
ReadEnd ==
  /\ At("read")
  /\ ~Tls
  /\ ended = "fin" /\ Available = 0
  /\ Returns(got)
  /\ UNCHANGED <<failed, wire>>

(* Mutant: no timeout on the socket. *)
ReadFailsReset ==
  /\ pc = "read"
  /\ ~Tls
  /\ ended = "rst"
  /\ closeSocket("idle")
  /\ Fails("read")

(* recv() fails: the connection is reset, or CLIENT_TIMEOUT_SECONDS have
   passed without a byte. *)
ReadFails ==
  /\ pc = "read"
  /\ ~Tls
  /\ ended = "rst" \/ (ended = "no" /\ Available = 0)
  /\ closeSocket("idle")
  /\ Fails("read")

(* SSL_read() fails, at the end of the stream too: neither the socket nor the
   session is released.  A timeout (WANT_READ) is no failure: it reads again. *)
ReadFailsTls ==
  /\ pc = "read"
  /\ Tls
  /\ ended = "rst" \/ (ended = "fin" /\ Available = 0)
  /\ pc' = "idle"
  /\ UNCHANGED <<socket, session, ssl>>
  /\ Fails("read")

(* Mutant: no cleanupSSL(). *)
DestroyNothing ==
  /\ pc = "idle"
  /\ pc' = "gone"
  /\ UNCHANGED <<scheme, call, socket, session, ssl, failed, wire, outcome>>

(* ~HttpsClient(): cleanupSSL() *)
Destroy ==
  /\ pc = "idle"
  /\ Freeing(IF Tls THEN ssl ELSE Null, "gone")
  /\ ssl' = Null
  /\ UNCHANGED <<scheme, call, socket, failed, wire, outcome>>

-----------------------------------------------------------------------------
CallNext ==
  \/ ConnectFails \/ Connect \/ ConnectTls \/ NewFails
  \/ Handshake \/ HandshakeFails
  \/ Send \/ SendFails
  \/ \E n \in 1..Buffer : Read(n)
  \/ ReadEnd \/ ReadFails \/ ReadFailsTls

Next == ServerNext \/ Call \/ CallNext \/ Destroy

Spec == Init /\ [][Next]_vars

(* The thread in a call runs, and the timeouts of its socket expire. *)
FairSpec == Spec /\ WF_vars(CallNext)

-----------------------------------------------------------------------------
(* Every variable stays in its range. *)
TypeOK ==
  /\ scheme \in Schemes
  /\ pc \in {"idle", "connect", "handshake", "send", "read", "gone", "undefined"}
  /\ call \in 0..MaxCalls
  /\ socket \in [Calls -> {"none", "open", "closed"}]
  /\ session \in [Calls -> {"none", "live", "freed"}]
  /\ ssl \in Calls \cup {Null}
  /\ failed \subseteq Calls \X {"connect", "handshake", "send", "read"}
  /\ response \in Responses \cup {NoResponse}
  /\ {arrived, got} \subseteq Nat
  /\ ended \in {"no", "fin", "rst"}
  /\ outcome \in {"none", "error", "response"}

(* A response is cut short only after a read shorter than the buffer, or where
   the server itself has ended it. *)
CutOnlyAfterShortRead ==
  outcome = "response" /\ got < response.length => got % Buffer # 0 \/ ended = "fin"

(* A response that was read to its end is returned, unless its length leaves
   the last buffer full: then the client waits for more, and what it waits for
   may be a timeout, a reset, or (TLS) the end of the stream. *)
WholeReturned ==
  outcome = "error" /\ response.length > 0 /\ got = response.length => got % Buffer = 0

(* Every call's socket is closed when the call is over, except one whose
   SSL_read() failed. *)
SocketsReleased ==
  pc \in {"idle", "gone"} =>
    \A i \in Calls : socket[i] = "open" => Tls /\ <<i, "read">> \in failed

(* No session is left when the client is gone, except one whose SSL_read()
   failed and whose place another call took. *)
SessionsReleased ==
  pc = "gone" =>
    \A i \in Calls : session[i] = "live" => <<i, "read">> \in failed /\ i < call

(* What a client leaves behind, sockets and sessions, is what those failures of
   SSL_read() have left (HttpsClient::readResponse(), client.h:426). *)
AllReleased == SocketsReleased /\ SessionsReleased

(* "Expected response string or error string" (client.h:338): whatever fails,
   a call comes back with one of the two; no session is freed twice. *)
FreedOnce == pc # "undefined"

(* ... which holds as long as no handshake and no request has failed. *)
FreedOnceUnlessFailed ==
  pc = "undefined" => Tls /\ \E i \in Calls : {<<i, "handshake">>, <<i, "send">>} \cap failed # {}

(* A call returns: the timeouts see to it, except in a TLS session where the
   server falls silent, for HttpsClient reads again after every timeout. *)
Silent == Tls /\ pc = "read" /\ ended = "no" /\ got = arrived

CallsReturn ==
  \/ <>[]Silent
  \/ (pc \notin {"idle", "gone", "undefined"}) ~> (pc \in {"idle", "gone", "undefined"})

=============================================================================
